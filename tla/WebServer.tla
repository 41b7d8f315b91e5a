----------------------------- MODULE WebServer -----------------------------
(***************************************************************************)
(* The threads of the legacy service's web server: the application thread  *)
(* that builds a CivetServer, adds and removes handlers and closes it; the *)
(* master thread that accepts connections; the workers that serve them     *)
(* (civetweb.c built with ALTERNATIVE_QUEUE, CivetServer.cpp).             *)
(*                                                                         *)
(* A critical section of thread_mutex is one step.  The context lock       *)
(* (nonce_mutex) is held over several steps by one operation only,         *)
(* mg_set_handler_type waiting for a handler to fall out of use; every     *)
(* other section of it is one step that needs ContextFree.  What one       *)
(* connection reads and writes is the subject of module Connection.        *)
(***************************************************************************)
EXTENDS Naturals, Sequences, FiniteSets

CONSTANTS
    WorkerCount,   \* num_threads
    Sockets,       \* the connections clients open
    NoSocket,      \* INVALID_SOCKET
    MaxPorts,      \* bound on the entries of the listening_ports option
    MaxCalls       \* bound on the application's addHandler and removeHandler calls

ASSUME WebServerAssumption ==
    WorkerCount \in Nat \ {0} /\ MaxCalls \in Nat /\ MaxPorts \in Nat \ {0}
    /\ NoSocket \notin Sockets

Workers == 1..WorkerCount
Arrays == {"worker_threadids", "worker_connections", "client_wait_events", "client_socks"}

VARIABLES
    main,        \* the application thread: a step of mg_start, or what it does with the server
    failed,      \* the step of mg_start that failed
    mem,         \* the context and its arrays: "null", "live" or "freed"
    option,      \* the entries of listening_ports
    portsTotal,  \* how many of them set_ports_option has looked at
    portsOk,     \* how many of them could be opened
    listening,   \* the number of open listening sockets
    listed,      \* ctx->listening_sockets: "null", "live" or "freed"
    context,     \* CivetServer::context has been assigned
    stop_flag,
    master,      \* the master thread
    offer,       \* the socket produce_socket holds
    turn,        \* the worker the master signals or joins next
    slot,        \* client_socks[i]: [sock, in_use]
    event,       \* the counter of client_wait_events[i]
    worker,      \* the worker threads
    client,      \* conn->client.sock of the worker
    info,        \* the handler get_request_handler gave the worker
    conns,       \* the connections in CivetServer::connections
    handler,     \* the registered request handler, 0 if none
    refcount,
    auth,        \* an authorization handler is registered
    call,        \* what the application asked of mg_set_handler_type
    calls,
    closed       \* how often each socket was closed; accepted ones only

ports == <<option, portsTotal, portsOk, listed>>
mainVars == <<main, failed, mem, context, ports>>
masterVars == <<master, offer, turn, listening>>
workerVars == <<worker, client, info, conns>>
registry == <<handler, refcount, auth, call, calls>>
vars == <<mainVars, stop_flag, masterVars, slot, event, workerVars, registry, closed>>

Accepted == DOMAIN closed
Close(s) == closed' = [closed EXCEPT ![s] = @ + 1]
ContextFree == main # "waiting"
NoHandler == 0

WorkerEnded == {"off", "failed", "ended"}
ThreadsEnded == master \in {"off", "ended"} /\ \A w \in Workers : worker[w] \in WorkerEnded

-----------------------------------------------------------------------------
(* mg_start.  A step that allocates or initialises something succeeds or   *)
(* fails; a failure undoes part of the work itself and calls free_context. *)

Startup == <<"context", "mutexes", "options", "ssl", "listening_ports", "run_as_user",
             "worker_threadids", "worker_connections", "client_wait_events",
             "client_socks", "events", "master", "workers">>
Preparing == {Startup[i] : i \in 1..11}
Step(x) == CHOOSE i \in DOMAIN Startup : Startup[i] = x

\* What the error branch of a step frees before it calls free_context.
UndoneBy(x) ==
    CASE x = "client_wait_events" -> {"worker_threadids"}
      [] x = "client_socks" -> {"client_wait_events", "worker_threadids"}
      [] x = "events" -> {"client_socks", "client_wait_events", "worker_threadids"}
      [] OTHER -> {}

\* Mutant: the number of workers is stored with the other options.
cfg_worker_threads_early(x) == IF Step(x) < Step("options") THEN 0 ELSE WorkerCount

\* cfg_worker_threads is set before the first array is allocated.
cfg_worker_threads(x) == IF Step(x) < Step("worker_threadids") THEN 0 ELSE WorkerCount

(* free_context: the state of the memory after it, and whether it is       *)
(* undefined: a second free, a walk through an array that is not there, or *)
(* a thread that still uses the context.                                   *)
Released(m) == [x \in DOMAIN m |-> IF m[x] = "live" THEN "freed" ELSE m[x]]
ReleaseUndefined(m, x) ==
    \/ \E a \in DOMAIN m : m[a] = "freed"
    \/ cfg_worker_threads(x) > 0 /\ m["client_wait_events"] # "live"
    \/ ~ThreadsEnded

mg_start_fails(x) ==
    LET m == [a \in DOMAIN mem |-> IF a \in UndoneBy(x) THEN "freed" ELSE mem[a]]
    IN  /\ failed' = x
        /\ main' = IF x # "context" /\ ReleaseUndefined(m, x) THEN "undefined" ELSE "failed"
        /\ mem' = Released(m)

StartFails ==
    /\ main \in Preparing \ {"listening_ports"}
    /\ mg_start_fails(main)
    /\ UNCHANGED <<context, ports, stop_flag, masterVars, slot, event, workerVars, registry, closed>>

StartStep ==
    /\ main \in Preparing \ {"listening_ports"}
    /\ main' = Startup[Step(main) + 1]
    /\ mem' = IF main \in DOMAIN mem THEN [mem EXCEPT ![main] = "live"] ELSE mem
    /\ UNCHANGED <<failed, context, ports, stop_flag, masterVars, slot, event, workerVars,
                   registry, closed>>

-----------------------------------------------------------------------------
(* set_ports_option: one socket for every entry of listening_ports, or     *)
(* none.  Here there is no certificate, so a port for https is refused.    *)

\* An entry is "80" or "80r", "443s", or not a port at all.
Entries == {"plain", "secure", "invalid"}

parse_port_string(entry) == [ok |-> entry # "invalid", is_ssl |-> entry = "secure"]

Listenable(entry) == parse_port_string(entry).ok /\ ~parse_port_string(entry).is_ssl

NextPort ==
    /\ main = "listening_ports" /\ portsTotal < Len(option)
    /\ portsTotal' = portsTotal + 1
    /\ UNCHANGED <<option, failed, mem, context, stop_flag, master, offer, turn, slot, event, workerVars,
                   registry, closed>>

\* The entry is not usable, or socket, bind, listen, getsockname or the first realloc fails: the
\* socket is closed again.
PortRefused ==
    /\ NextPort
    /\ UNCHANGED <<main, portsOk, listening, listed>>

\* The second realloc fails.  The array is freed; the context keeps its old address.
PortForgotten ==
    /\ NextPort /\ Listenable(option[portsTotal'])
    /\ main' = IF listed = "freed" THEN "undefined" ELSE main
    /\ listed' = IF listed = "null" THEN "null" ELSE "freed"
    /\ UNCHANGED <<portsOk, listening>>

PortOpened ==
    /\ NextPort /\ Listenable(option[portsTotal'])
    /\ main' = IF listed = "freed" THEN "undefined" ELSE main
    /\ listed' = "live"
    /\ portsOk' = portsOk + 1 /\ listening' = listening + 1

close_all_listening_sockets == listening' = 0 /\ listed' = "null"

PortsOpen == portsOk = portsTotal /\ portsOk > 0

\* All entries or none; the array is walked to close the sockets.
PortsSet ==
    /\ main = "listening_ports" /\ portsTotal = Len(option)
    /\ IF PortsOpen
       THEN main' = Startup[Step(main) + 1] /\ UNCHANGED <<failed, mem, listening, listed>>
       ELSE IF listed = "freed"
       THEN main' = "undefined" /\ failed' = main /\ UNCHANGED <<mem, listening, listed>>
       ELSE mg_start_fails(main) /\ close_all_listening_sockets
    /\ UNCHANGED <<option, portsTotal, portsOk, context, stop_flag, master, offer, turn, slot, event,
                   workerVars, registry, closed>>

-----------------------------------------------------------------------------
\* The result of starting the master thread is not looked at.
StartMaster ==
    /\ main = "master"
    /\ main' = "workers"
    /\ \E ok \in BOOLEAN : master' = IF ok THEN "poll" ELSE "off"
    /\ UNCHANGED <<failed, mem, context, ports, stop_flag, offer, turn, listening, slot, event,
                   workerVars, registry, closed>>

\* Workers start in order; a failure ends the loop, the first one the whole start.
NotStarted == {w \in Workers : worker[w] = "off"}
StartWorker ==
    /\ main = "workers" /\ NotStarted # {}
    /\ LET w == CHOOSE w \in NotStarted : \A v \in NotStarted : w <= v
       IN  worker' = [worker EXCEPT ![w] = "starting"]
    /\ UNCHANGED <<mainVars, stop_flag, masterVars, slot, event, client, info, conns, registry,
                   closed>>

StartWorkerFails ==
    /\ main = "workers" /\ NotStarted # {}
    /\ IF NotStarted = Workers
       THEN mg_start_fails("workers") /\ UNCHANGED context
       ELSE main' = "up" /\ context' = TRUE /\ UNCHANGED <<failed, mem>>
    /\ UNCHANGED <<ports, stop_flag, masterVars, slot, event, workerVars, registry, closed>>

\* mg_start returns and the constructor stores the context.
Constructed ==
    /\ main = "workers" /\ NotStarted = {}
    /\ main' = "up"
    /\ context' = TRUE
    /\ UNCHANGED <<failed, mem, ports, stop_flag, masterVars, slot, event, workerVars, registry,
                   closed>>

-----------------------------------------------------------------------------
(* The handler registry, mg_set_handler_type: for a request handler the    *)
(* caller waits, holding the context lock, until nobody uses the old one.  *)

AskHandler ==
    /\ main = "up" /\ calls < MaxCalls
    /\ calls' = calls + 1
    /\ call' \in {"add", "remove"}
    /\ main' = "waiting"
    /\ UNCHANGED <<failed, mem, context, ports, stop_flag, masterVars, slot, event, workerVars, handler,
                   refcount, auth, closed>>

\* Mutant: nobody waits for the end of use.
handler_info_wait_nothing == TRUE

handler_info_wait_unused == handler = NoHandler \/ refcount = 0

\* Mutant: removing what is not there returns without unlocking.
SetHandlerKeepsLock ==
    /\ main = "waiting" /\ handler_info_wait_unused
    /\ main' = IF call = "remove" /\ handler = NoHandler THEN "waiting" ELSE "up"
    /\ \/ call = "add" /\ handler' = calls
       \/ call = "add" /\ handler = NoHandler /\ handler' = NoHandler   \* out of memory
       \/ call = "remove" /\ handler' = NoHandler
    /\ call' = "none"
    /\ UNCHANGED <<failed, mem, context, ports, stop_flag, masterVars, slot, event, workerVars, refcount,
                   auth, calls, closed>>

SetHandler ==
    /\ main = "waiting" /\ handler_info_wait_unused
    /\ main' = "up"
    /\ \/ call = "add" /\ handler' = calls
       \/ call = "add" /\ handler = NoHandler /\ handler' = NoHandler   \* out of memory
       \/ call = "remove" /\ handler' = NoHandler
    /\ call' = "none"
    /\ UNCHANGED <<failed, mem, context, ports, stop_flag, masterVars, slot, event, workerVars, refcount,
                   auth, calls, closed>>

\* Authorization handlers are replaced at once.
SetAuthHandler ==
    /\ main = "up" /\ calls < MaxCalls
    /\ calls' = calls + 1
    /\ auth' \in BOOLEAN
    /\ UNCHANGED <<mainVars, stop_flag, masterVars, slot, event, workerVars, handler, refcount,
                   call, closed>>

\* CivetServer::close and mg_stop.  Without a master thread mg_stop returns at once.
Stop ==
    /\ main = "up"
    /\ IF master = "off"
       THEN main' = "down" /\ context' = FALSE /\ UNCHANGED stop_flag
       ELSE main' = "stopping" /\ stop_flag' = 1 /\ UNCHANGED context
    /\ UNCHANGED <<failed, mem, ports, masterVars, slot, event, workerVars, registry, closed>>

Stopped ==
    /\ main = "stopping" /\ stop_flag = 2
    /\ main' = IF ReleaseUndefined(mem, "workers") THEN "undefined" ELSE "down"
    /\ mem' = Released(mem)
    /\ context' = FALSE
    /\ handler' = NoHandler
    /\ UNCHANGED <<failed, ports, stop_flag, masterVars, slot, event, workerVars, refcount, auth,
                   call, calls, closed>>

-----------------------------------------------------------------------------
(* The master thread.                                                      *)

Running == main # "undefined"

\* accept failed: nothing changes.  An address the ACL excludes is closed at once.
accept_new_connection ==
    /\ Running /\ master = "poll" /\ stop_flag = 0
    /\ \E s \in Sockets \ Accepted :
           \/ /\ closed' = [t \in Accepted \union {s} |-> IF t = s THEN 0 ELSE closed[t]]
              /\ offer' = s /\ master' = "produce"
           \/ /\ closed' = [t \in Accepted \union {s} |-> IF t = s THEN 1 ELSE closed[t]]
              /\ UNCHANGED <<offer, master>>
    /\ UNCHANGED <<mainVars, stop_flag, turn, listening, slot, event, workerVars, registry>>

event_signal(w) == event' = [event EXCEPT ![w] = @ + 1]

\* Mutant: a slot is free unless it is taken.
produce_socket_unready ==
    /\ Running /\ master = "produce"
    /\ \/ /\ stop_flag = 0
          /\ \E w \in Workers :
                /\ slot[w].in_use # 1
                /\ slot' = [slot EXCEPT ![w] = [sock |-> offer, in_use |-> 1]]
                /\ master' = "signal" /\ turn' = w
          /\ UNCHANGED closed
       \/ /\ stop_flag # 0
          /\ Close(offer)
          /\ master' = "poll"
          /\ UNCHANGED <<slot, turn>>
    /\ offer' = NoSocket
    /\ UNCHANGED <<mainVars, stop_flag, listening, event, workerVars, registry>>

produce_socket ==
    /\ Running /\ master = "produce"
    /\ \/ /\ stop_flag = 0
          /\ \E w \in Workers :
                /\ slot[w].in_use = 2
                /\ slot' = [slot EXCEPT ![w] = [sock |-> offer, in_use |-> 1]]
                /\ master' = "signal" /\ turn' = w
          /\ UNCHANGED closed
       \/ /\ stop_flag # 0
          /\ Close(offer)
          /\ master' = "poll"
          /\ UNCHANGED <<slot, turn>>
    /\ offer' = NoSocket
    /\ UNCHANGED <<mainVars, stop_flag, listening, event, workerVars, registry>>

\* Mutant: the worker is not signalled.
ProduceNoSignal ==
    /\ Running /\ master = "signal"
    /\ UNCHANGED event
    /\ master' = "poll" /\ turn' = 0
    /\ UNCHANGED <<mainVars, stop_flag, offer, listening, slot, workerVars, registry, closed>>

ProduceSignal ==
    /\ Running /\ master = "signal"
    /\ event_signal(turn)
    /\ master' = "poll" /\ turn' = 0
    /\ UNCHANGED <<mainVars, stop_flag, offer, listening, slot, workerVars, registry, closed>>

MasterStops ==
    /\ Running /\ master = "poll" /\ stop_flag = 1
    /\ close_all_listening_sockets
    /\ master' = "wake" /\ turn' = 1
    /\ UNCHANGED <<main, failed, mem, context, option, portsTotal, portsOk, stop_flag, offer, slot, event, workerVars, registry, closed>>

WakeWorker ==
    /\ master = "wake"
    /\ event_signal(turn)
    /\ IF turn = WorkerCount THEN master' = "join" /\ turn' = 1
                             ELSE turn' = turn + 1 /\ UNCHANGED master
    /\ UNCHANGED <<mainVars, stop_flag, offer, listening, slot, workerVars, registry, closed>>

JoinWorker ==
    /\ master = "join"
    /\ worker[turn] \in WorkerEnded
    /\ IF turn = WorkerCount THEN master' = "ended" /\ turn' = 0 /\ stop_flag' = 2
                             ELSE turn' = turn + 1 /\ UNCHANGED <<master, stop_flag>>
    /\ UNCHANGED <<mainVars, offer, listening, slot, event, workerVars, registry, closed>>

-----------------------------------------------------------------------------
(* The workers.                                                            *)

Goto(w, place) == worker' = [worker EXCEPT ![w] = place]

\* Without a buffer or a mutex the thread returns before it is ever idle.
WorkerBegins(w) ==
    /\ Running /\ worker[w] = "starting"
    /\ \E place \in {"idle", "failed"} : Goto(w, place)
    /\ UNCHANGED <<mainVars, stop_flag, masterVars, slot, event, client, info, conns, registry,
                   closed>>

GoIdle(w) ==
    /\ Running /\ worker[w] = "idle"
    /\ slot' = [slot EXCEPT ![w].in_use = 2]
    /\ Goto(w, "wait")
    /\ UNCHANGED <<mainVars, stop_flag, masterVars, event, client, info, conns, registry, closed>>

event_wait(w) ==
    /\ Running /\ worker[w] = "wait" /\ event[w] > 0
    /\ event' = [event EXCEPT ![w] = 0]
    /\ Goto(w, "take")
    /\ UNCHANGED <<mainVars, stop_flag, masterVars, slot, client, info, conns, registry, closed>>

\* Mutant: a worker that ends leaves the connection in its slot open.
consume_socket_leaks(w) ==
    /\ Running /\ worker[w] = "take"
    /\ IF stop_flag = 0 /\ slot[w].in_use = 1
       THEN /\ client' = [client EXCEPT ![w] = slot[w].sock]
            /\ Goto(w, "lookup")
       ELSE /\ Goto(w, "ended")
            /\ UNCHANGED client
    /\ UNCHANGED <<mainVars, stop_flag, masterVars, slot, event, info, conns, registry, closed>>

consume_socket(w) ==
    /\ Running /\ worker[w] = "take"
    /\ IF stop_flag = 0 /\ slot[w].in_use = 1
       THEN /\ client' = [client EXCEPT ![w] = slot[w].sock]
            /\ Goto(w, "lookup")
            /\ UNCHANGED closed
       ELSE /\ IF slot[w].in_use = 1 THEN Close(slot[w].sock) ELSE UNCHANGED closed
            /\ Goto(w, "ended")
            /\ UNCHANGED client
    /\ UNCHANGED <<mainVars, stop_flag, masterVars, slot, event, info, conns, registry>>

\* process_new_connection: the connection ends without a request to handle.
NoRequest(w) ==
    /\ Running /\ worker[w] = "lookup"
    /\ Goto(w, "closing")
    /\ UNCHANGED <<mainVars, stop_flag, masterVars, slot, event, client, info, conns, registry,
                   closed>>

get_request_handler(w) ==
    /\ Running /\ worker[w] = "lookup" /\ ContextFree
    /\ info' = [info EXCEPT ![w] = handler]
    /\ refcount' = IF handler = NoHandler THEN refcount ELSE refcount + 1
    /\ Goto(w, "authorize")
    /\ UNCHANGED <<mainVars, stop_flag, masterVars, slot, event, client, conns, handler, auth,
                   call, calls, closed>>

\* handle_request, part 6: a refused request returns with its handler acquired.
Authorize(w) ==
    /\ Running /\ worker[w] = "authorize" /\ ContextFree
    /\ \/ ~auth /\ UNCHANGED conns /\ Goto(w, "request")
       \/ /\ auth
          /\ conns' = IF context THEN conns \union {w} ELSE conns
          /\ \E place \in IF context THEN {"request", "closing"} ELSE {"closing"} : Goto(w, place)
    /\ UNCHANGED <<mainVars, stop_flag, masterVars, slot, event, client, info, registry, closed>>

\* CivetServer::requestHandler up to the application's handler; a file otherwise.
requestHandler(w) ==
    /\ Running /\ worker[w] = "request"
    /\ IF info[w] = NoHandler
       THEN Goto(w, "closing") /\ UNCHANGED conns
       ELSE /\ ~context \/ ContextFree
            /\ conns' = IF context THEN conns \union {w} ELSE conns
            /\ Goto(w, IF context THEN "getParam" ELSE "release")
    /\ UNCHANGED <<mainVars, stop_flag, masterVars, slot, event, client, info, registry, closed>>

\* The application's handler asks for its parameters.
getParam(w) ==
    /\ Running /\ worker[w] = "getParam" /\ ContextFree
    /\ conns' = conns \union {w}
    /\ Goto(w, "release")
    /\ UNCHANGED <<mainVars, stop_flag, masterVars, slot, event, client, info, registry, closed>>

handler_info_release(w) ==
    /\ Running /\ worker[w] = "release"
    /\ refcount' = refcount - 1
    /\ Goto(w, "closing")
    /\ UNCHANGED <<mainVars, stop_flag, masterVars, slot, event, client, info, conns, handler,
                   auth, call, calls, closed>>

\* CivetServer::closeHandler, called by close_connection.
closeHandler(w) ==
    /\ Running /\ worker[w] = "closing"
    /\ ~context \/ ContextFree
    /\ conns' = IF context THEN conns \ {w} ELSE conns
    /\ Goto(w, "close")
    /\ UNCHANGED <<mainVars, stop_flag, masterVars, slot, event, client, info, registry, closed>>

close_connection(w) ==
    /\ Running /\ worker[w] = "close"
    /\ Close(client[w])
    /\ client' = [client EXCEPT ![w] = NoSocket]
    /\ info' = [info EXCEPT ![w] = NoHandler]
    /\ Goto(w, "idle")
    /\ UNCHANGED <<mainVars, stop_flag, masterVars, slot, event, conns, registry>>

-----------------------------------------------------------------------------
Init ==
    /\ main = "context" /\ failed = "none"
    /\ mem = [x \in Arrays \union {"context"} |-> "null"]
    /\ option \in UNION {[1..n -> Entries] : n \in 0..MaxPorts}
    /\ portsTotal = 0 /\ portsOk = 0 /\ listening = 0 /\ listed = "null" /\ context = FALSE /\ stop_flag = 0
    /\ master = "off" /\ offer = NoSocket /\ turn = 0
    /\ slot = [w \in Workers |-> [sock |-> NoSocket, in_use |-> 0]]
    /\ event = [w \in Workers |-> 0]
    /\ worker = [w \in Workers |-> "off"]
    /\ client = [w \in Workers |-> NoSocket]
    /\ info = [w \in Workers |-> NoHandler]
    /\ conns = {}
    /\ handler = NoHandler /\ refcount = 0 /\ auth = FALSE /\ call = "none" /\ calls = 0
    /\ closed = <<>>

Start == StartStep \/ PortRefused \/ PortOpened \/ PortsSet \/ StartMaster \/ StartWorker \/ Constructed
Master == produce_socket \/ ProduceSignal \/ MasterStops \/ WakeWorker \/ JoinWorker
\* The requests of one connection are one pass through the handlers; Connection has the loop.
Serve(w) ==
    \/ get_request_handler(w) \/ Authorize(w) \/ requestHandler(w) \/ getParam(w)
    \/ handler_info_release(w) \/ closeHandler(w) \/ close_connection(w)
Work(w) == WorkerBegins(w) \/ GoIdle(w) \/ event_wait(w) \/ consume_socket(w) \/ Serve(w)

Next ==
    \/ Start \/ StartFails \/ PortForgotten \/ StartWorkerFails
    \/ AskHandler \/ SetHandler \/ SetAuthHandler \/ Stop \/ Stopped
    \/ accept_new_connection \/ Master
    \/ \E w \in Workers : Work(w) \/ NoRequest(w)

Spec == Init /\ [][Next]_vars

(* Every thread that can run does, and a handler returns.  Nobody has to   *)
(* connect, to change a handler or to stop the server.                     *)
FairSpec ==
    /\ Spec
    /\ WF_vars(Start) /\ WF_vars(SetHandler) /\ WF_vars(Stopped) /\ WF_vars(Master)
    /\ \A w \in Workers : WF_vars(Work(w))

-----------------------------------------------------------------------------
(* Properties.                                                             *)

Places ==
    WorkerEnded \union {"starting", "idle", "wait", "take", "lookup", "authorize", "request",
                        "getParam", "release", "closing", "close"}

\* The type invariant: every variable has a value the code can give it.
TypeOK ==
    /\ main \in {Startup[i] : i \in DOMAIN Startup}
                \union {"up", "waiting", "stopping", "down", "failed", "undefined"}
    /\ failed \in {"none"} \union {Startup[i] : i \in DOMAIN Startup}
    /\ mem \in [Arrays \union {"context"} -> {"null", "live", "freed"}]
    /\ option \in Seq(Entries) /\ Len(option) <= MaxPorts
    /\ portsOk \in 0..portsTotal /\ portsTotal \in 0..MaxPorts
    /\ listening \in 0..MaxPorts /\ listed \in {"null", "live", "freed"}
    /\ context \in BOOLEAN /\ stop_flag \in 0..2
    /\ master \in {"off", "poll", "produce", "signal", "wake", "join", "ended"}
    /\ offer \in Sockets \union {NoSocket} /\ turn \in 0..WorkerCount
    /\ slot \in [Workers -> [sock : Sockets \union {NoSocket}, in_use : 0..2]]
    /\ event \in [Workers -> 0..2]
    /\ worker \in [Workers -> Places]
    /\ client \in [Workers -> Sockets \union {NoSocket}]
    /\ info \in [Workers -> 0..MaxCalls] /\ conns \subseteq Workers
    /\ handler \in 0..MaxCalls /\ refcount \in Nat /\ auth \in BOOLEAN
    /\ call \in {"none", "add", "remove"} /\ calls \in 0..MaxCalls
    /\ Accepted \subseteq Sockets /\ \A s \in Accepted : closed[s] \in Nat

\* Who will close the socket: the master, the worker it was given to, or the worker serving it.
Holders(s) ==
    {<<"master">> : x \in {offer} \intersect {s}}
    \union {<<"slot", w>> : w \in {v \in Workers : /\ worker[v] \in {"wait", "take"}
                                                 /\ slot[v] = [sock |-> s, in_use |-> 1]}}
    \union {<<"worker", w>> : w \in {v \in Workers : client[v] = s}}

\* The connection each worker answers for: the one left in its slot, or its client's.
Given(w) == worker[w] \in {"wait", "take"} /\ slot[w].in_use = 1
Holds == [w \in Workers |-> IF Given(w) THEN slot[w].sock ELSE client[w]]

P == INSTANCE Pool WITH holds <- Holds

(* The threads hand connections on as the pool does, whatever the order of *)
(* their steps: from the master to one worker that has none, each closed   *)
(* once by its owner (produce_socket, consume_socket, close_connection).   *)
ImplementsPool == P!Spec

(* A connection the master accepted has one owner until it is closed, is   *)
(* closed once, and is never handed to a second worker or forgotten in a   *)
(* slot (produce_socket, consume_socket, close_connection).                *)
OneOwner ==
    \A s \in Accepted : closed[s] \in {0, 1} /\ Cardinality(Holders(s)) = 1 - closed[s]

(* A worker asleep in event_wait with a connection in its slot is or will  *)
(* be signalled, and one that wakes while the server runs has a connection:*)
(* it never reaches the "must not reach here" of consume_socket, which     *)
(* would end the thread.                                                   *)
WakeUpExact ==
    \A w \in Workers :
        /\ worker[w] = "wait" /\ slot[w].in_use = 1
              => event[w] > 0 \/ (master = "signal" /\ turn = w)
        /\ worker[w] = "take" /\ stop_flag = 0 => slot[w].in_use = 1

InUse(w) == info[w] # NoHandler /\ worker[w] \in {"authorize", "request", "getParam", "release"}

(* The handler a worker got from get_request_handler is the registered one *)
(* until the worker releases it: mg_set_handler_type neither replaces nor  *)
(* frees a handler in use, and stopping frees none either.                 *)
HandlerStays == \A w \in Workers : InUse(w) => handler = info[w]

(* A worker's mg_connection serves one client after the other and is the   *)
(* key of CivetServer::connections: when the next client comes, nothing is *)
(* stored under it any more.                                               *)
ConnectionForgotten ==
    \A w \in conns : worker[w] \in {"authorize", "request", "getParam", "release", "closing"}

(* The invariant of the pool (produce_socket, consume_socket, event_wait,  *)
(* closeHandler): types, one owner of every connection, no worker that     *)
(* sleeps through its signal or wakes for nothing, no trace of the client  *)
(* before.                                                                 *)
PoolInv == TypeOK /\ OneOwner /\ WakeUpExact /\ ConnectionForgotten

(* mg_start that fails gives back what it took.  It may leave the listening*)
(* sockets open (only when set_uid_option or the first thread fails), and  *)
(* it is undefined exactly from the first worker array on (free_context    *)
(* frees twice, walks an array that is not there or frees the context under*)
(* the master thread) and where memory ran out with a port open already.   *)
(* Once started, the server is never freed under a thread.                 *)
FailedStartExact ==
    LET late == failed # "none" /\ Step(failed) >= Step("worker_threadids")
        alone == failed = "workers" /\ master = "off"
        unlisted == failed \in {"none", "listening_ports"} /\ master = "off" /\ listening > 0
    IN  /\ main = "undefined" => (late /\ ~alone) \/ unlisted
        /\ late /\ ~alone => main = "undefined"
        /\ main = "failed" => (listening > 0 <=> alone \/ failed = "run_as_user")

(* A server that runs listens on every port of the option, one socket for  *)
(* each entry, and finds them in an array that is there: whatever failed   *)
(* and in whatever order, set_ports_option never starts it with a part of  *)
(* its ports.  One that does not come up keeps none of them, except where  *)
(* FailedStartExact says so.                                               *)
AllPortsOpen ==
    /\ main \in {"up", "waiting"} /\ master = "poll" =>
          listening = Len(option) /\ listening > 0 /\ listed = "live"
    /\ main = "failed" /\ failed = "listening_ports" => listening = 0 /\ listed = "null"

(* When CivetServer::close returns and there was a master thread, every    *)
(* thread has ended, every connection and listening socket is closed and   *)
(* nothing of the server is left.                                          *)
StopIsClean ==
    main = "down" /\ master # "off" =>
        /\ ThreadsEnded /\ listening = 0 /\ conns = {} /\ handler = NoHandler
        /\ \A x \in DOMAIN mem : mem[x] = "freed"
        /\ \A s \in Accepted : closed[s] = 1

(* The server's life from mg_start to mg_stop: what is open and allocated  *)
(* after a start that failed, while it runs and after it was stopped.      *)
LifeInv == FailedStartExact /\ AllPortsOpen /\ StopIsClean

(* The one way to hang: the application waits, holding the context lock,   *)
(* for a handler in use by a worker that needs this lock, or for one that  *)
(* a refused request never released.                                       *)
Entangled ==
    /\ main = "waiting" /\ handler # NoHandler
    /\ \/ \E w \in Workers : InUse(w) /\ worker[w] # "release"
       \/ refcount > Cardinality({w \in Workers : InUse(w)})

(* Every accepted connection is served and closed: workers wake up, serve  *)
(* and become free again, and a stopping server closes what is left.  The  *)
(* exceptions are Entangled, a server none of whose workers could start,   *)
(* and the undefined end of a failed start.                                *)
Served ==
    \A s \in Sockets :
        s \in Accepted ~> \/ s \in Accepted /\ closed[s] = 1
                         \/ Entangled \/ main = "undefined"
                         \/ \A w \in Workers : worker[w] \in WorkerEnded

\* addHandler and removeHandler return, unless they are Entangled.
RegistrationReturns == main = "waiting" ~> main = "up" \/ Entangled

\* CivetServer::close returns: the master and all workers notice the stop flag and end.
StopReturns == main = "stopping" ~> main = "down"

\* The application's calls of the server (addHandler, removeHandler, close) return.
CallsReturn == RegistrationReturns /\ StopReturns
=============================================================================
