--------------------------- MODULE WebServerProofs ---------------------------
(***************************************************************************)
(* Theorems about WebServer, for every number of workers, connections,     *)
(* ports and calls of the application.                                     *)
(***************************************************************************)
EXTENDS WebServer, FiniteSetTheorems, WellFoundedInduction, TLAPS

StartSteps == {Startup[i] : i \in DOMAIN Startup}
Serving == {"lookup", "authorize", "request", "getParam", "release", "closing", "close"}

(* The inductive invariant, by subject.                                    *)

\* The types, without the bounds that only the other parts give.
TypeInv ==
    /\ main \in StartSteps \union {"up", "waiting", "stopping", "down", "failed", "undefined"}
    /\ failed \in {"none"} \union StartSteps
    /\ mem \in [Arrays \union {"context"} -> {"null", "live", "freed"}]
    /\ option \in Seq(Entries) /\ Len(option) <= MaxPorts
    /\ portsOk \in 0..portsTotal /\ portsTotal \in 0..Len(option)
    /\ listening \in 0..portsOk /\ listed \in {"null", "live", "freed"}
    /\ context \in BOOLEAN /\ stop_flag \in 0..2
    /\ master \in {"off", "poll", "produce", "signal", "wake", "join", "ended"}
    /\ offer \in Sockets \union {NoSocket} /\ turn \in 0..WorkerCount
    /\ master \in {"signal", "wake", "join"} => turn \in Workers
    /\ slot \in [Workers -> [sock : Sockets \union {NoSocket}, in_use : 0..2]]
    /\ event \in [Workers -> Nat]
    /\ worker \in [Workers -> Places]
    /\ client \in [Workers -> Sockets \union {NoSocket}]
    /\ info \in [Workers -> 0..MaxCalls] /\ conns \subseteq Workers
    /\ handler \in 0..MaxCalls /\ refcount \in Int /\ auth \in BOOLEAN
    /\ call \in {"none", "add", "remove"} /\ calls \in 0..MaxCalls
    /\ Accepted \subseteq Sockets

\* The context is CivetServer's from the return of mg_start to that of mg_stop.
ContextInv == context <=> main \in {"up", "waiting", "stopping"}

\* The three kinds of threads and stop_flag.
ThreadsInv ==
    /\ stop_flag # 0 => main \in {"stopping", "down"}
    /\ stop_flag = 2 <=> master = "ended"
    /\ master \in {"wake", "join"} => stop_flag = 1
    /\ main \in Preparing \union {"master", "failed"} => master = "off"
    /\ main \in Preparing \union {"master", "failed", "undefined"} =>
          \A w \in Workers : worker[w] = "off"
    /\ main = "stopping" => master # "off"
    /\ main = "down" => master \in {"off", "ended"}
    /\ master = "join" => \A w \in Workers : w < turn => worker[w] \in WorkerEnded
    /\ master = "ended" => \A w \in Workers : worker[w] \in WorkerEnded

\* What is allocated and open after each step of mg_start, and until mg_stop.
StartInv ==
    /\ main \in StartSteps =>
          \A x \in DOMAIN mem : mem[x] = IF Step(x) < Step(main) THEN "live" ELSE "null"
    /\ main \in {"up", "waiting", "stopping"} => \A x \in DOMAIN mem : mem[x] = "live"
    /\ main = "down" /\ master # "off" =>
          handler = NoHandler /\ \A x \in DOMAIN mem : mem[x] = "freed"
    /\ main \in StartSteps \union {"up", "waiting", "stopping", "down"} => failed = "none"
    /\ main \in StartSteps /\ Step(main) < Step("listening_ports") =>
          portsTotal = 0 /\ listed = "null"
    /\ main = "listening_ports" =>
          /\ listening = portsOk
          /\ listed = "null" <=> portsOk = 0
          /\ listed = "freed" => portsOk < portsTotal
    /\ \/ main \in StartSteps /\ Step(main) > Step("listening_ports")
       \/ main \in {"up", "waiting"}
       => listening = Len(option) /\ listening > 0 /\ listed = "live"
    /\ master \in {"wake", "join", "ended"} => listening = 0
    /\ main = "failed" /\ failed = "listening_ports" => listed = "null"
    /\ FailedStartExact

\* Who uses the registered handler.
Users == {w \in Workers : InUse(w)}
HandlerInv ==
    /\ refcount >= Cardinality(Users)
    /\ \A w \in Workers : worker[w] \in {"getParam", "release"} => info[w] # NoHandler
    /\ HandlerStays

\* The workers the stopping master has not woken yet.
Unwoken(w) == master \notin {"join", "ended"} /\ (master = "wake" => w >= turn)

\* Signals, slots and sleeping workers.
Asleep(w) ==
    /\ event[w] <= 2
    /\ Unwoken(w) => event[w] <= 1
    /\ Unwoken(w) /\ event[w] = 1 =>
          /\ worker[w] = "wait" /\ slot[w].in_use = 1
          /\ ~(master = "signal" /\ turn = w)
    /\ slot[w].in_use = 2 =>
          worker[w] = "wait" \/ (stop_flag # 0 /\ worker[w] \in {"take", "ended"})
    /\ worker[w] = "wait" /\ slot[w].in_use = 1 =>
          event[w] > 0 \/ (master = "signal" /\ turn = w)
    /\ worker[w] = "take" /\ stop_flag = 0 => slot[w].in_use = 1
SignalInv ==
    /\ \A w \in Workers : Asleep(w)
    /\ master = "signal" => worker[turn] = "wait" /\ slot[turn].in_use = 1

\* The master's offer o and the sockets H of the workers are those that were accepted
\* and not closed yet (c), each in one place.
Owned(o, c, H) ==
    /\ o # NoSocket => o \in DOMAIN c /\ c[o] = 0
    /\ \A w \in Workers : H[w] # NoSocket => H[w] \in DOMAIN c /\ c[H[w]] = 0 /\ H[w] # o
    /\ \A v, w \in Workers : v # w /\ H[v] = H[w] => H[v] = NoSocket
    /\ \A s \in DOMAIN c :
          /\ c[s] \in {0, 1}
          /\ c[s] = 0 => o = s \/ \E w \in Workers : H[w] = s

OwnerInv ==
    /\ Owned(offer, closed, Holds)
    /\ offer # NoSocket <=> master = "produce"
    /\ \A w \in Workers : worker[w] \notin Serving => client[w] = NoSocket
    /\ \A w \in Workers : worker[w] \in Serving \/ Given(w) => Holds[w] # NoSocket
    /\ master = "off" => Accepted = {}

\* What is kept in CivetServer::connections.
ConnsInv ==
    /\ ConnectionForgotten
    /\ ~context => conns = {} /\ \A w \in Workers : worker[w] # "getParam"

FullInv ==
    /\ TypeInv /\ ContextInv /\ ThreadsInv /\ StartInv
    /\ HandlerInv /\ SignalInv /\ OwnerInv /\ ConnsInv

-----------------------------------------------------------------------------
(* The steps of mg_start, spelled out.                                     *)

\* Startup names thirteen different steps.
LEMMA StartupValues ==
    /\ DOMAIN Startup = 1..13
    /\ Startup[1] = "context"
    /\ Startup[2] = "mutexes"
    /\ Startup[3] = "options"
    /\ Startup[4] = "ssl"
    /\ Startup[5] = "listening_ports"
    /\ Startup[6] = "run_as_user"
    /\ Startup[7] = "worker_threadids"
    /\ Startup[8] = "worker_connections"
    /\ Startup[9] = "client_wait_events"
    /\ Startup[10] = "client_socks"
    /\ Startup[11] = "events"
    /\ Startup[12] = "master"
    /\ Startup[13] = "workers"
  BY DEF Startup

\* The steps, and those before the master thread is started.
LEMMA StepNames ==
    /\ StartSteps = {"context", "mutexes", "options", "ssl", "listening_ports", "run_as_user",
                     "worker_threadids", "worker_connections", "client_wait_events",
                     "client_socks", "events", "master", "workers"}
    /\ Preparing = {"context", "mutexes", "options", "ssl", "listening_ports", "run_as_user",
                    "worker_threadids", "worker_connections", "client_wait_events",
                    "client_socks", "events"}
  <1>1. \A i \in 1..13 : \/ i = 1 \/ i = 2 \/ i = 3 \/ i = 4 \/ i = 5 \/ i = 6 \/ i = 7
                         \/ i = 8 \/ i = 9 \/ i = 10 \/ i = 11 \/ i = 12 \/ i = 13
    OBVIOUS
  <1> QED
    BY <1>1, StartupValues DEF StartSteps, Preparing

\* The position of each step.
LEMMA StepValues ==
    /\ Step("context") = 1
    /\ Step("mutexes") = 2
    /\ Step("options") = 3
    /\ Step("ssl") = 4
    /\ Step("listening_ports") = 5
    /\ Step("run_as_user") = 6
    /\ Step("worker_threadids") = 7
    /\ Step("worker_connections") = 8
    /\ Step("client_wait_events") = 9
    /\ Step("client_socks") = 10
    /\ Step("events") = 11
    /\ Step("master") = 12
    /\ Step("workers") = 13
  <1>1. \A i \in 1..13 : \/ i = 1 \/ i = 2 \/ i = 3 \/ i = 4 \/ i = 5 \/ i = 6 \/ i = 7
                         \/ i = 8 \/ i = 9 \/ i = 10 \/ i = 11 \/ i = 12 \/ i = 13
    OBVIOUS
  <1>2. \A i, j \in 1..13 : Startup[i] = Startup[j] => i = j
    BY <1>1, StartupValues
  <1>3. \A i \in 1..13 : Step(Startup[i]) = i
    <2> SUFFICES ASSUME NEW i \in 1..13 PROVE Step(Startup[i]) = i
      OBVIOUS
    <2>1. i \in DOMAIN Startup /\ \A j \in DOMAIN Startup : Startup[j] = Startup[i] => j = i
      BY <1>2, StartupValues
    <2> HIDE DEF Startup
    <2> QED
      BY <2>1 DEF Step
  <1> QED
    BY <1>3, StartupValues

\* The step after each step of mg_start is one.
LEMMA NextStep ==
    \A x \in Preparing : /\ Startup[Step(x) + 1] \in StartSteps
                         /\ Step(Startup[Step(x) + 1]) = Step(x) + 1
                         /\ Step(x) \in 1..11
  BY StepNames, StepValues, StartupValues

-----------------------------------------------------------------------------
(* Types.                                                                  *)

\* The values of the initial state have their types.
LEMMA TypeInit == Init => TypeInv
  <1> SUFFICES ASSUME Init PROVE TypeInv
    OBVIOUS
  <1>1. PICK n \in 0..MaxPorts : option \in [1..n -> Entries]
    BY DEF Init
  <1>2. n \in Nat /\ n <= MaxPorts /\ MaxPorts \in Nat
    BY WebServerAssumption
  <1>3. option \in Seq(Entries) /\ Len(option) = n
    BY <1>1, <1>2
  <1>4. 0 \in 0..MaxCalls /\ 0 \in 0..WorkerCount
    BY WebServerAssumption
  <1>5. Accepted = {}
    BY DEF Init, Accepted
  <1>6. /\ slot \in [Workers -> [sock : Sockets \union {NoSocket}, in_use : 0..2]]
        /\ event \in [Workers -> Nat]
        /\ worker \in [Workers -> Places]
        /\ client \in [Workers -> Sockets \union {NoSocket}]
        /\ info \in [Workers -> 0..MaxCalls]
    BY <1>4 DEF Init, Places, WorkerEnded, NoHandler
  <1>7. /\ main \in StartSteps /\ failed = "none" /\ context \in BOOLEAN /\ auth \in BOOLEAN
        /\ mem \in [Arrays \union {"context"} -> {"null", "live", "freed"}]
    BY StepNames DEF Init
  <1>8. /\ portsOk \in 0..portsTotal /\ portsTotal \in 0..Len(option) /\ listening \in 0..portsOk
        /\ stop_flag \in 0..2 /\ turn \in 0..WorkerCount
        /\ handler \in 0..MaxCalls /\ refcount \in Int /\ calls \in 0..MaxCalls
    BY <1>2, <1>3, <1>4 DEF Init, NoHandler
  <1>9. /\ listed = "null" /\ master = "off" /\ offer = NoSocket /\ conns = {} /\ call = "none"
    BY DEF Init
  <1> QED
    BY <1>2, <1>3, <1>5, <1>6, <1>7, <1>8, <1>9 DEF TypeInv

\* A slot marked idle is a slot.
LEMMA IdleSlot ==
    ASSUME NEW A, NEW x \in [sock : A, in_use : 0..2]
    PROVE  /\ [x EXCEPT !.in_use = 2] \in [sock : A, in_use : 0..2]
           /\ [x EXCEPT !.in_use = 2].in_use = 2
           /\ [x EXCEPT !.in_use = 2].sock = x.sock
  OBVIOUS

\* Every step keeps the types.
LEMMA TypeStep == TypeInv /\ [Next]_vars => TypeInv'
  <1> SUFFICES ASSUME TypeInv, [Next]_vars PROVE TypeInv'
    OBVIOUS
  <1> USE DEF TypeInv, mainVars, ports, masterVars, workerVars, registry, Accepted
  <1>a. /\ WorkerCount \in Nat /\ WorkerCount >= 1 /\ MaxPorts \in Nat /\ MaxCalls \in Nat
        /\ Len(option) \in Nat
    BY WebServerAssumption
  <1>f. ASSUME NEW x \in StartSteps, mg_start_fails(x)
        PROVE  /\ main' \in {"failed", "undefined"} /\ failed' = x
               /\ mem' \in [Arrays \union {"context"} -> {"null", "live", "freed"}]
    BY <1>f DEF mg_start_fails, Released
  <1>1. CASE StartStep
    <2>1. main' \in StartSteps
      BY <1>1, NextStep DEF StartStep
    <2>2. mem' \in [Arrays \union {"context"} -> {"null", "live", "freed"}]
      BY <1>1 DEF StartStep
    <2> QED
      BY <1>1, <2>1, <2>2 DEF StartStep
  <1>2. CASE PortRefused
    BY <1>2, <1>a DEF PortRefused, NextPort
  <1>3. CASE PortForgotten
    BY <1>3, <1>a DEF PortForgotten, NextPort
  <1>4. CASE PortOpened
    BY <1>4, <1>a DEF PortOpened, NextPort
  <1>5. CASE PortsSet
    <2>1. "listening_ports" \in StartSteps /\ "listening_ports" \in Preparing
      BY StepNames
    <2>2. /\ main' \in StartSteps \union {"failed", "undefined"}
          /\ failed' \in {"none"} \union StartSteps
          /\ mem' \in [Arrays \union {"context"} -> {"null", "live", "freed"}]
          /\ listening' \in {0, listening} /\ listed' \in {"null", listed}
      BY <1>5, <1>f, <2>1, NextStep DEF PortsSet, close_all_listening_sockets
    <2> QED
      BY <1>5, <1>a, <2>2 DEF PortsSet
  <1>6. CASE StartMaster
    BY <1>6, StepNames DEF StartMaster
  <1>7. CASE StartWorker
    <2>1. worker' \in [Workers -> Places]
      BY <1>7 DEF StartWorker, Places
    <2> QED
      BY <1>7, <2>1 DEF StartWorker
  <1>8. CASE Constructed
    BY <1>8 DEF Constructed
  <1>9. CASE StartFails
    <2>1. main \in StartSteps
      BY <1>9, StepNames DEF StartFails
    <2> QED
      BY <1>9, <1>f, <2>1 DEF StartFails
  <1>10. CASE StartWorkerFails
    <2>1. "workers" \in StartSteps
      BY StepNames
    <2>2. /\ main' \in {"up", "failed", "undefined"}
          /\ failed' \in {"none"} \union StartSteps
          /\ mem' \in [Arrays \union {"context"} -> {"null", "live", "freed"}]
          /\ context' \in BOOLEAN
      BY <1>10, <1>f, <2>1 DEF StartWorkerFails
    <2> QED
      BY <1>10, <2>2 DEF StartWorkerFails
  <1>11. CASE AskHandler
    BY <1>11, <1>a DEF AskHandler
  <1>12. CASE SetHandler
    BY <1>12, <1>a DEF SetHandler, NoHandler
  <1>13. CASE SetAuthHandler
    BY <1>13, <1>a DEF SetAuthHandler
  <1>14. CASE Stop
    <2>1. main' \in {"down", "stopping"} /\ stop_flag' \in 0..2
      BY <1>14 DEF Stop
    <2>2. context' \in BOOLEAN
      BY <1>14, Zenon DEF Stop
    <2> QED
      BY <1>14, <2>1, <2>2 DEF Stop
  <1>15. CASE Stopped
    <2>1. /\ main' \in {"down", "undefined"} /\ context' \in BOOLEAN /\ handler' \in 0..MaxCalls
          /\ mem' \in [Arrays \union {"context"} -> {"null", "live", "freed"}]
      <3>1. main' \in {"down", "undefined"} /\ context' = FALSE /\ handler' = 0
        BY <1>15 DEF Stopped, NoHandler
      <3>2. mem' = Released(mem)
        BY <1>15 DEF Stopped
      <3>3. mem' \in [Arrays \union {"context"} -> {"null", "live", "freed"}]
        BY <3>2 DEF Released
      <3>4. handler' \in 0..MaxCalls
        BY <1>a, <3>1
      <3> QED
        BY <3>1, <3>3, <3>4, Zenon
    <2> QED
      BY <1>15, <2>1 DEF Stopped
  <1>16. CASE accept_new_connection
    BY <1>16 DEF accept_new_connection
  <1>17. CASE produce_socket
    <2>1. /\ slot' \in [Workers -> [sock : Sockets \union {NoSocket}, in_use : 0..2]]
          /\ master' \in {"signal", "poll"} /\ turn' \in 0..WorkerCount
          /\ master' = "signal" => turn' \in Workers
          /\ DOMAIN closed' = DOMAIN closed
      <3>1. CASE stop_flag = 0
        <4>1. PICK w \in Workers : /\ slot' = [slot EXCEPT ![w] = [sock |-> offer, in_use |-> 1]]
                                   /\ master' = "signal" /\ turn' = w
          BY <1>17, <3>1 DEF produce_socket
        <4>2. w \in 0..WorkerCount
          BY <1>a DEF Workers
        <4>3. [sock |-> offer, in_use |-> 1] \in [sock : Sockets \union {NoSocket}, in_use : 0..2]
          OBVIOUS
        <4>4. slot' \in [Workers -> [sock : Sockets \union {NoSocket}, in_use : 0..2]]
          BY <4>1, <4>3
        <4> QED
          BY <1>17, <3>1, <4>1, <4>2, <4>4 DEF produce_socket
      <3>2. CASE stop_flag # 0
        BY <1>17, <3>2 DEF produce_socket, Close
      <3> QED
        BY <3>1, <3>2
    <2> QED
      BY <1>17, <2>1 DEF produce_socket
  <1>18. CASE ProduceSignal
    BY <1>18, <1>a DEF ProduceSignal, event_signal
  <1>19. CASE MasterStops
    <2>1. 1 \in Workers /\ 1 \in 0..WorkerCount
      BY <1>a DEF Workers
    <2>2. 0 \in 0..portsOk
      BY <1>a
    <2> QED
      BY <1>19, <2>1, <2>2 DEF MasterStops, close_all_listening_sockets
  <1>20. CASE WakeWorker
    <2>1. turn' \in Workers /\ turn' \in 0..WorkerCount /\ master' \in {"wake", "join"}
      BY <1>20, <1>a DEF WakeWorker, Workers
    <2>2. event' \in [Workers -> Nat]
      BY <1>20 DEF WakeWorker, event_signal
    <2>3. UNCHANGED <<mainVars, stop_flag, offer, listening, slot, workerVars, registry, closed>>
      BY <1>20 DEF WakeWorker
    <2>4. /\ stop_flag' = stop_flag /\ slot' = slot /\ closed' = closed /\ refcount' = refcount
          /\ worker' = worker /\ client' = client /\ info' = info /\ conns' = conns
          /\ handler' = handler /\ auth' = auth /\ call' = call /\ calls' = calls
      BY <2>3
    <2> QED
      BY <2>1, <2>2, <2>3, <2>4, SMTT(60)
  <1>21. CASE JoinWorker
    <2>1. /\ turn' \in 0..WorkerCount /\ master' \in {"join", "ended"} /\ stop_flag' \in 0..2
          /\ master' = "join" => turn' \in Workers
      <3>1. CASE turn = WorkerCount
        BY <1>21, <1>a, <3>1 DEF JoinWorker
      <3>2. CASE turn # WorkerCount
        <4>1. master = "join" /\ turn' = turn + 1 /\ UNCHANGED <<master, stop_flag>>
          BY <1>21, <3>2 DEF JoinWorker
        <4>2. turn \in Workers /\ turn + 1 \in Workers
          BY <1>a, <3>2, <4>1 DEF Workers
        <4> QED
          BY <1>a, <4>1, <4>2 DEF Workers
      <3> QED
        BY <3>1, <3>2
    <2>2. UNCHANGED <<mainVars, offer, listening, slot, event, workerVars, registry, closed>>
      BY <1>21 DEF JoinWorker
    <2> QED
      BY <2>1, <2>2
  <1>22. ASSUME NEW w \in Workers, Work(w) \/ NoRequest(w) PROVE TypeInv'
    <2> USE DEF Goto, Places, WorkerEnded
    <2>1. CASE WorkerBegins(w)
      BY <2>1 DEF WorkerBegins
    <2>2. CASE GoIdle(w)
      <3>1. slot[w] \in [sock : Sockets \union {NoSocket}, in_use : 0..2]
        OBVIOUS
      <3>2. [slot[w] EXCEPT !.in_use = 2] \in [sock : Sockets \union {NoSocket}, in_use : 0..2]
        BY <3>1, IdleSlot
      <3>3. slot' = [slot EXCEPT ![w] = [slot[w] EXCEPT !.in_use = 2]]
        BY <2>2 DEF GoIdle
      <3>4. slot' \in [Workers -> [sock : Sockets \union {NoSocket}, in_use : 0..2]]
        BY <3>2, <3>3
      <3> QED
        BY <2>2, <3>4 DEF GoIdle
    <2>3. CASE event_wait(w)
      BY <2>3 DEF event_wait
    <2>4. CASE consume_socket(w)
      <3>1. slot[w].sock \in Sockets \union {NoSocket}
        OBVIOUS
      <3>2. client' \in [Workers -> Sockets \union {NoSocket}] /\ worker' \in [Workers -> Places]
        BY <2>4, <3>1 DEF consume_socket
      <3>3. DOMAIN closed' = DOMAIN closed
        BY <2>4 DEF consume_socket, Close
      <3> QED
        BY <2>4, <3>2, <3>3 DEF consume_socket
    <2>5. CASE get_request_handler(w)
      BY <2>5 DEF get_request_handler
    <2>6. CASE Authorize(w)
      <3>1. conns' \subseteq Workers /\ worker' \in [Workers -> Places]
        BY <2>6 DEF Authorize
      <3> QED
        BY <2>6, <3>1 DEF Authorize
    <2>7. CASE requestHandler(w)
      BY <2>7 DEF requestHandler
    <2>8. CASE getParam(w)
      BY <2>8 DEF getParam
    <2>9. CASE handler_info_release(w)
      BY <2>9 DEF handler_info_release
    <2>10. CASE closeHandler(w)
      BY <2>10 DEF closeHandler
    <2>11. CASE close_connection(w)
      BY <2>11, <1>a DEF close_connection, Close, NoHandler
    <2>12. CASE NoRequest(w)
      BY <2>12 DEF NoRequest
    <2> QED
      BY <1>22, <2>1, <2>2, <2>3, <2>4, <2>5, <2>6, <2>7, <2>8, <2>9, <2>10, <2>11, <2>12
      DEF Work, Serve
  <1>23. CASE UNCHANGED vars
    BY <1>23 DEF vars
  <1> QED
    BY <1>1, <1>2, <1>3, <1>4, <1>5, <1>6, <1>7, <1>8, <1>9, <1>10, <1>11, <1>12, <1>13,
       <1>14, <1>15, <1>16, <1>17, <1>18, <1>19, <1>20, <1>21, <1>22, <1>23
    DEF Next, Start, Master

-----------------------------------------------------------------------------
(* The threads and the context.                                            *)

\* The context is assigned and dropped with the steps of the application thread.
LEMMA ContextStep ==
    ASSUME TypeInv, ContextInv, [Next]_vars
    PROVE  ContextInv'
  <1> USE DEF ContextInv, mainVars, ports, masterVars, workerVars, registry
  <1>s. \A x \in StartSteps : x \notin {"up", "waiting", "stopping"}
    BY StepNames
  <1>1. ASSUME UNCHANGED context,
               main \notin {"up", "waiting", "stopping"}, main' \notin {"up", "waiting", "stopping"}
        PROVE  ContextInv'
    BY <1>1, Zenon
  <1>2. ASSUME UNCHANGED <<context, main>> PROVE ContextInv'
    BY <1>2, Zenon
  <1>p. Preparing \subseteq StartSteps /\ {"listening_ports", "master", "workers"} \subseteq StartSteps
    BY StepNames
  <1>3. CASE StartStep
    BY <1>3, <1>1, <1>s, <1>p, NextStep DEF StartStep
  <1>4. CASE PortRefused
    BY <1>4, <1>2 DEF PortRefused, NextPort
  <1>5. CASE PortForgotten
    BY <1>5, <1>1 DEF PortForgotten, NextPort
  <1>6. CASE PortOpened
    BY <1>6, <1>1 DEF PortOpened, NextPort
  <1>7. CASE PortsSet
    <2>1. main' \in StartSteps \union {"failed", "undefined"} /\ UNCHANGED context
      BY <1>7, <1>p, NextStep, StepNames DEF PortsSet, mg_start_fails
    <2> QED
      BY <1>7, <1>1, <1>s, <2>1 DEF PortsSet
  <1>8. CASE StartMaster
    BY <1>8, <1>1 DEF StartMaster
  <1>9. CASE StartWorker
    BY <1>9, <1>2 DEF StartWorker
  <1>10. CASE Constructed
    BY <1>10, Zenon DEF Constructed
  <1>11. CASE StartFails
    BY <1>11, <1>1, <1>s, <1>p DEF StartFails, mg_start_fails
  <1>12. CASE StartWorkerFails
    <2>1. CASE NotStarted = Workers
      BY <1>12, <2>1, <1>1 DEF StartWorkerFails, mg_start_fails
    <2>2. CASE NotStarted # Workers
      BY <1>12, <2>2, Zenon DEF StartWorkerFails
    <2> QED
      BY <2>1, <2>2
  <1>13. CASE AskHandler
    BY <1>13, Zenon DEF AskHandler
  <1>14. CASE SetHandler
    BY <1>14, Zenon DEF SetHandler
  <1>15. CASE Stop
    <2>1. CASE master = "off"
      <3>1. main' = "down" /\ context' = FALSE
        BY <1>15, <2>1 DEF Stop
      <3>2. main' \notin {"up", "waiting", "stopping"} /\ ~context'
        BY <3>1
      <3> QED
        BY <3>2, Zenon
    <2>2. CASE master # "off"
      <3>1. main = "up" /\ main' = "stopping" /\ UNCHANGED context
        BY <1>15, <2>2 DEF Stop
      <3> QED
        BY <3>1, Zenon
    <2> QED
      BY <2>1, <2>2
  <1>16. CASE Stopped
    <2>1. main' \in {"undefined", "down"} /\ ~context'
      BY <1>16 DEF Stopped
    <2>2. main' \notin {"up", "waiting", "stopping"}
      BY <2>1
    <2> QED
      BY <2>1, <2>2, Zenon
  <1>17. CASE SetAuthHandler
    BY <1>17, <1>2 DEF SetAuthHandler
  <1>18. CASE accept_new_connection
    BY <1>18, <1>2 DEF accept_new_connection
  <1>19. CASE Master
    BY <1>19, <1>2 DEF Master, produce_socket, ProduceSignal, MasterStops, WakeWorker, JoinWorker
  <1>20. ASSUME NEW w \in Workers, Work(w) \/ NoRequest(w) PROVE ContextInv'
    <2>1. UNCHANGED <<context, main>>
      BY <1>20
      DEF Work, Serve, NoRequest, WorkerBegins, GoIdle, event_wait, consume_socket,
          get_request_handler, Authorize, requestHandler, getParam, handler_info_release,
          closeHandler, close_connection
    <2> QED
      BY <2>1, <1>2
  <1>21. CASE UNCHANGED vars
    BY <1>21, <1>2 DEF vars
  <1> QED
    BY <1>3, <1>4, <1>5, <1>6, <1>7, <1>8, <1>9, <1>10, <1>11, <1>12, <1>13, <1>14, <1>15,
       <1>16, <1>17, <1>18, <1>19, <1>20, <1>21
    DEF Next, Start

\* When the master has ended, the context can be freed: everything is there and
\* no thread is left.
LEMMA ReleaseDefined ==
    ASSUME TypeInv, ThreadsInv, StartInv, Stopped
    PROVE  main' = "down"
  <1>1. main = "stopping" /\ stop_flag = 2 /\ master = "ended"
    BY DEF Stopped, ThreadsInv
  <1>2. \A x \in DOMAIN mem : mem[x] = "live"
    BY <1>1 DEF StartInv
  <1>3. "client_wait_events" \in DOMAIN mem
    BY DEF TypeInv, Arrays
  <1>4. ThreadsEnded
    BY <1>1 DEF ThreadsInv, ThreadsEnded
  <1>5. ~ReleaseUndefined(mem, "workers")
    BY <1>2, <1>3, <1>4 DEF ReleaseUndefined
  <1> QED
    BY <1>5 DEF Stopped

\* A step of a worker that has started and not ended.
LEMMA WorkerMoves ==
    ASSUME TypeInv, ThreadsInv, NEW w \in Workers, worker[w] \notin WorkerEnded, NEW p,
           worker' = [worker EXCEPT ![w] = p], UNCHANGED <<main, stop_flag, master, turn>>
    PROVE  ThreadsInv'
  <1>1. worker[w] # "off"
    BY DEF WorkerEnded
  <1>2. \A v \in Workers : worker[v] \in WorkerEnded => worker'[v] = worker[v]
    BY DEF TypeInv
  <1>3. main \notin Preparing \union {"master", "failed", "undefined"}
    BY <1>1 DEF ThreadsInv
  <1>4. ~(master = "ended")
    BY DEF ThreadsInv
  <1> QED
    BY <1>2, <1>3, <1>4 DEF ThreadsInv

\* Each step of a worker moves it from a place that is not an end.
LEMMA WorkMoves ==
    ASSUME TypeInv, NEW w \in Workers, Work(w) \/ NoRequest(w)
    PROVE  /\ worker[w] \notin WorkerEnded
           /\ \E p : worker' = [worker EXCEPT ![w] = p]
           /\ UNCHANGED <<mainVars, stop_flag, masterVars>>
  <1> USE DEF WorkerEnded, Goto
  <1>1. CASE WorkerBegins(w)
    BY <1>1 DEF WorkerBegins
  <1>2. CASE GoIdle(w)
    BY <1>2 DEF GoIdle
  <1>3. CASE event_wait(w)
    BY <1>3 DEF event_wait
  <1>4. CASE consume_socket(w)
    BY <1>4 DEF consume_socket
  <1>5. CASE get_request_handler(w)
    BY <1>5 DEF get_request_handler
  <1>6. CASE Authorize(w)
    BY <1>6 DEF Authorize
  <1>7. CASE requestHandler(w)
    BY <1>7 DEF requestHandler
  <1>8. CASE getParam(w)
    BY <1>8 DEF getParam
  <1>9. CASE handler_info_release(w)
    BY <1>9 DEF handler_info_release
  <1>10. CASE closeHandler(w)
    BY <1>10 DEF closeHandler
  <1>11. CASE close_connection(w)
    BY <1>11 DEF close_connection
  <1>12. CASE NoRequest(w)
    BY <1>12 DEF NoRequest
  <1> QED
    BY <1>1, <1>2, <1>3, <1>4, <1>5, <1>6, <1>7, <1>8, <1>9, <1>10, <1>11, <1>12
    DEF Work, Serve

\* mg_start works before any thread runs, mg_stop returns after the last has ended.
LEMMA ThreadsStep ==
    ASSUME TypeInv, ThreadsInv, StartInv, [Next]_vars
    PROVE  ThreadsInv'
  <1> USE DEF mainVars, ports, masterVars, workerVars, registry
  <1>1. CASE StartStep
    <2>1. main \in Preparing /\ main' \in StartSteps /\ UNCHANGED <<stop_flag, master, turn, worker>>
      BY <1>1, NextStep DEF StartStep
    <2> QED
      BY <2>1, StepNames DEF ThreadsInv
  <1>2. CASE PortRefused
    BY <1>2 DEF PortRefused, NextPort, ThreadsInv
  <1>3. CASE PortForgotten \/ PortOpened
    <2>1. /\ main = "listening_ports" /\ main' \in {main, "undefined"}
          /\ UNCHANGED <<stop_flag, master, turn, worker>>
      BY <1>3 DEF PortForgotten, PortOpened, NextPort
    <2> QED
      BY <2>1, StepNames DEF ThreadsInv
  <1>4. CASE PortsSet
    <2>1. /\ main = "listening_ports" /\ main' \in {"run_as_user", "failed", "undefined"}
          /\ UNCHANGED <<stop_flag, master, turn, worker>>
      BY <1>4, StepValues, StartupValues DEF PortsSet, mg_start_fails
    <2> QED
      BY <2>1, StepNames DEF ThreadsInv
  <1>5. CASE StartMaster
    <2>1. /\ main = "master" /\ main' = "workers" /\ master' \in {"poll", "off"}
          /\ UNCHANGED <<stop_flag, turn, worker>>
      BY <1>5 DEF StartMaster
    <2> QED
      BY <2>1, StepNames DEF ThreadsInv
  <1>6. CASE StartWorker
    <2>1. main = "workers" /\ UNCHANGED <<main, stop_flag, master, turn>>
      BY <1>6 DEF StartWorker
    <2> QED
      BY <2>1, StepNames DEF ThreadsInv, TypeInv
  <1>7. CASE Constructed
    <2>1. main = "workers" /\ main' = "up" /\ UNCHANGED <<stop_flag, master, turn, worker>>
      BY <1>7 DEF Constructed
    <2> QED
      BY <2>1, StepNames DEF ThreadsInv, TypeInv
  <1>8. CASE StartFails
    <2>1. /\ main \in Preparing /\ main' \in {"failed", "undefined"}
          /\ UNCHANGED <<stop_flag, master, turn, worker>>
      BY <1>8 DEF StartFails, mg_start_fails
    <2> QED
      BY <2>1, StepNames DEF ThreadsInv
  <1>9. CASE StartWorkerFails
    <2>1. main = "workers" /\ UNCHANGED <<stop_flag, master, turn, worker>>
      BY <1>9 DEF StartWorkerFails
    <2>2. stop_flag = 0 /\ master # "ended"
      BY <2>1 DEF ThreadsInv
    <2>3. CASE NotStarted = Workers
      <3>1. \A w \in Workers : worker[w] = "off"
        BY <2>3 DEF NotStarted
      <3>2. main' = "undefined" \/ (main' = "failed" /\ ThreadsEnded)
        BY <1>9, <2>3 DEF StartWorkerFails, mg_start_fails, ReleaseUndefined
      <3> QED
        BY <2>1, <2>2, <3>1, <3>2, StepNames DEF ThreadsInv, ThreadsEnded
    <2>4. CASE NotStarted # Workers
      <3>1. main' = "up"
        BY <1>9, <2>4 DEF StartWorkerFails
      <3> QED
        BY <2>1, <2>2, <3>1, StepNames DEF ThreadsInv
    <2> QED
      BY <2>3, <2>4
  <1>10. CASE AskHandler \/ SetHandler \/ SetAuthHandler
    <2>1. /\ main \in {"up", "waiting"} /\ main' \in {"up", "waiting"}
          /\ UNCHANGED <<stop_flag, master, turn, worker>>
      BY <1>10 DEF AskHandler, SetHandler, SetAuthHandler
    <2> QED
      BY <2>1, StepNames DEF ThreadsInv
  <1>11. CASE Stop
    <2>1. main = "up" /\ stop_flag = 0 /\ UNCHANGED <<master, turn, worker>>
      BY <1>11 DEF Stop, ThreadsInv
    <2>2. \/ master = "off" /\ main' = "down" /\ UNCHANGED stop_flag
          \/ master # "off" /\ main' = "stopping" /\ stop_flag' = 1
      BY <1>11 DEF Stop
    <2> QED
      BY <2>1, <2>2, StepNames DEF ThreadsInv
  <1>12. CASE Stopped
    <2>1. main = "stopping" /\ stop_flag = 2 /\ UNCHANGED <<stop_flag, master, turn, worker>>
      BY <1>12 DEF Stopped
    <2>2. main' = "down"
      BY <1>12, ReleaseDefined
    <2> QED
      BY <2>1, <2>2, StepNames DEF ThreadsInv
  <1>13. CASE accept_new_connection
    <2>1. /\ stop_flag = 0 /\ master = "poll" /\ master' \in {"poll", "produce"}
          /\ UNCHANGED <<main, stop_flag, turn, worker>>
      BY <1>13 DEF accept_new_connection
    <2> QED
      BY <2>1 DEF ThreadsInv
  <1>14. CASE produce_socket
    <2>1. /\ master = "produce" /\ master' \in {"poll", "signal"}
          /\ UNCHANGED <<main, stop_flag, worker>>
      BY <1>14 DEF produce_socket
    <2> QED
      BY <2>1 DEF ThreadsInv
  <1>15. CASE ProduceSignal
    <2>1. master = "signal" /\ master' = "poll" /\ UNCHANGED <<main, stop_flag, worker>>
      BY <1>15 DEF ProduceSignal
    <2> QED
      BY <2>1 DEF ThreadsInv
  <1>16. CASE MasterStops
    <2>1. /\ master = "poll" /\ stop_flag = 1 /\ master' = "wake"
          /\ UNCHANGED <<main, stop_flag, worker>>
      BY <1>16 DEF MasterStops
    <2> QED
      BY <2>1 DEF ThreadsInv
  <1>17. CASE WakeWorker
    <2>1. /\ master = "wake" /\ UNCHANGED <<main, stop_flag, worker>>
          /\ \/ master' = "join" /\ turn' = 1
             \/ master' = "wake"
      BY <1>17 DEF WakeWorker
    <2>2. \A w \in Workers : ~(w < 1)
      BY WebServerAssumption DEF Workers
    <2> QED
      BY <2>1, <2>2 DEF ThreadsInv
  <1>18. CASE JoinWorker
    <2>1. /\ master = "join" /\ worker[turn] \in WorkerEnded /\ UNCHANGED <<main, worker>>
          /\ \/ turn = WorkerCount /\ master' = "ended" /\ turn' = 0 /\ stop_flag' = 2
             \/ turn' = turn + 1 /\ UNCHANGED <<master, stop_flag>>
      BY <1>18 DEF JoinWorker
    <2>2. turn \in Nat /\ \A w \in Workers : w \in Nat /\ w <= WorkerCount
      BY WebServerAssumption DEF TypeInv, Workers
    <2>3. \A w \in Workers : w <= turn => worker[w] \in WorkerEnded
      BY <2>1, <2>2 DEF ThreadsInv
    <2>4. CASE turn = WorkerCount /\ master' = "ended" /\ turn' = 0 /\ stop_flag' = 2
      <3>1. \A w \in Workers : worker[w] \in WorkerEnded
        BY <2>2, <2>3, <2>4
      <3> QED
        BY <2>1, <2>4, <3>1 DEF ThreadsInv
    <2>5. CASE turn' = turn + 1 /\ UNCHANGED <<master, stop_flag>>
      <3>1. \A w \in Workers : w < turn' => worker[w] \in WorkerEnded
        BY <2>2, <2>3, <2>5
      <3> QED
        BY <2>1, <2>5, <3>1 DEF ThreadsInv
    <2> QED
      BY <2>1, <2>4, <2>5
  <1>19. ASSUME NEW w \in Workers, Work(w) \/ NoRequest(w) PROVE ThreadsInv'
    BY <1>19, WorkMoves, WorkerMoves
  <1>20. CASE UNCHANGED vars
    BY <1>20 DEF vars, ThreadsInv
  <1> QED
    BY <1>1, <1>2, <1>3, <1>4, <1>5, <1>6, <1>7, <1>8, <1>9, <1>10, <1>11, <1>12, <1>13,
       <1>14, <1>15, <1>16, <1>17, <1>18, <1>19, <1>20
    DEF Next, Start, Master

-----------------------------------------------------------------------------
(* mg_start and mg_stop: memory and ports.                                 *)

\* The steps have different positions, and what mg_start allocates is named after
\* the step that does it.
LEMMA StepOrder ==
    /\ \A x \in StartSteps : Step(x) \in 1..13
    /\ \A x, y \in StartSteps : Step(x) = Step(y) => x = y
    /\ Arrays \union {"context"} \subseteq StartSteps
    /\ "none" \notin StartSteps
    /\ StartSteps \intersect {"up", "waiting", "stopping", "down", "failed", "undefined"} = {}
  BY StepNames, StepValues DEF Arrays

\* A step of mg_start that fails before the worker arrays ends the start in order;
\* from the first worker array on free_context is undefined.
LEMMA FailsWhere ==
    ASSUME TypeInv, ThreadsInv, StartInv, main \in Preparing, mg_start_fails(main)
    PROVE  /\ failed' = main
           /\ main' = IF Step(main) < Step("worker_threadids") THEN "failed" ELSE "undefined"
  <1> DEFINE m == [a \in DOMAIN mem |-> IF a \in UndoneBy(main) THEN "freed" ELSE mem[a]]
  <1>1. /\ failed' = main
        /\ main' = IF main # "context" /\ ReleaseUndefined(m, main) THEN "undefined" ELSE "failed"
    BY DEF mg_start_fails
  <1>2. main \in StartSteps /\ DOMAIN mem = Arrays \union {"context"}
    BY StepNames DEF TypeInv
  <1>3. \A a \in DOMAIN mem : mem[a] = IF Step(a) < Step(main) THEN "live" ELSE "null"
    BY <1>2 DEF StartInv
  <1>4. ThreadsEnded
    BY DEF ThreadsInv, ThreadsEnded, WorkerEnded
  <1>5. "client_wait_events" \in DOMAIN mem
    BY <1>2 DEF Arrays
  <1>6. CASE Step(main) < Step("worker_threadids")
    <2>1. UndoneBy(main) = {}
      BY <1>2, <1>6, StepNames, StepValues DEF UndoneBy
    <2>2. \A a \in DOMAIN m : m[a] # "freed"
      BY <1>3, <2>1
    <2>3. cfg_worker_threads(main) = 0
      BY <1>6 DEF cfg_worker_threads
    <2>4. ~ReleaseUndefined(m, main)
      <3> HIDE DEF m
      <3> QED
        BY <1>4, <2>2, <2>3 DEF ReleaseUndefined
    <2> QED
      BY <1>1, <1>6, <2>4
  <1>7. CASE ~(Step(main) < Step("worker_threadids"))
    <2>1. main \in {"worker_threadids", "worker_connections", "client_wait_events",
                    "client_socks", "events"}
      BY <1>7, StepNames, StepValues
    <2>2. cfg_worker_threads(main) = WorkerCount /\ WorkerCount > 0
      BY <1>7, WebServerAssumption DEF cfg_worker_threads
    <2>3. m["client_wait_events"] # "live"
      <3>1. CASE main \in {"client_socks", "events"}
        <4>1. "client_wait_events" \in UndoneBy(main)
          BY <3>1 DEF UndoneBy
        <4> QED
          BY <1>5, <4>1
      <3>2. CASE main \in {"worker_threadids", "worker_connections", "client_wait_events"}
        <4>1. mem["client_wait_events"] = "null"
          BY <1>3, <1>5, <3>2, StepValues
        <4> QED
          BY <1>5, <4>1
      <3> QED
        BY <2>1, <3>1, <3>2
    <2>4. ReleaseUndefined(m, main)
      <3> HIDE DEF m
      <3> QED
        BY <2>2, <2>3 DEF ReleaseUndefined
    <2>5. main # "context"
      BY <2>1
    <2> HIDE DEF m
    <2> QED
      BY <1>1, <1>7, <2>4, <2>5
  <1> QED
    BY <1>1, <1>6, <1>7

\* A start whose first worker cannot be started is undefined exactly when the
\* master runs.
LEMMA WorkersFailWhere ==
    ASSUME TypeInv, ThreadsInv, StartInv, main = "workers", NotStarted = Workers,
           mg_start_fails("workers")
    PROVE  /\ failed' = "workers"
           /\ main' = IF master = "off" THEN "failed" ELSE "undefined"
  <1> DEFINE m == [a \in DOMAIN mem |-> IF a \in UndoneBy("workers") THEN "freed" ELSE mem[a]]
  <1>1. /\ failed' = "workers"
        /\ main' = IF ReleaseUndefined(m, "workers") THEN "undefined" ELSE "failed"
    BY DEF mg_start_fails
  <1>2. "workers" \in StartSteps /\ DOMAIN mem = Arrays \union {"context"}
    BY StepNames DEF TypeInv
  <1>3. \A a \in DOMAIN mem : mem[a] = "live"
    BY <1>2, StepValues DEF StartInv, Arrays
  <1>4. UndoneBy("workers") = {}
    BY DEF UndoneBy
  <1>5. \A a \in DOMAIN m : m[a] = "live"
    BY <1>3, <1>4
  <1>6. "client_wait_events" \in DOMAIN m
    BY <1>2 DEF Arrays
  <1>7. ThreadsEnded <=> master = "off"
    <2>1. \A w \in Workers : worker[w] \in WorkerEnded
      BY DEF NotStarted, WorkerEnded
    <2>2. master # "ended"
      BY DEF ThreadsInv
    <2> QED
      BY <2>1, <2>2 DEF ThreadsEnded
  <1> HIDE DEF m
  <1>8. ReleaseUndefined(m, "workers") <=> master # "off"
    BY <1>5, <1>6, <1>7 DEF ReleaseUndefined
  <1> QED
    BY <1>1, <1>8

\* While a start has not failed there is nothing for FailedStartExact to say.
LEMMA NotFailed ==
    ASSUME failed' = "none", main' \notin {"failed", "undefined"}
    PROVE  FailedStartExact'
  BY DEF FailedStartExact

\* Every step keeps what is allocated and open in line with the step of mg_start.
LEMMA StartInvStep ==
    ASSUME TypeInv, ThreadsInv, StartInv, [Next]_vars
    PROVE  StartInv'
  <1> USE DEF mainVars, ports, masterVars, workerVars, registry
  <1>d. DOMAIN mem = Arrays \union {"context"} /\ DOMAIN mem' = Arrays \union {"context"}
    BY TypeStep DEF TypeInv
  <1>u. ASSUME UNCHANGED <<main, failed, mem, option, portsTotal, portsOk, listening, listed, master>>,
               handler' = handler \/ main # "down"
        PROVE  StartInv'
    BY <1>u DEF StartInv, FailedStartExact
  <1>1. CASE StartStep
    <2>1. /\ main \in Preparing \ {"listening_ports"} /\ main' = Startup[Step(main) + 1]
          /\ mem' = IF main \in DOMAIN mem THEN [mem EXCEPT ![main] = "live"] ELSE mem
          /\ UNCHANGED <<failed, option, portsTotal, portsOk, listening, listed, master>>
      BY <1>1 DEF StartStep
    <2>2. /\ main \in StartSteps /\ main' \in StartSteps /\ Step(main') = Step(main) + 1
          /\ Step(main) \in 1..11
      BY <2>1, NextStep, StepNames
    <2>3. \A x \in DOMAIN mem' : mem'[x] = IF Step(x) < Step(main') THEN "live" ELSE "null"
      <3> SUFFICES ASSUME NEW x \in DOMAIN mem
                   PROVE  mem'[x] = IF Step(x) < Step(main') THEN "live" ELSE "null"
        BY <1>d
      <3>1. x \in StartSteps /\ Step(x) \in 1..13
        BY <1>d, StepOrder
      <3>2. mem[x] = IF Step(x) < Step(main) THEN "live" ELSE "null"
        BY <2>2 DEF StartInv
      <3>3. CASE x = main
        BY <2>1, <2>2, <3>1, <3>3
      <3>4. CASE x # main
        <4>1. mem'[x] = mem[x]
          BY <2>1, <3>4
        <4>2. Step(x) # Step(main)
          BY <2>2, <3>1, <3>4, StepOrder
        <4> QED
          BY <2>2, <3>1, <3>2, <4>1, <4>2
      <3> QED
        BY <3>3, <3>4
    <2>4. failed' = "none" /\ main' \notin {"up", "waiting", "stopping", "down", "failed", "undefined"}
      BY <2>1, <2>2, StepOrder DEF StartInv
    <2>5. FailedStartExact'
      BY <2>4, NotFailed
    <2>6. Step("listening_ports") = 5 /\ "listening_ports" \in StartSteps
      BY StepValues, StepNames
    <2>7. Step(main) # 5
      BY <2>1, <2>2, <2>6, StepOrder
    <2>8. Step(main') < Step("listening_ports") => portsTotal' = 0 /\ listed' = "null"
      BY <2>1, <2>2, <2>6 DEF StartInv
    <2>9. main' = "listening_ports" =>
             /\ listening' = portsOk'
             /\ listed' = "null" <=> portsOk' = 0
             /\ listed' = "freed" => portsOk' < portsTotal'
      <3> SUFFICES ASSUME main' = "listening_ports"
                   PROVE  listening = 0 /\ portsOk = 0 /\ listed = "null"
        BY <2>1
      <3>1. Step(main) < Step("listening_ports")
        BY <2>2, <2>6
      <3>2. portsTotal = 0 /\ listed = "null"
        BY <2>2, <3>1 DEF StartInv
      <3> QED
        BY <3>2 DEF TypeInv
    <2>10. Step(main') > Step("listening_ports") =>
             listening' = Len(option') /\ listening' > 0 /\ listed' = "live"
      <3> SUFFICES ASSUME Step(main') > Step("listening_ports")
                   PROVE  listening = Len(option) /\ listening > 0 /\ listed = "live"
        BY <2>1
      <3>1. Step(main) > Step("listening_ports")
        BY <2>2, <2>6, <2>7
      <3> QED
        BY <2>2, <3>1 DEF StartInv
    <2>11. master' \notin {"wake", "join", "ended"}
      BY <2>1 DEF ThreadsInv
    <2> QED
      BY <2>3, <2>4, <2>5, <2>8, <2>9, <2>10, <2>11 DEF StartInv
  <1>2. CASE PortRefused \/ PortForgotten \/ PortOpened
    <2>1. /\ main = "listening_ports" /\ portsTotal' = portsTotal + 1
          /\ UNCHANGED <<failed, mem, option, master>>
      BY <1>2 DEF PortRefused, PortForgotten, PortOpened, NextPort
    <2>2. /\ main \in StartSteps /\ Step(main) = 5 /\ Step("listening_ports") = 5
          /\ main \in Preparing
      BY <2>1, StepNames, StepValues
    <2>3. /\ listening = portsOk /\ (listed = "null" <=> portsOk = 0)
          /\ (listed = "freed" => portsOk < portsTotal) /\ failed = "none"
      BY <2>1, <2>2 DEF StartInv
    <2>4. portsOk \in Nat /\ portsTotal \in Nat /\ portsOk <= portsTotal
      BY DEF TypeInv
    <2>5. master = "off"
      BY <2>2 DEF ThreadsInv
    <2>6. \/ main' = main /\ UNCHANGED <<portsOk, listening, listed>>
          \/ /\ main' = main /\ UNCHANGED <<portsOk, listening>>
             /\ listed # "freed" /\ listed' = IF listed = "null" THEN "null" ELSE "freed"
          \/ /\ main' = main /\ portsOk' = portsOk + 1 /\ listening' = listening + 1
             /\ listed # "freed" /\ listed' = "live"
          \/ /\ main' = "undefined" /\ listed = "freed" /\ listening' \in {listening, listening + 1}
      BY <1>2 DEF PortRefused, PortForgotten, PortOpened
    <2>7. CASE main' = main
      <3>1. /\ listening' = portsOk' /\ (listed' = "null" <=> portsOk' = 0)
            /\ (listed' = "freed" => portsOk' < portsTotal')
        BY <2>1, <2>3, <2>4, <2>6, <2>7
      <3>2. \A x \in DOMAIN mem' : mem'[x] = IF Step(x) < Step(main') THEN "live" ELSE "null"
        BY <2>1, <2>2, <2>7 DEF StartInv
      <3>3. FailedStartExact'
        BY <2>1, <2>3, <2>7, NotFailed
      <3> QED
        BY <2>1, <2>2, <2>3, <2>5, <2>7, <3>1, <3>2, <3>3 DEF StartInv
    <2>8. CASE main' # main
      <3>1. main' = "undefined" /\ listening' > 0
        BY <2>1, <2>3, <2>4, <2>6, <2>8
      <3>2. FailedStartExact'
        BY <2>1, <2>3, <2>5, <3>1 DEF FailedStartExact
      <3> QED
        BY <2>1, <2>5, <3>1, <3>2, StepOrder DEF StartInv
    <2> QED
      BY <2>7, <2>8
  <1>3. CASE PortsSet
    <2>1. /\ main = "listening_ports" /\ portsTotal = Len(option)
          /\ UNCHANGED <<option, portsTotal, portsOk, master>>
      BY <1>3 DEF PortsSet
    <2>2. /\ main \in StartSteps /\ Step(main) = 5 /\ Step("listening_ports") = 5
          /\ main \in Preparing /\ Startup[Step(main) + 1] = "run_as_user"
          /\ Step("run_as_user") = 6 /\ Step("worker_threadids") = 7
          /\ "run_as_user" \in StartSteps
      BY <2>1, StepNames, StepValues, StartupValues
    <2>3. /\ listening = portsOk /\ (listed = "null" <=> portsOk = 0)
          /\ (listed = "freed" => portsOk < portsTotal) /\ failed = "none"
      BY <2>1, <2>2 DEF StartInv
    <2>4. portsOk \in Nat /\ portsTotal \in Nat /\ portsOk <= portsTotal
          /\ listed \in {"null", "live", "freed"}
      BY DEF TypeInv
    <2>5. master = "off"
      BY <2>2 DEF ThreadsInv
    <2>6. CASE PortsOpen
      <3>1. main' = "run_as_user" /\ UNCHANGED <<failed, mem, listening, listed>>
        BY <1>3, <2>2, <2>6 DEF PortsSet
      <3>2. listening = Len(option) /\ listening > 0 /\ listed = "live"
        BY <2>1, <2>3, <2>4, <2>6 DEF PortsOpen
      <3>3. \A x \in DOMAIN mem' : mem'[x] = IF Step(x) < Step(main') THEN "live" ELSE "null"
        <4> SUFFICES ASSUME NEW x \in DOMAIN mem
                     PROVE  mem[x] = IF Step(x) < 6 THEN "live" ELSE "null"
          BY <2>2, <3>1
        <4>1. x \in StartSteps /\ x # "listening_ports" /\ Step(x) \in 1..13
          BY <1>d, StepOrder DEF Arrays
        <4>2. Step(x) # 5
          BY <2>1, <2>2, <4>1, StepOrder
        <4>3. mem[x] = IF Step(x) < 5 THEN "live" ELSE "null"
          BY <2>2 DEF StartInv
        <4> QED
          BY <4>1, <4>2, <4>3
      <3>4. FailedStartExact'
        BY <2>3, <3>1, NotFailed
      <3> QED
        BY <2>1, <2>2, <2>3, <2>5, <3>1, <3>2, <3>3, <3>4 DEF StartInv
    <2>7. CASE ~PortsOpen /\ listed = "freed"
      <3>1. main' = "undefined" /\ failed' = "listening_ports" /\ UNCHANGED <<listening, listed>>
        BY <1>3, <2>1, <2>7 DEF PortsSet
      <3>2. listening > 0
        BY <2>3, <2>4, <2>7
      <3>3. FailedStartExact'
        BY <2>1, <2>2, <2>5, <3>1, <3>2 DEF FailedStartExact
      <3> QED
        BY <2>1, <2>5, <3>1, <3>3, StepOrder DEF StartInv
    <2>8. CASE ~PortsOpen /\ listed # "freed"
      <3>1. mg_start_fails(main) /\ listening' = 0 /\ listed' = "null"
        BY <1>3, <2>8 DEF PortsSet, close_all_listening_sockets
      <3>2. main' = "failed" /\ failed' = "listening_ports"
        BY <2>1, <2>2, <3>1, FailsWhere
      <3>3. FailedStartExact'
        BY <2>1, <2>2, <2>5, <3>1, <3>2 DEF FailedStartExact
      <3> QED
        BY <2>1, <2>5, <3>1, <3>2, <3>3, StepOrder DEF StartInv
    <2> QED
      BY <2>6, <2>7, <2>8
  <1>4. CASE StartMaster
    <2>1. /\ main = "master" /\ main' = "workers" /\ master' \in {"poll", "off"}
          /\ UNCHANGED <<failed, mem, option, portsTotal, portsOk, listening, listed>>
      BY <1>4 DEF StartMaster
    <2>2. /\ {"master", "workers"} \subseteq StartSteps
          /\ Step("master") = 12 /\ Step("workers") = 13 /\ Step("listening_ports") = 5
      BY StepNames, StepValues
    <2>3. \A x \in DOMAIN mem : Step(x) < 12
      BY <1>d, StepValues DEF Arrays
    <2>4. \A x \in DOMAIN mem' : mem'[x] = IF Step(x) < Step(main') THEN "live" ELSE "null"
      <3>1. \A x \in DOMAIN mem : mem[x] = "live"
        BY <2>1, <2>2, <2>3 DEF StartInv
      <3>2. \A x \in DOMAIN mem : Step(x) < 13
        BY <1>d, StepValues DEF Arrays
      <3> QED
        BY <2>1, <2>2, <3>1, <3>2
    <2>5. failed = "none" /\ listening = Len(option) /\ listening > 0 /\ listed = "live"
      BY <2>1, <2>2 DEF StartInv
    <2>6. FailedStartExact'
      BY <2>1, <2>5, NotFailed
    <2> QED
      BY <2>1, <2>2, <2>4, <2>5, <2>6 DEF StartInv
  <1>5. CASE StartWorker
    BY <1>5, <1>u DEF StartWorker
  <1>6. ASSUME main = "workers", main' = "up",
               UNCHANGED <<failed, mem, option, portsTotal, portsOk, listening, listed, master>>
        PROVE  StartInv'
    <2>1. /\ "workers" \in StartSteps
          /\ Step("workers") = 13 /\ Step("listening_ports") = 5
      BY StepNames, StepValues
    <2>2. \A x \in DOMAIN mem : Step(x) < 13
      BY <1>d, StepValues DEF Arrays
    <2>3. \A x \in DOMAIN mem : mem[x] = "live"
      BY <1>6, <2>1, <2>2 DEF StartInv
    <2>4. failed = "none" /\ listening = Len(option) /\ listening > 0 /\ listed = "live"
      BY <1>6, <2>1 DEF StartInv
    <2>5. FailedStartExact'
      BY <1>6, <2>4, NotFailed
    <2>6. master \notin {"wake", "join", "ended"}
      BY <1>6 DEF ThreadsInv
    <2> QED
      BY <1>6, <2>1, <2>3, <2>4, <2>5, <2>6, StepOrder DEF StartInv
  <1>7. CASE Constructed
    BY <1>7, <1>6 DEF Constructed
  <1>8. CASE StartFails
    <2>1. /\ main \in Preparing \ {"listening_ports"} /\ mg_start_fails(main)
          /\ UNCHANGED <<option, portsTotal, portsOk, listening, listed, master>>
      BY <1>8 DEF StartFails
    <2>2. /\ main \in StartSteps /\ master = "off" /\ failed = "none"
          /\ "listening_ports" \in StartSteps
      BY <2>1, StepNames DEF ThreadsInv, StartInv
    <2>3. /\ failed' = main
          /\ main' = IF Step(main) < Step("worker_threadids") THEN "failed" ELSE "undefined"
      BY <2>1, FailsWhere
    <2>4. /\ Step("listening_ports") = 5 /\ Step("run_as_user") = 6 /\ Step("worker_threadids") = 7
          /\ "run_as_user" \in StartSteps
      BY StepValues, StepNames
    <2>5. Step(main) \in 1..13 /\ Step(main) # 5 /\ main # "workers"
      BY <2>1, <2>2, <2>4, StepOrder, StepNames
    <2>6. Step(main) < 5 => listening = 0
      <3>1. Step(main) < 5 => portsTotal = 0
        BY <2>2, <2>4 DEF StartInv
      <3> QED
        BY <3>1 DEF TypeInv
    <2>7. Step(main) = 6 => main = "run_as_user" /\ listening > 0
      BY <2>2, <2>4, StepOrder DEF StartInv
    <2>8. FailedStartExact'
      <3>1. CASE Step(main) < 7
        <4>1. main' = "failed"
          BY <2>3, <2>4, <3>1
        <4>2. listening > 0 <=> main = "run_as_user"
          BY <2>4, <2>5, <2>6, <2>7, <3>1
        <4>3. ~(Step(main) >= 7)
          BY <2>5, <3>1
        <4> QED
          BY <2>1, <2>2, <2>3, <2>4, <2>5, <4>1, <4>2, <4>3 DEF FailedStartExact
      <3>2. CASE ~(Step(main) < 7)
        <4>1. main' = "undefined" /\ Step(main) >= 7
          BY <2>3, <2>4, <2>5, <3>2
        <4>2. main # "none"
          BY <2>2, StepOrder
        <4> QED
          BY <2>1, <2>2, <2>3, <2>4, <2>5, <4>1, <4>2 DEF FailedStartExact
      <3> QED
        BY <3>1, <3>2
    <2>9. main' \in {"failed", "undefined"} /\ failed' # "listening_ports"
      BY <2>1, <2>3
    <2> QED
      BY <2>1, <2>2, <2>8, <2>9, StepOrder DEF StartInv
  <1>9. CASE StartWorkerFails
    <2>1. /\ main = "workers" /\ UNCHANGED <<option, portsTotal, portsOk, listening, listed, master>>
      BY <1>9 DEF StartWorkerFails
    <2>2. CASE NotStarted = Workers
      <3>1. /\ failed' = "workers"
            /\ main' = IF master = "off" THEN "failed" ELSE "undefined"
        BY <1>9, <2>1, <2>2, WorkersFailWhere DEF StartWorkerFails
      <3>2. /\ "workers" \in StartSteps /\ "workers" # "none"
            /\ Step("workers") = 13 /\ Step("listening_ports") = 5 /\ Step("worker_threadids") = 7
        BY StepNames, StepValues
      <3>3. listening > 0
        BY <2>1, <3>2 DEF StartInv
      <3>4. FailedStartExact'
        BY <2>1, <3>1, <3>2, <3>3 DEF FailedStartExact
      <3>5. master \notin {"wake", "join", "ended"}
        BY <2>1 DEF ThreadsInv
      <3> QED
        BY <2>1, <3>1, <3>4, <3>5, StepOrder DEF StartInv
    <2>3. CASE NotStarted # Workers
      BY <1>9, <2>1, <2>3, <1>6 DEF StartWorkerFails
    <2> QED
      BY <2>2, <2>3
  <1>10. CASE AskHandler \/ SetHandler \/ SetAuthHandler
    <2>1. /\ main \in {"up", "waiting"} /\ main' \in {"up", "waiting"}
          /\ UNCHANGED <<failed, mem, option, portsTotal, portsOk, listening, listed, master>>
      BY <1>10 DEF AskHandler, SetHandler, SetAuthHandler
    <2>2. FailedStartExact'
      BY <2>1, NotFailed DEF StartInv
    <2> QED
      BY <2>1, <2>2, StepOrder DEF StartInv
  <1>11. CASE Stop
    <2>1. /\ main = "up" /\ UNCHANGED <<failed, mem, option, portsTotal, portsOk, listening, listed, master>>
          /\ \/ master = "off" /\ main' = "down"
             \/ master # "off" /\ main' = "stopping"
      BY <1>11 DEF Stop
    <2>2. FailedStartExact'
      BY <2>1, NotFailed DEF StartInv
    <2> QED
      BY <2>1, <2>2, StepOrder DEF StartInv
  <1>12. CASE Stopped
    <2>1. /\ main = "stopping" /\ main' = "down" /\ mem' = Released(mem) /\ handler' = NoHandler
          /\ UNCHANGED <<failed, option, portsTotal, portsOk, listening, listed, master>>
      BY <1>12, ReleaseDefined DEF Stopped
    <2>2. \A x \in DOMAIN mem : mem'[x] = "freed"
      BY <2>1 DEF StartInv, Released
    <2>3. FailedStartExact'
      BY <2>1, NotFailed DEF StartInv
    <2> QED
      BY <1>d, <2>1, <2>2, <2>3, StepOrder DEF StartInv
  <1>13. ASSUME master \in {"poll", "produce", "signal"}, master' \in {"poll", "produce", "signal"},
                UNCHANGED <<main, failed, mem, option, portsTotal, portsOk, listening, listed, handler>>
         PROVE  StartInv'
    BY <1>13 DEF StartInv, FailedStartExact
  <1>14. CASE accept_new_connection \/ produce_socket \/ ProduceSignal
    BY <1>14, <1>13 DEF accept_new_connection, produce_socket, ProduceSignal
  <1>15. CASE MasterStops
    <2>1. /\ master = "poll" /\ stop_flag = 1 /\ master' = "wake" /\ listening' = 0
          /\ UNCHANGED <<main, failed, mem, option, portsTotal, portsOk, handler>>
      BY <1>15 DEF MasterStops, close_all_listening_sockets
    <2>2. main \in {"stopping", "down"}
      BY <2>1 DEF ThreadsInv
    <2>3. failed = "none"
      BY <2>2 DEF StartInv
    <2>4. FailedStartExact'
      BY <2>1, <2>2, <2>3, NotFailed
    <2> QED
      BY <2>1, <2>2, <2>3, <2>4, StepOrder DEF StartInv
  <1>16. CASE WakeWorker \/ JoinWorker
    <2>1. /\ master \in {"wake", "join"} /\ master' \in {"wake", "join", "ended"}
          /\ UNCHANGED <<main, failed, mem, option, portsTotal, portsOk, listening, listed, handler>>
      BY <1>16 DEF WakeWorker, JoinWorker
    <2>2. main \in {"stopping", "down"}
      BY <2>1 DEF ThreadsInv
    <2>3. failed = "none"
      BY <2>2 DEF StartInv
    <2>4. FailedStartExact'
      BY <2>1, <2>2, <2>3, NotFailed
    <2> QED
      BY <2>1, <2>2, <2>3, <2>4, StepOrder DEF StartInv
  <1>17. ASSUME NEW w \in Workers, Work(w) \/ NoRequest(w) PROVE StartInv'
    <2>1. UNCHANGED <<mainVars, masterVars>>
      BY <1>17, WorkMoves
    <2>2. UNCHANGED handler
      BY <1>17
      DEF Work, Serve, NoRequest, WorkerBegins, GoIdle, event_wait, consume_socket,
          get_request_handler, Authorize, requestHandler, getParam, handler_info_release,
          closeHandler, close_connection
    <2> QED
      BY <2>1, <2>2, <1>u
  <1>18. CASE UNCHANGED vars
    BY <1>18, <1>u DEF vars
  <1> QED
    BY <1>1, <1>2, <1>3, <1>4, <1>5, <1>7, <1>8, <1>9, <1>10, <1>11, <1>12,
       <1>14, <1>15, <1>16, <1>17, <1>18
    DEF Next, Start, Master

-----------------------------------------------------------------------------
(* The registered handler and its users.                                   *)

\* Steps of the application thread that touch no other thread, slot or handler.
Quiet ==
    /\ UNCHANGED <<stop_flag, master, offer, turn, slot, event, worker, client, info, conns,
                   handler, refcount, closed>>
    /\ context => context'

\* The steps of Next that the pool and the registry do not notice, and the others.
LEMMA NextCases ==
    ASSUME [Next]_vars
    PROVE  \/ Quiet
           \/ StartMaster \/ StartWorker \/ SetHandler \/ Stop \/ Stopped
           \/ accept_new_connection \/ Master
           \/ \E w \in Workers : Work(w) \/ NoRequest(w)
  <1> USE DEF mainVars, ports, masterVars, workerVars, registry
  <1>1. ASSUME UNCHANGED <<stop_flag, master, offer, turn, slot, event, worker, client, info,
                           conns, handler, refcount, closed>>, UNCHANGED context
        PROVE  Quiet
    BY <1>1, Zenon DEF Quiet
  <1>2. ASSUME UNCHANGED <<stop_flag, master, offer, turn, slot, event, worker, client, info,
                           conns, handler, refcount, closed>>, context'
        PROVE  Quiet
    BY <1>2, Zenon DEF Quiet
  <1>3. CASE StartStep
    BY <1>3, <1>1 DEF StartStep
  <1>4. CASE PortRefused \/ PortForgotten \/ PortOpened
    BY <1>4, <1>1 DEF PortRefused, PortForgotten, PortOpened, NextPort
  <1>5. CASE PortsSet
    BY <1>5, <1>1 DEF PortsSet
  <1>6. CASE Constructed
    BY <1>6, <1>2 DEF Constructed
  <1>7. CASE StartFails
    BY <1>7, <1>1 DEF StartFails
  <1>8. CASE StartWorkerFails
    <2>1. CASE NotStarted = Workers
      BY <1>8, <2>1, <1>1 DEF StartWorkerFails
    <2>2. CASE NotStarted # Workers
      BY <1>8, <2>2, <1>2 DEF StartWorkerFails
    <2> QED
      BY <2>1, <2>2
  <1>9. CASE AskHandler
    BY <1>9, <1>1 DEF AskHandler
  <1>10. CASE SetAuthHandler
    BY <1>10, <1>1 DEF SetAuthHandler
  <1>11. CASE UNCHANGED vars
    BY <1>11, <1>1 DEF vars
  <1> QED
    BY <1>3, <1>4, <1>5, <1>6, <1>7, <1>8, <1>9, <1>10, <1>11 DEF Next, Start

\* The workers are finitely many, and so are those that use the handler.
LEMMA UsersFinite ==
    ASSUME NEW U, U \subseteq Workers
    PROVE  IsFiniteSet(U) /\ Cardinality(U) \in Nat
  <1>1. IsFiniteSet(Workers)
    BY FS_Interval, WebServerAssumption DEF Workers
  <1> QED
    BY <1>1, FS_Subset, FS_CardinalityType

\* A step of one worker keeps HandlerInv when it counts its use of the handler.
LEMMA UsersMove ==
    ASSUME TypeInv, HandlerInv, NEW w \in Workers,
           \A v \in Workers \ {w} : worker'[v] = worker[v] /\ info'[v] = info[v],
           handler' = handler, refcount' \in Int,
           InUse(w)' => handler = info'[w],
           worker'[w] \in {"getParam", "release"} => info'[w] # NoHandler,
           \/ refcount' >= refcount /\ (InUse(w)' => InUse(w))
           \/ refcount' = refcount + 1
           \/ refcount' = refcount - 1 /\ InUse(w) /\ ~InUse(w)'
    PROVE  HandlerInv'
  <1>t. refcount \in Int /\ refcount >= Cardinality(Users)
    BY DEF TypeInv, HandlerInv
  <1>1. \A v \in Workers \ {w} : InUse(v)' <=> InUse(v)
    BY DEF InUse
  <1>2. HandlerStays'
    BY <1>1 DEF HandlerInv, HandlerStays
  <1>3. \A v \in Workers : worker'[v] \in {"getParam", "release"} => info'[v] # NoHandler
    BY DEF HandlerInv
  <1>4. /\ Users \subseteq Workers /\ Users' \subseteq Workers
        /\ IsFiniteSet(Users) /\ Cardinality(Users) \in Nat /\ Cardinality(Users') \in Nat
        /\ IsFiniteSet(Users')
    <2>1. Users \subseteq Workers /\ Users' \subseteq Workers
      BY DEF Users
    <2> QED
      BY <2>1, UsersFinite
  <1>5. refcount' >= Cardinality(Users')
    <2>1. CASE refcount' >= refcount /\ (InUse(w)' => InUse(w))
      <3>1. Users' \subseteq Users
        BY <1>1, <2>1 DEF Users
      <3>2. Cardinality(Users') <= Cardinality(Users)
        BY <3>1, <1>4, FS_Subset
      <3> QED
        BY <1>t, <1>4, <2>1, <3>2
    <2>2. CASE refcount' = refcount + 1
      <3>1. Users' \subseteq Users \union {w}
        BY <1>1 DEF Users
      <3>2. IsFiniteSet(Users \union {w}) /\ Cardinality(Users \union {w}) <= Cardinality(Users) + 1
        <4>1. CASE w \in Users
          <5>1. Users \union {w} = Users
            BY <4>1
          <5>2. Cardinality(Users) <= Cardinality(Users) + 1
            BY <1>4
          <5> QED
            BY <5>1, <5>2, <1>4, Zenon
        <4>2. CASE w \notin Users
          <5>1. IsFiniteSet(Users \union {w}) /\ Cardinality(Users \union {w}) = Cardinality(Users) + 1
            BY <1>4, <4>2, FS_AddElement
          <5> QED
            BY <5>1, <1>4
        <4> QED
          BY <4>1, <4>2
      <3>3. Cardinality(Users') <= Cardinality(Users \union {w})
        BY <3>1, <3>2, FS_Subset
      <3>4. Cardinality(Users \union {w}) \in Nat
        BY <3>2, FS_CardinalityType
      <3> QED
        BY <1>t, <1>4, <2>2, <3>2, <3>3, <3>4
    <2>3. CASE refcount' = refcount - 1 /\ InUse(w) /\ ~InUse(w)'
      <3>1. w \in Users /\ Users' = Users \ {w}
        BY <1>1, <2>3 DEF Users
      <3>2. Cardinality(Users') = Cardinality(Users) - 1
        BY <3>1, <1>4, FS_RemoveElement
      <3> QED
        BY <1>t, <1>4, <2>3, <3>2
    <2> QED
      BY <2>1, <2>2, <2>3
  <1> QED
    BY <1>2, <1>3, <1>5 DEF HandlerInv

\* Every step of a worker counts its use of the handler.
LEMMA WorkHandler ==
    ASSUME TypeInv, HandlerInv, NEW w \in Workers, Work(w) \/ NoRequest(w)
    PROVE  HandlerInv'
  <1> USE DEF mainVars, ports, masterVars, workerVars, registry, Goto
  <1>t. /\ refcount \in Int /\ worker \in [Workers -> Places] /\ info \in [Workers -> 0..MaxCalls]
        /\ handler \in 0..MaxCalls
    BY DEF TypeInv
  <1>m. ASSUME NEW p, worker' = [worker EXCEPT ![w] = p], p \notin {"getParam", "release"},
               p \in {"authorize", "request"} => worker[w] \in {"authorize", "request"},
               UNCHANGED <<info, handler, refcount>>
        PROVE  HandlerInv'
    <2>1. \A v \in Workers \ {w} : worker'[v] = worker[v] /\ info'[v] = info[v]
      BY <1>t, <1>m
    <2>2. worker'[w] = p
      BY <1>t, <1>m
    <2>3. InUse(w)' => InUse(w)
      BY <1>m, <2>2 DEF InUse
    <2>4. InUse(w)' => handler = info'[w]
      BY <1>m, <2>3 DEF HandlerInv, HandlerStays
    <2>5. refcount' >= refcount /\ refcount' \in Int
      BY <1>t, <1>m
    <2> QED
      BY <1>m, <2>1, <2>2, <2>3, <2>4, <2>5, UsersMove
  <1>1. CASE WorkerBegins(w)
    <2>1. /\ \E p \in {"idle", "failed"} : worker' = [worker EXCEPT ![w] = p]
          /\ UNCHANGED <<info, handler, refcount>>
      BY <1>1 DEF WorkerBegins
    <2> QED
      BY <2>1, <1>m
  <1>2. CASE GoIdle(w)
    <2>1. /\ \E p \in {"wait"} : worker' = [worker EXCEPT ![w] = p]
          /\ UNCHANGED <<info, handler, refcount>>
      BY <1>2 DEF GoIdle
    <2> QED
      BY <2>1, <1>m
  <1>3. CASE event_wait(w)
    <2>1. /\ \E p \in {"take"} : worker' = [worker EXCEPT ![w] = p]
          /\ UNCHANGED <<info, handler, refcount>>
      BY <1>3 DEF event_wait
    <2> QED
      BY <2>1, <1>m
  <1>4. CASE consume_socket(w)
    <2>1. /\ \E p \in {"lookup", "ended"} : worker' = [worker EXCEPT ![w] = p]
          /\ UNCHANGED <<info, handler, refcount>>
      BY <1>4 DEF consume_socket
    <2> QED
      BY <2>1, <1>m
  <1>5. CASE NoRequest(w)
    <2>1. /\ \E p \in {"closing"} : worker' = [worker EXCEPT ![w] = p]
          /\ UNCHANGED <<info, handler, refcount>>
      BY <1>5 DEF NoRequest
    <2> QED
      BY <2>1, <1>m
  <1>6. CASE get_request_handler(w)
    <2>1. /\ worker[w] = "lookup" /\ worker' = [worker EXCEPT ![w] = "authorize"]
          /\ info' = [info EXCEPT ![w] = handler] /\ UNCHANGED handler
          /\ refcount' = IF handler = NoHandler THEN refcount ELSE refcount + 1
      BY <1>6 DEF get_request_handler
    <2>2. /\ \A v \in Workers \ {w} : worker'[v] = worker[v] /\ info'[v] = info[v]
          /\ worker'[w] = "authorize" /\ info'[w] = handler
      BY <1>t, <2>1
    <2>3. handler = NoHandler => ~InUse(w)'
      BY <2>2 DEF InUse
    <2>4. /\ refcount' \in Int
          /\ \/ refcount' >= refcount /\ (InUse(w)' => InUse(w))
             \/ refcount' = refcount + 1
      BY <1>t, <2>1, <2>3
    <2>5. handler' = handler
      BY <2>1
    <2> QED
      BY <2>2, <2>4, <2>5, UsersMove
  <1>7. CASE Authorize(w)
    <2>1. /\ worker[w] = "authorize" /\ UNCHANGED <<info, handler, refcount>>
          /\ \E p \in {"request", "closing"} : worker' = [worker EXCEPT ![w] = p]
      BY <1>7 DEF Authorize
    <2> QED
      BY <2>1, <1>m
  <1>8. CASE requestHandler(w)
    <2>1. worker[w] = "request" /\ UNCHANGED <<info, handler, refcount>>
      BY <1>8 DEF requestHandler
    <2>2. CASE info[w] = NoHandler
      <3>1. \E p \in {"closing"} : worker' = [worker EXCEPT ![w] = p]
        BY <1>8, <2>2 DEF requestHandler
      <3> QED
        BY <2>1, <3>1, <1>m
    <2>3. CASE info[w] # NoHandler
      <3>1. \E p \in {"getParam", "release"} : worker' = [worker EXCEPT ![w] = p]
        BY <1>8, <2>3 DEF requestHandler
      <3>2. /\ \A v \in Workers \ {w} : worker'[v] = worker[v] /\ info'[v] = info[v]
            /\ worker'[w] \in {"getParam", "release"} /\ info'[w] = info[w]
        BY <1>t, <2>1, <3>1
      <3>3. InUse(w) /\ handler = info[w]
        BY <2>1, <2>3 DEF InUse, HandlerInv, HandlerStays
      <3>4. refcount' >= refcount /\ refcount' \in Int /\ handler' = handler
        BY <1>t, <2>1
      <3> QED
        BY <2>3, <3>2, <3>3, <3>4, UsersMove
    <2> QED
      BY <2>2, <2>3
  <1>9. CASE getParam(w)
    <2>1. /\ worker[w] = "getParam" /\ UNCHANGED <<info, handler, refcount>>
          /\ worker' = [worker EXCEPT ![w] = "release"]
      BY <1>9 DEF getParam
    <2>2. /\ \A v \in Workers \ {w} : worker'[v] = worker[v] /\ info'[v] = info[v]
          /\ worker'[w] = "release" /\ info'[w] = info[w]
      BY <1>t, <2>1
    <2>3. info[w] # NoHandler
      BY <2>1 DEF HandlerInv
    <2>4. InUse(w) /\ handler = info[w]
      BY <2>1, <2>3 DEF InUse, HandlerInv, HandlerStays
    <2>5. refcount' >= refcount /\ refcount' \in Int /\ handler' = handler
      BY <1>t, <2>1
    <2> QED
      BY <2>2, <2>3, <2>4, <2>5, UsersMove
  <1>10. CASE handler_info_release(w)
    <2>1. /\ worker[w] = "release" /\ UNCHANGED <<info, handler>> /\ refcount' = refcount - 1
          /\ worker' = [worker EXCEPT ![w] = "closing"]
      BY <1>10 DEF handler_info_release
    <2>2. /\ \A v \in Workers \ {w} : worker'[v] = worker[v] /\ info'[v] = info[v]
          /\ worker'[w] = "closing"
      BY <1>t, <2>1
    <2>3. InUse(w) /\ ~InUse(w)'
      BY <2>1, <2>2 DEF InUse, HandlerInv
    <2>4. refcount' \in Int /\ handler' = handler
      BY <1>t, <2>1
    <2> QED
      BY <2>1, <2>2, <2>3, <2>4, UsersMove
  <1>11. CASE closeHandler(w)
    <2>1. /\ \E p \in {"close"} : worker' = [worker EXCEPT ![w] = p]
          /\ UNCHANGED <<info, handler, refcount>>
      BY <1>11 DEF closeHandler
    <2> QED
      BY <2>1, <1>m
  <1>12. CASE close_connection(w)
    <2>1. /\ worker[w] = "close" /\ UNCHANGED <<handler, refcount>>
          /\ info' = [info EXCEPT ![w] = NoHandler] /\ worker' = [worker EXCEPT ![w] = "idle"]
      BY <1>12 DEF close_connection
    <2>2. /\ \A v \in Workers \ {w} : worker'[v] = worker[v] /\ info'[v] = info[v]
          /\ worker'[w] = "idle"
      BY <1>t, <2>1
    <2>3. ~InUse(w)'
      BY <2>2 DEF InUse
    <2>4. refcount' >= refcount /\ refcount' \in Int /\ handler' = handler
      BY <1>t, <2>1
    <2> QED
      BY <2>2, <2>3, <2>4, UsersMove
  <1> QED
    BY <1>1, <1>2, <1>3, <1>4, <1>5, <1>6, <1>7, <1>8, <1>9, <1>10, <1>11, <1>12
    DEF Work, Serve

\* The first worker that has not been started.
LEMMA StartsOne ==
    ASSUME StartWorker
    PROVE  \E v \in Workers : worker[v] = "off" /\ worker' = [worker EXCEPT ![v] = "starting"]
  <1>1. NotStarted # {} /\ NotStarted \subseteq Nat
    BY WebServerAssumption DEF StartWorker, NotStarted, Workers
  <1>2. PICK v \in NotStarted : \A u \in NotStarted : v <= u
    <2>1. PICK v \in NotStarted : \A u \in NotStarted : <<u, v>> \notin OpToRel(<, Nat)
      BY <1>1, NatLessThanWellFounded, WFMin
    <2>2. \A u \in NotStarted : <<u, v>> \in OpToRel(<, Nat) <=> u < v
      BY <1>1, Zenon DEF OpToRel
    <2>3. \A u \in NotStarted : ~(u < v)
      BY <2>1, <2>2, Zenon
    <2>4. v \in Int /\ \A u \in NotStarted : u \in Int
      BY <1>1
    <2> QED
      BY <2>3, <2>4
  <1>3. worker' = [worker EXCEPT ![CHOOSE w \in NotStarted : \A u \in NotStarted : w <= u] = "starting"]
    BY DEF StartWorker
  <1>4. (CHOOSE w \in NotStarted : \A u \in NotStarted : w <= u) \in NotStarted
    BY <1>2
  <1> QED
    BY <1>3, <1>4 DEF NotStarted

\* Every step keeps the handler of those who use it.
LEMMA HandlerStep ==
    ASSUME TypeInv, ThreadsInv, HandlerInv, [Next]_vars
    PROVE  HandlerInv'
  <1> USE DEF mainVars, ports, masterVars, workerVars, registry
  <1>t. /\ refcount \in Int /\ worker \in [Workers -> Places] /\ handler \in 0..MaxCalls
    BY DEF TypeInv
  <1>u. ASSUME UNCHANGED <<worker, info, handler, refcount>> PROVE HandlerInv'
    BY <1>u DEF HandlerInv, HandlerStays, Users, InUse
  <1>n. ASSUME Users = {}, UNCHANGED <<worker, info, refcount>> PROVE HandlerInv'
    <2>1. \A w \in Workers : ~InUse(w) /\ ~InUse(w)'
      BY <1>n DEF Users, InUse
    <2>2. Users' = {} /\ HandlerStays'
      BY <2>1 DEF Users, HandlerStays
    <2> QED
      BY <1>n, <2>2 DEF HandlerInv
  <1>1. CASE Quiet
    BY <1>1, <1>u DEF Quiet
  <1>2. CASE StartMaster
    BY <1>2, <1>u DEF StartMaster
  <1>3. CASE StartWorker
    <2>1. PICK v \in Workers : worker[v] = "off" /\ worker' = [worker EXCEPT ![v] = "starting"]
      BY <1>3, StartsOne
    <2>2. UNCHANGED <<info, handler, refcount>>
      BY <1>3 DEF StartWorker
    <2>3. /\ \A u \in Workers \ {v} : worker'[u] = worker[u] /\ info'[u] = info[u]
          /\ worker'[v] = "starting"
      BY <1>t, <2>1, <2>2
    <2>4. ~InUse(v)'
      BY <2>3 DEF InUse
    <2>5. refcount' >= refcount /\ refcount' \in Int /\ handler' = handler
      BY <1>t, <2>2
    <2> QED
      BY <2>2, <2>3, <2>4, <2>5, UsersMove
  <1>4. CASE SetHandler
    <2>1. handler = NoHandler \/ refcount = 0
      BY <1>4 DEF SetHandler, handler_info_wait_unused
    <2>2. CASE handler = NoHandler
      <3>1. Users = {}
        BY <2>2 DEF Users, HandlerInv, HandlerStays, InUse
      <3> QED
        BY <1>4, <3>1, <1>n DEF SetHandler
    <2>3. CASE refcount = 0
      <3>1. Users \subseteq Workers
        BY DEF Users
      <3>2. IsFiniteSet(Users) /\ Cardinality(Users) \in Nat
        BY <3>1, UsersFinite
      <3>3. Cardinality(Users) = 0
        BY <2>3, <3>2 DEF HandlerInv
      <3>4. Users = {}
        BY <3>2, <3>3, FS_EmptySet
      <3> QED
        BY <1>4, <3>4, <1>n DEF SetHandler
    <2> QED
      BY <2>1, <2>2, <2>3
  <1>5. CASE Stop
    BY <1>5, <1>u DEF Stop
  <1>6. CASE Stopped
    <2>1. \A w \in Workers : worker[w] \in WorkerEnded
      BY <1>6 DEF Stopped, ThreadsInv
    <2>2. Users = {}
      BY <2>1 DEF Users, InUse, WorkerEnded
    <2> QED
      BY <1>6, <2>2, <1>n DEF Stopped
  <1>7. CASE accept_new_connection
    BY <1>7, <1>u DEF accept_new_connection
  <1>8. CASE Master
    BY <1>8, <1>u DEF Master, produce_socket, ProduceSignal, MasterStops, WakeWorker, JoinWorker
  <1>9. ASSUME NEW w \in Workers, Work(w) \/ NoRequest(w) PROVE HandlerInv'
    BY <1>9, WorkHandler
  <1> QED
    BY <1>1, <1>2, <1>3, <1>4, <1>5, <1>6, <1>7, <1>8, <1>9, NextCases

\* A worker goes on serving its connection until it closes it.
LEMMA ServesOn ==
    ASSUME NEW w \in Workers,
           \/ get_request_handler(w) \/ Authorize(w) \/ requestHandler(w) \/ getParam(w)
           \/ handler_info_release(w) \/ closeHandler(w) \/ NoRequest(w)
    PROVE  /\ worker[w] \in Serving
           /\ \E p \in Serving : worker' = [worker EXCEPT ![w] = p]
  <1> USE DEF Goto, Serving
  <1>1. CASE get_request_handler(w)
    BY <1>1 DEF get_request_handler
  <1>2. CASE Authorize(w)
    BY <1>2 DEF Authorize
  <1>3. CASE requestHandler(w)
    BY <1>3 DEF requestHandler
  <1>4. CASE getParam(w)
    BY <1>4 DEF getParam
  <1>5. CASE handler_info_release(w)
    BY <1>5 DEF handler_info_release
  <1>6. CASE closeHandler(w)
    BY <1>6 DEF closeHandler
  <1>7. CASE NoRequest(w)
    BY <1>7 DEF NoRequest
  <1> QED
    BY <1>1, <1>2, <1>3, <1>4, <1>5, <1>6, <1>7

\* After that it becomes idle; it moves no other thread.
LEMMA ServeMoves ==
    ASSUME NEW w \in Workers, Serve(w) \/ NoRequest(w)
    PROVE  /\ worker[w] \in Serving /\ UNCHANGED <<stop_flag, master, offer, turn, slot, event>>
           /\ \E p \in Serving \union {"idle"} : worker' = [worker EXCEPT ![w] = p]
  <1>1. UNCHANGED <<stop_flag, master, offer, turn, slot, event>>
    BY DEF masterVars, Serve, get_request_handler, Authorize, requestHandler, getParam,
           handler_info_release, closeHandler, close_connection, NoRequest
  <1>2. CASE close_connection(w)
    BY <1>1, <1>2 DEF close_connection, Goto, Serving
  <1> QED
    BY <1>1, <1>2, ServesOn DEF Serve

-----------------------------------------------------------------------------
(* Signals.                                                                *)

\* What the invariant says of a worker, without the state.
LEMMA AsleepTypes ==
    ASSUME TypeInv, NEW w \in Workers
    PROVE  /\ event[w] \in Nat /\ slot[w].in_use \in 0..2 /\ stop_flag \in 0..2
           /\ turn \in Nat /\ w \in Nat
           /\ slot[w] = [sock |-> slot[w].sock, in_use |-> slot[w].in_use]
           /\ slot[w].sock \in Sockets \union {NoSocket}
  BY WebServerAssumption DEF TypeInv, Workers

\* A step of one worker, whom the master is not about to signal.
LEMMA SignalMove ==
    ASSUME SignalInv, NEW w \in Workers,
           \A v \in Workers \ {w} : /\ worker'[v] = worker[v] /\ slot'[v] = slot[v]
                                    /\ event'[v] = event[v],
           UNCHANGED <<master, turn, stop_flag>>,
           TypeInv, master = "signal" => turn # w, Asleep(w)'
    PROVE  SignalInv'
  <1>1. \A v \in Workers \ {w} : Asleep(v)'
    BY DEF SignalInv, Asleep, Unwoken
  <1>2. master = "signal" => worker'[turn] = "wait" /\ slot'[turn].in_use = 1
    BY DEF SignalInv, TypeInv
  <1> QED
    BY <1>1, <1>2 DEF SignalInv

\* A worker that neither sleeps nor wakes up moves.
LEMMA SignalAwake ==
    ASSUME TypeInv, SignalInv, NEW w \in Workers, NEW p,
           worker[w] \notin {"wait", "take", "ended"}, p \notin {"wait", "take"},
           worker' = [worker EXCEPT ![w] = p],
           UNCHANGED <<master, turn, stop_flag, slot, event>>
    PROVE  SignalInv'
  <1>1. worker \in [Workers -> Places]
    BY DEF TypeInv
  <1>2. worker'[w] = p /\ \A v \in Workers \ {w} : worker'[v] = worker[v]
    BY <1>1
  <1>3. master = "signal" => turn # w
    BY DEF SignalInv
  <1>4. Asleep(w)
    BY DEF SignalInv
  <1>5. Asleep(w)'
    BY <1>2, <1>4, AsleepTypes DEF Asleep, Unwoken
  <1> QED
    BY <1>2, <1>3, <1>5, SignalMove

\* Every step of a worker keeps sleepers and signals in line.
LEMMA WorkSignal ==
    ASSUME TypeInv, ThreadsInv, SignalInv, NEW w \in Workers, Work(w) \/ NoRequest(w)
    PROVE  SignalInv'
  <1> USE DEF mainVars, ports, masterVars, workerVars, registry, Goto
  <1>a. Asleep(w)
    BY DEF SignalInv
  <1>t. /\ worker \in [Workers -> Places] /\ event \in [Workers -> Nat]
        /\ slot \in [Workers -> [sock : Sockets \union {NoSocket}, in_use : 0..2]]
    BY DEF TypeInv
  <1>1. CASE GoIdle(w)
    <2>1. /\ worker[w] = "idle" /\ worker' = [worker EXCEPT ![w] = "wait"]
          /\ slot' = [slot EXCEPT ![w].in_use = 2]
          /\ UNCHANGED <<master, turn, stop_flag, event>>
      BY <1>1 DEF GoIdle
    <2>2. worker'[w] = "wait" /\ \A v \in Workers \ {w} : worker'[v] = worker[v]
      BY <1>t, <2>1
    <2>3. slot'[w].in_use = 2 /\ \A v \in Workers \ {w} : slot'[v] = slot[v]
      BY <1>t, <2>1
    <2>4. master = "signal" => turn # w
      BY <2>1 DEF SignalInv
    <2>5. Asleep(w)'
      BY <1>a, <2>1, <2>2, <2>3, AsleepTypes DEF Asleep, Unwoken
    <2> QED
      BY <2>1, <2>2, <2>3, <2>4, <2>5, SignalMove
  <1>2. CASE event_wait(w)
    <2>1. /\ worker[w] = "wait" /\ event[w] > 0 /\ worker' = [worker EXCEPT ![w] = "take"]
          /\ event' = [event EXCEPT ![w] = 0]
          /\ UNCHANGED <<master, turn, stop_flag, slot>>
      BY <1>2 DEF event_wait
    <2>2. worker'[w] = "take" /\ \A v \in Workers \ {w} : worker'[v] = worker[v]
      BY <1>t, <2>1
    <2>3. event'[w] = 0 /\ \A v \in Workers \ {w} : event'[v] = event[v]
      BY <1>t, <2>1
    <2>4. Unwoken(w) => event[w] = 1 /\ slot[w].in_use = 1 /\ ~(master = "signal" /\ turn = w)
      <3>1. event[w] \in Nat
        BY AsleepTypes
      <3>2. Unwoken(w) => event[w] <= 1
        BY <1>a DEF Asleep
      <3>3. Unwoken(w) => event[w] = 1
        BY <2>1, <3>1, <3>2
      <3> QED
        BY <1>a, <3>3 DEF Asleep
    <2>5. ~Unwoken(w) => stop_flag # 0 /\ master # "signal"
      BY DEF Unwoken, ThreadsInv
    <2>6. Asleep(w)'
      BY <2>1, <2>2, <2>3, <2>4, <2>5, AsleepTypes DEF Asleep
    <2> QED
      BY <2>1, <2>2, <2>3, <2>4, <2>5, <2>6, SignalMove
  <1>3. CASE consume_socket(w)
    <2>1. worker[w] = "take" /\ UNCHANGED <<master, turn, stop_flag, slot, event>>
      BY <1>3 DEF consume_socket
    <2>2. \/ worker' = [worker EXCEPT ![w] = "lookup"] /\ slot[w].in_use = 1
          \/ worker' = [worker EXCEPT ![w] = "ended"] /\ ~(stop_flag = 0 /\ slot[w].in_use = 1)
      BY <1>3 DEF consume_socket
    <2>3. /\ \A v \in Workers \ {w} : worker'[v] = worker[v]
          /\ \/ worker'[w] = "lookup" /\ slot[w].in_use = 1
             \/ worker'[w] = "ended" /\ ~(stop_flag = 0 /\ slot[w].in_use = 1)
      BY <1>t, <2>2
    <2>4. master = "signal" => turn # w
      BY <2>1 DEF SignalInv
    <2>5. Asleep(w)'
      BY <1>a, <2>1, <2>3, AsleepTypes DEF Asleep, Unwoken
    <2> QED
      BY <2>1, <2>3, <2>4, <2>5, SignalMove
  <1>4. CASE WorkerBegins(w)
    <2>1. /\ worker[w] = "starting" /\ UNCHANGED <<master, turn, stop_flag, slot, event>>
          /\ \E p \in {"idle", "failed"} : worker' = [worker EXCEPT ![w] = p]
      BY <1>4 DEF WorkerBegins
    <2> QED
      BY <2>1, SignalAwake
  <1>5. CASE Serve(w) \/ NoRequest(w)
    <2>1. /\ worker[w] \in Serving /\ UNCHANGED <<master, turn, stop_flag, slot, event>>
          /\ \E p \in Serving \union {"idle"} : worker' = [worker EXCEPT ![w] = p]
      BY <1>5, ServeMoves
    <2>2. \A p \in Serving \union {"idle"} : p \notin {"wait", "take", "ended"}
      BY DEF Serving
    <2> QED
      BY <2>1, <2>2, SignalAwake
  <1> QED
    BY <1>1, <1>2, <1>3, <1>4, <1>5 DEF Work

\* No worker sleeps through its signal or wakes for nothing, whatever the step.
LEMMA SignalStep ==
    ASSUME TypeInv, ThreadsInv, SignalInv, [Next]_vars
    PROVE  SignalInv'
  <1> USE DEF mainVars, ports, masterVars, workerVars, registry
  <1>u. ASSUME UNCHANGED <<stop_flag, master, turn, slot, event, worker>> PROVE SignalInv'
    BY <1>u DEF SignalInv, Asleep, Unwoken
  <1>v. ASSUME UNCHANGED <<stop_flag, slot, event, worker>>,
               master \in {"off", "poll", "produce"}, master' \in {"off", "poll", "produce"}
        PROVE SignalInv'
    BY <1>v DEF SignalInv, Asleep, Unwoken
  <1>t. /\ event \in [Workers -> Nat]
        /\ slot \in [Workers -> [sock : Sockets \union {NoSocket}, in_use : 0..2]]
    BY DEF TypeInv
  <1>1. CASE Quiet
    BY <1>1, <1>u DEF Quiet
  <1>2. CASE StartMaster
    <2>1. main = "master" /\ master' \in {"poll", "off"} /\ UNCHANGED <<stop_flag, slot, event, worker>>
      BY <1>2 DEF StartMaster
    <2>2. master = "off"
      BY <2>1 DEF ThreadsInv
    <2> QED
      BY <2>1, <2>2, <1>v
  <1>3. CASE StartWorker
    <2>1. \E v \in Workers : worker[v] = "off" /\ worker' = [worker EXCEPT ![v] = "starting"]
      BY <1>3, StartsOne
    <2>2. PICK v \in Workers, p \in {"starting"} : worker[v] = "off" /\ worker' = [worker EXCEPT ![v] = p]
      BY <2>1
    <2>3. UNCHANGED <<master, turn, stop_flag, slot, event>>
      BY <1>3 DEF StartWorker
    <2> QED
      BY <2>2, <2>3, SignalAwake
  <1>4. CASE SetHandler \/ Stopped
    BY <1>4, <1>u DEF SetHandler, Stopped
  <1>5. CASE Stop
    <2>1. UNCHANGED <<master, turn, slot, event, worker>> /\ stop_flag' \in {stop_flag, 1}
      BY <1>5 DEF Stop
    <2> QED
      BY <2>1 DEF SignalInv, Asleep, Unwoken
  <1>6. CASE accept_new_connection
    <2>1. /\ master = "poll" /\ master' \in {"poll", "produce"}
          /\ UNCHANGED <<stop_flag, slot, event, worker>>
      BY <1>6 DEF accept_new_connection
    <2> QED
      BY <2>1, <1>v
  <1>7. CASE produce_socket
    <2>1. master = "produce" /\ UNCHANGED <<stop_flag, event, worker>>
      BY <1>7 DEF produce_socket
    <2>2. CASE stop_flag # 0
      BY <1>7, <2>2, <2>1, <1>v DEF produce_socket
    <2>3. CASE stop_flag = 0
      <3>1. PICK w \in Workers : /\ slot[w].in_use = 2
                                 /\ slot' = [slot EXCEPT ![w] = [sock |-> offer, in_use |-> 1]]
                                 /\ master' = "signal" /\ turn' = w
        BY <1>7, <2>3 DEF produce_socket
      <3>2. slot'[w].in_use = 1 /\ \A v \in Workers \ {w} : slot'[v] = slot[v]
        BY <1>t, <3>1
      <3>3. Asleep(w) /\ Unwoken(w)
        BY <2>1 DEF SignalInv, Unwoken
      <3>4. worker[w] = "wait" /\ event[w] = 0
        <4>1. event[w] \in Nat
          BY AsleepTypes
        <4>2. event[w] <= 1 /\ event[w] # 1
          BY <3>1, <3>3 DEF Asleep
        <4>3. worker[w] = "wait"
          BY <2>3, <3>1, <3>3 DEF Asleep
        <4> QED
          BY <4>1, <4>2, <4>3
      <3>5. Asleep(w)'
        BY <2>1, <3>1, <3>2, <3>4 DEF Asleep
      <3>6. \A v \in Workers \ {w} : Asleep(v)'
        BY <2>1, <3>1, <3>2 DEF SignalInv, Asleep, Unwoken
      <3>7. worker'[turn'] = "wait" /\ slot'[turn'].in_use = 1
        BY <2>1, <3>1, <3>2, <3>4
      <3> QED
        BY <3>5, <3>6, <3>7 DEF SignalInv
    <2> QED
      BY <2>2, <2>3
  <1>8. CASE ProduceSignal
    <2>1. /\ master = "signal" /\ event' = [event EXCEPT ![turn] = @ + 1] /\ master' = "poll"
          /\ UNCHANGED <<stop_flag, slot, worker>>
      BY <1>8 DEF ProduceSignal, event_signal
    <2>2. turn \in Workers /\ Asleep(turn) /\ worker[turn] = "wait" /\ slot[turn].in_use = 1
      BY <2>1 DEF TypeInv, SignalInv
    <2>3. event'[turn] = event[turn] + 1 /\ \A v \in Workers \ {turn} : event'[v] = event[v]
      BY <1>t, <2>1, <2>2
    <2>4. event[turn] \in Nat /\ event[turn] <= 1 /\ event[turn] # 1
      BY <1>t, <2>1, <2>2 DEF Asleep, Unwoken
    <2>5. event'[turn] = 1
      BY <2>3, <2>4
    <2>6. \A v \in Workers : v = turn => Asleep(v)'
      BY <2>1, <2>2, <2>5 DEF Asleep
    <2>7. \A v \in Workers \ {turn} : Asleep(v)'
      BY <2>1, <2>3 DEF SignalInv, Asleep, Unwoken
    <2> QED
      BY <2>1, <2>6, <2>7 DEF SignalInv
  <1>9. CASE MasterStops
    <2>1. /\ master = "poll" /\ master' = "wake" /\ turn' = 1
          /\ UNCHANGED <<stop_flag, slot, event, worker>>
      BY <1>9 DEF MasterStops
    <2> QED
      BY <2>1 DEF SignalInv, Asleep, Unwoken
  <1>10. CASE WakeWorker
    <2>1. /\ master = "wake" /\ event' = [event EXCEPT ![turn] = @ + 1]
          /\ \/ turn = WorkerCount /\ master' = "join"
             \/ turn' = turn + 1 /\ master' = "wake"
          /\ UNCHANGED <<stop_flag, slot, worker>>
      BY <1>10 DEF WakeWorker, event_signal
    <2>2. turn \in Workers /\ turn \in Nat /\ Asleep(turn)
      BY <2>1, AsleepTypes DEF TypeInv, SignalInv
    <2>3. event'[turn] = event[turn] + 1 /\ \A v \in Workers \ {turn} : event'[v] = event[v]
      BY <1>t, <2>1, <2>2
    <2>4. event[turn] \in Nat /\ event[turn] <= 1
      BY <1>t, <2>1, <2>2 DEF Asleep, Unwoken
    <2>5. event'[turn] <= 2 /\ event'[turn] > 0
      BY <2>3, <2>4
    <2>6. \A v \in Workers : (Unwoken(v)' => Unwoken(v) /\ v # turn)
      <3>1. \A v \in Workers : v \in Nat /\ v <= WorkerCount
        BY WebServerAssumption DEF Workers
      <3> QED
        BY <2>1, <2>2, <3>1 DEF Unwoken
    <2>7. \A v \in Workers : v = turn => Asleep(v)'
      BY <2>1, <2>2, <2>5, <2>6 DEF Asleep
    <2>8. \A v \in Workers \ {turn} : Asleep(v)'
      BY <2>1, <2>3, <2>6 DEF SignalInv, Asleep
    <2> QED
      BY <2>1, <2>7, <2>8 DEF SignalInv
  <1>11. CASE JoinWorker
    <2>1. /\ master = "join" /\ master' \in {"join", "ended"}
          /\ stop_flag' \in {stop_flag, 2}
          /\ UNCHANGED <<slot, event, worker>>
      BY <1>11 DEF JoinWorker
    <2> QED
      BY <2>1 DEF SignalInv, Asleep, Unwoken
  <1>12. ASSUME NEW w \in Workers, Work(w) \/ NoRequest(w) PROVE SignalInv'
    BY <1>12, WorkSignal
  <1> QED
    BY <1>1, <1>2, <1>3, <1>4, <1>5, <1>6, <1>7, <1>8, <1>9, <1>10, <1>11, <1>12, NextCases
    DEF Master

-----------------------------------------------------------------------------
(* The owner of a connection.  First the five things that happen to one.   *)

\* The master accepts a connection and offers it.
LEMMA OwnedAccept ==
    ASSUME NEW c, NEW H, Owned(NoSocket, c, H), NEW s, s \notin DOMAIN c, s # NoSocket, NEW d,
           DOMAIN d = DOMAIN c \union {s}, d[s] = 0, \A t \in DOMAIN c : d[t] = c[t],
           NoSocket \notin DOMAIN c
    PROVE  Owned(s, d, H)
  BY DEF Owned

\* The master accepts a connection and closes it at once.
LEMMA OwnedRefuse ==
    ASSUME NEW o, NEW c, NEW H, Owned(o, c, H), NEW s, s \notin DOMAIN c, NEW d,
           DOMAIN d = DOMAIN c \union {s}, d[s] = 1, \A t \in DOMAIN c : d[t] = c[t]
    PROVE  Owned(o, d, H)
  BY DEF Owned

\* The master closes what it offers.
LEMMA OwnedWithdraw ==
    ASSUME NEW o, NEW c, NEW H, Owned(o, c, H), o # NoSocket, NEW d,
           DOMAIN d = DOMAIN c, d[o] = c[o] + 1, \A t \in DOMAIN c \ {o} : d[t] = c[t],
           NoSocket \notin DOMAIN c
    PROVE  Owned(NoSocket, d, H)
  BY DEF Owned

\* The master gives the connection to a worker that has none.
LEMMA OwnedGive ==
    ASSUME NEW o, NEW c, NEW H, Owned(o, c, H), o # NoSocket, NEW w \in Workers,
           H[w] = NoSocket, NEW G, G[w] = o, \A v \in Workers \ {w} : G[v] = H[v],
           NoSocket \notin DOMAIN c
    PROVE  Owned(NoSocket, c, G)
  <1>1. \A v \in Workers : G[v] # NoSocket => G[v] \in DOMAIN c /\ c[G[v]] = 0
    BY DEF Owned
  <1>2. \A u, v \in Workers : u # v /\ G[u] = G[v] => G[u] = NoSocket
    BY DEF Owned
  <1>3. \A s \in DOMAIN c : c[s] \in {0, 1} /\ (c[s] = 0 => \E v \in Workers : G[v] = s)
    <2> SUFFICES ASSUME NEW s \in DOMAIN c
                 PROVE  c[s] \in {0, 1} /\ (c[s] = 0 => \E v \in Workers : G[v] = s)
      OBVIOUS
    <2>1. c[s] \in {0, 1} /\ (c[s] = 0 => o = s \/ \E v \in Workers : H[v] = s)
      BY DEF Owned
    <2>2. \A v \in Workers : H[v] = s => v # w
      OBVIOUS
    <2> QED
      BY <2>1, <2>2
  <1> QED
    BY <1>1, <1>2, <1>3 DEF Owned

\* A worker closes what it holds.
LEMMA OwnedClose ==
    ASSUME NEW o, NEW c, NEW H, Owned(o, c, H), NEW w \in Workers, H[w] # NoSocket, NEW d,
           DOMAIN d = DOMAIN c, d[H[w]] = c[H[w]] + 1, \A t \in DOMAIN c \ {H[w]} : d[t] = c[t],
           NEW G, G[w] = NoSocket, \A v \in Workers \ {w} : G[v] = H[v]
    PROVE  Owned(o, d, G)
  <1>1. H[w] \in DOMAIN c /\ c[H[w]] = 0 /\ H[w] # o /\ d[H[w]] = 1
    BY DEF Owned
  <1>2. o # NoSocket => o \in DOMAIN d /\ d[o] = 0
    BY <1>1 DEF Owned
  <1>3. \A v \in Workers : G[v] # NoSocket => G[v] \in DOMAIN d /\ d[G[v]] = 0 /\ G[v] # o
    BY <1>1 DEF Owned
  <1>4. \A u, v \in Workers : u # v /\ G[u] = G[v] => G[u] = NoSocket
    BY DEF Owned
  <1>5. \A s \in DOMAIN d : d[s] \in {0, 1} /\ (d[s] = 0 => o = s \/ \E v \in Workers : G[v] = s)
    <2> SUFFICES ASSUME NEW s \in DOMAIN d
                 PROVE  d[s] \in {0, 1} /\ (d[s] = 0 => o = s \/ \E v \in Workers : G[v] = s)
      OBVIOUS
    <2>1. c[s] \in {0, 1} /\ (c[s] = 0 => o = s \/ \E v \in Workers : H[v] = s)
      BY DEF Owned
    <2>2. CASE s = H[w]
      BY <1>1, <2>2
    <2>3. CASE s # H[w]
      <3>1. d[s] = c[s] /\ \A v \in Workers : H[v] = s => G[v] = s
        BY <2>3
      <3> QED
        BY <2>1, <3>1
    <2> QED
      BY <2>2, <2>3
  <1> QED
    BY <1>2, <1>3, <1>4, <1>5 DEF Owned

\* Closing a socket counts for this one only.
LEMMA CloseOne ==
    ASSUME NEW s, s \in Accepted, Close(s)
    PROVE  /\ DOMAIN closed' = DOMAIN closed /\ closed'[s] = closed[s] + 1
           /\ \A t \in DOMAIN closed \ {s} : closed'[t] = closed[t]
  BY DEF Close, Accepted

\* The sockets the workers hold, one by one.
LEMMA HoldsEach ==
    /\ \A w \in Workers : Holds[w] = IF Given(w) THEN slot[w].sock ELSE client[w]
    /\ DOMAIN Holds = Workers
  BY DEF Holds

\* A step of the abstract pool, or one it does not see.
Pooled == [P!Next]_(P!vars)

\* Closing for the first time is closing in the pool.
LEMMA ClosePooled ==
    ASSUME NEW s, s \in Accepted, closed[s] = 0, Close(s)
    PROVE  P!Closes(s)
  BY DEF Close, Accepted, P!Closes, P!Accepted

\* A step of a worker that keeps the socket it holds, or holds none before and after.
LEMMA OwnerKeeps ==
    ASSUME TypeInv, OwnerInv, NEW w \in Workers,
           \A v \in Workers \ {w} : /\ worker'[v] = worker[v] /\ slot'[v] = slot[v]
                                    /\ client'[v] = client[v],
           UNCHANGED <<master, offer, closed>>,
           (IF Given(w)' THEN slot'[w].sock ELSE client'[w]) = Holds[w],
           worker'[w] \notin Serving => client'[w] = NoSocket,
           worker'[w] \in Serving \/ Given(w)' => worker[w] \in Serving \/ Given(w)
    PROVE  OwnerInv' /\ Pooled
  <1>1. \A v \in Workers \ {w} : Given(v)' <=> Given(v)
    BY DEF Given
  <1>2. \A v \in Workers : Holds'[v] = Holds[v]
    BY <1>1 DEF Holds
  <1>3. Holds' = Holds
    BY <1>2 DEF Holds
  <1>4. Owned(offer', closed', Holds')
    BY <1>3 DEF OwnerInv
  <1>5. \A v \in Workers : worker'[v] \notin Serving => client'[v] = NoSocket
    BY DEF OwnerInv
  <1>6. \A v \in Workers : worker'[v] \in Serving \/ Given(v)' => Holds'[v] # NoSocket
    BY <1>1, <1>2 DEF OwnerInv
  <1>7. /\ offer' # NoSocket <=> master' = "produce"
        /\ master' = "off" => Accepted' = {}
    BY DEF OwnerInv, Accepted
  <1>8. Pooled
    BY <1>3 DEF Pooled, P!vars
  <1> QED
    BY <1>4, <1>5, <1>6, <1>7, <1>8 DEF OwnerInv

\* A worker that closes the connection it holds.
LEMMA OwnerCloses ==
    ASSUME TypeInv, OwnerInv, NEW w \in Workers,
           \A v \in Workers \ {w} : /\ worker'[v] = worker[v] /\ slot'[v] = slot[v]
                                    /\ client'[v] = client[v],
           UNCHANGED <<master, offer>>, Close(Holds[w]),
           worker[w] \in Serving \/ Given(w),
           client'[w] = NoSocket, worker'[w] \notin Serving, ~Given(w)'
    PROVE  OwnerInv' /\ Pooled
  <1>1. \A v \in Workers \ {w} : Given(v)' <=> Given(v)
    BY DEF Given
  <1>2. Holds'[w] = NoSocket /\ \A v \in Workers \ {w} : Holds'[v] = Holds[v]
    BY <1>1 DEF Holds
  <1>3. Holds[w] # NoSocket /\ Owned(offer, closed, Holds)
    BY DEF OwnerInv
  <1>4. Holds[w] \in Accepted
    BY <1>3 DEF Owned, Accepted
  <1>5. /\ DOMAIN closed' = DOMAIN closed /\ closed'[Holds[w]] = closed[Holds[w]] + 1
        /\ \A t \in DOMAIN closed \ {Holds[w]} : closed'[t] = closed[t]
    BY <1>4, CloseOne
  <1>6. Owned(offer, closed', Holds')
    BY <1>2, <1>3, <1>5, OwnedClose
  <1>7. \A v \in Workers : worker'[v] \notin Serving => client'[v] = NoSocket
    BY DEF OwnerInv
  <1>8. \A v \in Workers : worker'[v] \in Serving \/ Given(v)' => Holds'[v] # NoSocket
    BY <1>1, <1>2 DEF OwnerInv
  <1>9. /\ offer' # NoSocket <=> master' = "produce"
        /\ master' = "off" => Accepted' = {}
    BY <1>5 DEF OwnerInv, Accepted
  <1>10. Holds' = [Holds EXCEPT ![w] = NoSocket]
    BY <1>2, HoldsEach DEF Holds
  <1>11. P!Closes(Holds[w])
    BY <1>3, <1>4, ClosePooled DEF Owned
  <1>12. Pooled
    BY <1>10, <1>11 DEF Pooled, P!Next, P!Finish
  <1> QED
    BY <1>6, <1>7, <1>8, <1>9, <1>12 DEF OwnerInv

\* A worker that holds nothing in its slot before and after a step, and keeps its client.
LEMMA OwnerMove ==
    ASSUME TypeInv, OwnerInv, NEW w \in Workers, NEW p, worker' = [worker EXCEPT ![w] = p],
           \A v \in Workers \ {w} : slot'[v] = slot[v],
           ~Given(w), ~Given(w)', p \in Serving <=> worker[w] \in Serving,
           UNCHANGED <<master, offer, closed, client>>
    PROVE  OwnerInv' /\ Pooled
  <1>1. worker'[w] = p /\ \A v \in Workers \ {w} : worker'[v] = worker[v]
    BY DEF TypeInv
  <1>2. (IF Given(w)' THEN slot'[w].sock ELSE client'[w]) = Holds[w]
    BY HoldsEach
  <1>3. worker'[w] \notin Serving => client'[w] = NoSocket
    BY <1>1 DEF OwnerInv
  <1> QED
    BY <1>1, <1>2, <1>3, OwnerKeeps

\* Every step of a worker keeps one owner for every connection.
LEMMA WorkOwner ==
    ASSUME TypeInv, OwnerInv, NEW w \in Workers, Work(w) \/ NoRequest(w)
    PROVE  OwnerInv' /\ Pooled
  <1> USE DEF mainVars, ports, masterVars, workerVars, registry, Goto
  <1>t. /\ worker \in [Workers -> Places] /\ client \in [Workers -> Sockets \union {NoSocket}]
        /\ slot \in [Workers -> [sock : Sockets \union {NoSocket}, in_use : 0..2]]
    BY DEF TypeInv
  <1>g. \A x \in Serving : x \notin {"wait", "take", "idle", "failed", "starting", "ended"}
    BY DEF Serving
  <1>1. CASE WorkerBegins(w)
    <2>1. PICK p \in {"idle", "failed"} : worker' = [worker EXCEPT ![w] = p]
      BY <1>1 DEF WorkerBegins
    <2>2. worker[w] = "starting" /\ UNCHANGED <<master, offer, closed, client, slot>>
      BY <1>1 DEF WorkerBegins
    <2>3. worker'[w] = p
      BY <1>t, <2>1
    <2>4. ~Given(w) /\ ~Given(w)' /\ p \notin Serving /\ worker[w] \notin Serving
      BY <1>g, <2>2, <2>3 DEF Given
    <2> QED
      BY <2>1, <2>2, <2>4, OwnerMove
  <1>2. CASE GoIdle(w)
    <2>1. PICK p \in {"wait"} : worker' = [worker EXCEPT ![w] = p]
      BY <1>2 DEF GoIdle
    <2>2. /\ worker[w] = "idle" /\ UNCHANGED <<master, offer, closed, client>>
          /\ slot' = [slot EXCEPT ![w].in_use = 2]
      BY <1>2 DEF GoIdle
    <2>3. slot'[w].in_use = 2 /\ \A v \in Workers \ {w} : slot'[v] = slot[v]
      BY <1>t, <2>2
    <2>4. ~Given(w) /\ ~Given(w)' /\ p \notin Serving /\ worker[w] \notin Serving
      BY <1>g, <2>2, <2>3 DEF Given
    <2> QED
      BY <2>1, <2>2, <2>3, <2>4, OwnerMove
  <1>3. CASE event_wait(w)
    <2>1. /\ worker[w] = "wait" /\ worker' = [worker EXCEPT ![w] = "take"]
          /\ UNCHANGED <<master, offer, closed, client, slot>>
      BY <1>3 DEF event_wait
    <2>2. worker'[w] = "take" /\ \A v \in Workers \ {w} : worker'[v] = worker[v]
      BY <1>t, <2>1
    <2>3. /\ Given(w)' <=> Given(w)
          /\ worker[w] \notin Serving /\ worker'[w] \notin Serving
      BY <1>g, <2>1, <2>2 DEF Given
    <2>4. (IF Given(w)' THEN slot'[w].sock ELSE client'[w]) = Holds[w]
      BY <2>1, <2>3, HoldsEach
    <2>5. client'[w] = NoSocket
      BY <2>1, <2>3 DEF OwnerInv
    <2> QED
      BY <2>1, <2>2, <2>3, <2>4, <2>5, OwnerKeeps
  <1>4. CASE consume_socket(w)
    <2>1. worker[w] = "take" /\ UNCHANGED <<master, offer, slot>>
      BY <1>4 DEF consume_socket
    <2>2. client[w] = NoSocket /\ (Given(w) <=> slot[w].in_use = 1)
      BY <1>g, <2>1 DEF OwnerInv, Given
    <2>3. CASE stop_flag = 0 /\ slot[w].in_use = 1
      <3>1. /\ client' = [client EXCEPT ![w] = slot[w].sock]
            /\ worker' = [worker EXCEPT ![w] = "lookup"] /\ UNCHANGED closed
        BY <1>4, <2>3 DEF consume_socket
      <3>2. /\ client'[w] = slot[w].sock /\ worker'[w] = "lookup"
            /\ \A v \in Workers \ {w} : worker'[v] = worker[v] /\ client'[v] = client[v]
        BY <1>t, <3>1
      <3>3. ~Given(w)' /\ worker'[w] \in Serving
        BY <3>2 DEF Given, Serving
      <3>4. (IF Given(w)' THEN slot'[w].sock ELSE client'[w]) = Holds[w]
        BY <2>2, <2>3, <3>2, <3>3, HoldsEach
      <3> QED
        BY <2>1, <2>2, <2>3, <3>1, <3>2, <3>3, <3>4, OwnerKeeps
    <2>4. CASE ~(stop_flag = 0 /\ slot[w].in_use = 1)
      <3>1. /\ worker' = [worker EXCEPT ![w] = "ended"] /\ UNCHANGED client
            /\ IF slot[w].in_use = 1 THEN Close(slot[w].sock) ELSE UNCHANGED closed
        BY <1>4, <2>4 DEF consume_socket
      <3>2. worker'[w] = "ended" /\ \A v \in Workers \ {w} : worker'[v] = worker[v]
        BY <1>t, <3>1
      <3>3. ~Given(w)' /\ worker'[w] \notin Serving
        BY <1>g, <3>2 DEF Given
      <3>4. CASE slot[w].in_use = 1
        <4>1. Given(w) /\ Holds[w] = slot[w].sock
          BY <2>2, <3>4, HoldsEach
        <4>2. Close(Holds[w])
          BY <3>1, <3>4, <4>1
        <4> QED
          BY <2>1, <2>2, <3>1, <3>2, <3>3, <4>1, <4>2, OwnerCloses
      <3>5. CASE slot[w].in_use # 1
        <4>1. ~Given(w) /\ Holds[w] = client[w]
          BY <2>2, <3>5, HoldsEach
        <4>2. (IF Given(w)' THEN slot'[w].sock ELSE client'[w]) = Holds[w]
          BY <3>1, <3>3, <4>1
        <4>3. UNCHANGED closed
          BY <3>1, <3>5
        <4> QED
          BY <2>1, <2>2, <3>1, <3>2, <3>3, <4>2, <4>3, OwnerKeeps
      <3> QED
        BY <3>4, <3>5
    <2> QED
      BY <2>3, <2>4
  <1>5. CASE close_connection(w)
    <2>1. /\ worker[w] = "close" /\ Close(client[w])
          /\ client' = [client EXCEPT ![w] = NoSocket]
          /\ worker' = [worker EXCEPT ![w] = "idle"]
          /\ UNCHANGED <<master, offer, slot>>
      BY <1>5 DEF close_connection
    <2>2. /\ client'[w] = NoSocket /\ worker'[w] = "idle"
          /\ \A v \in Workers \ {w} : worker'[v] = worker[v] /\ client'[v] = client[v]
      BY <1>t, <2>1
    <2>3. ~Given(w) /\ ~Given(w)' /\ worker[w] \in Serving /\ worker'[w] \notin Serving
      BY <1>g, <2>1, <2>2 DEF Given, Serving
    <2>4. Close(Holds[w])
      BY <2>1, <2>3, HoldsEach
    <2> QED
      BY <2>1, <2>2, <2>3, <2>4, OwnerCloses
  <1>6. ASSUME worker[w] \in Serving, NEW p \in Serving, worker' = [worker EXCEPT ![w] = p],
               UNCHANGED <<master, offer, closed, client, slot>>
        PROVE  OwnerInv' /\ Pooled
    <2>1. worker'[w] = p
      BY <1>t, <1>6
    <2>2. ~Given(w) /\ ~Given(w)'
      BY <1>g, <1>6, <2>1 DEF Given
    <2> QED
      BY <1>6, <2>2, OwnerMove
  <1>7. CASE get_request_handler(w) \/ Authorize(w) \/ requestHandler(w) \/ getParam(w)
             \/ handler_info_release(w) \/ closeHandler(w) \/ NoRequest(w)
    <2>1. UNCHANGED <<master, offer, closed, client, slot>>
      BY <1>7 DEF get_request_handler, Authorize, requestHandler, getParam, handler_info_release,
                  closeHandler, NoRequest
    <2>2. worker[w] \in Serving /\ \E p \in Serving : worker' = [worker EXCEPT ![w] = p]
      BY <1>7, ServesOn
    <2> QED
      BY <2>1, <2>2, <1>6
  <1> QED
    BY <1>1, <1>2, <1>3, <1>4, <1>5, <1>7 DEF Work, Serve

\* A connection has one owner whatever the step.
LEMMA OwnerStep ==
    ASSUME TypeInv, ThreadsInv, SignalInv, OwnerInv, [Next]_vars
    PROVE  OwnerInv' /\ Pooled
  <1> USE DEF mainVars, ports, masterVars, workerVars, registry
  <1>t. /\ worker \in [Workers -> Places]
        /\ slot \in [Workers -> [sock : Sockets \union {NoSocket}, in_use : 0..2]]
    BY DEF TypeInv
  <1>n. NoSocket \notin Sockets /\ DOMAIN closed \subseteq Sockets
    BY WebServerAssumption DEF TypeInv, Accepted
  <1>h. ASSUME UNCHANGED <<worker, slot, client>>
        PROVE  Holds' = Holds /\ \A w \in Workers : Given(w)' <=> Given(w)
    BY <1>h DEF Holds, Given
  <1>u. ASSUME UNCHANGED <<offer, closed, worker, slot, client>>,
               master' = "produce" <=> master = "produce", master' = "off" => master = "off"
        PROVE OwnerInv' /\ Pooled
    BY <1>h, <1>u DEF OwnerInv, Accepted, Pooled, P!vars
  <1>1. CASE Quiet
    BY <1>1, <1>u DEF Quiet
  <1>2. CASE StartMaster
    <2>1. /\ main = "master" /\ master' \in {"poll", "off"}
          /\ UNCHANGED <<offer, closed, worker, slot, client>>
      BY <1>2 DEF StartMaster
    <2>2. master = "off"
      BY <2>1 DEF ThreadsInv
    <2> QED
      BY <2>1, <2>2, <1>u
  <1>3. CASE StartWorker
    <2>1. \E v \in Workers : worker[v] = "off" /\ worker' = [worker EXCEPT ![v] = "starting"]
      BY <1>3, StartsOne
    <2>2. PICK v \in Workers, p \in {"starting"} : worker[v] = "off" /\ worker' = [worker EXCEPT ![v] = p]
      BY <2>1
    <2>3. UNCHANGED <<master, offer, closed, client, slot>>
      BY <1>3 DEF StartWorker
    <2>4. worker'[v] = p
      BY <1>t, <2>2
    <2>5. ~Given(v) /\ ~Given(v)' /\ p \notin Serving /\ worker[v] \notin Serving
      BY <2>2, <2>4 DEF Given, Serving
    <2> QED
      BY <2>2, <2>3, <2>5, OwnerMove
  <1>4. CASE SetHandler \/ Stop \/ Stopped
    BY <1>4, <1>u DEF SetHandler, Stop, Stopped
  <1>5. CASE accept_new_connection
    <2>1. /\ master = "poll" /\ UNCHANGED <<worker, slot, client>>
      BY <1>5 DEF accept_new_connection
    <2>2. PICK s \in Sockets \ Accepted :
           \/ /\ closed' = [t \in Accepted \union {s} |-> IF t = s THEN 0 ELSE closed[t]]
              /\ offer' = s /\ master' = "produce"
           \/ /\ closed' = [t \in Accepted \union {s} |-> IF t = s THEN 1 ELSE closed[t]]
              /\ UNCHANGED <<offer, master>>
      BY <1>5 DEF accept_new_connection
    <2>3. offer = NoSocket /\ s \notin DOMAIN closed /\ s # NoSocket /\ NoSocket \notin DOMAIN closed
      BY <1>n, <2>1, <2>2 DEF OwnerInv, Accepted
    <2>4. Owned(offer, closed, Holds)
      BY DEF OwnerInv
    <2>5. Owned(offer', closed', Holds)
      <3>1. CASE /\ closed' = [t \in Accepted \union {s} |-> IF t = s THEN 0 ELSE closed[t]]
                 /\ offer' = s /\ master' = "produce"
        <4>1. /\ DOMAIN closed' = DOMAIN closed \union {s} /\ closed'[s] = 0
              /\ \A t \in DOMAIN closed : closed'[t] = closed[t]
          BY <2>3, <3>1 DEF Accepted
        <4>2. Owned(NoSocket, closed, Holds)
          BY <2>3, <2>4
        <4>3. Owned(s, closed', Holds)
          BY <2>3, <4>1, <4>2, OwnedAccept
        <4> QED
          BY <3>1, <4>3
      <3>2. CASE /\ closed' = [t \in Accepted \union {s} |-> IF t = s THEN 1 ELSE closed[t]]
                 /\ UNCHANGED <<offer, master>>
        <4>1. /\ DOMAIN closed' = DOMAIN closed \union {s} /\ closed'[s] = 1
              /\ \A t \in DOMAIN closed : closed'[t] = closed[t]
          BY <2>3, <3>2 DEF Accepted
        <4>2. Owned(offer, closed', Holds)
          BY <2>3, <2>4, <4>1, OwnedRefuse
        <4> QED
          BY <3>2, <4>2
      <3> QED
        BY <2>2, <3>1, <3>2
    <2>6. (offer' # NoSocket <=> master' = "produce") /\ master' # "off"
      BY <2>1, <2>2, <2>3
    <2>7. P!Accept(s) \/ P!Refuse(s)
      BY <1>h, <2>1, <2>2, <2>3 DEF P!Accept, P!Refuse, P!Accepted, Accepted
    <2>8. Pooled
      BY <2>7 DEF Pooled, P!Next
    <2> QED
      BY <1>h, <2>1, <2>5, <2>6, <2>8 DEF OwnerInv
  <1>6. CASE produce_socket
    <2>1. master = "produce" /\ offer' = NoSocket /\ UNCHANGED <<worker, client>>
      BY <1>6 DEF produce_socket
    <2>2. /\ offer # NoSocket /\ Owned(offer, closed, Holds) /\ offer \in Accepted
          /\ NoSocket \notin DOMAIN closed
      BY <1>n, <2>1 DEF OwnerInv, Owned, Accepted
    <2>3. CASE stop_flag # 0
      <3>1. Close(offer) /\ master' = "poll" /\ UNCHANGED slot
        BY <1>6, <2>3 DEF produce_socket
      <3>2. /\ DOMAIN closed' = DOMAIN closed /\ closed'[offer] = closed[offer] + 1
            /\ \A t \in DOMAIN closed \ {offer} : closed'[t] = closed[t]
        BY <2>2, <3>1, CloseOne
      <3>3. Owned(NoSocket, closed', Holds)
        BY <2>2, <3>2, OwnedWithdraw
      <3>4. P!Closes(offer)
        BY <2>2, <3>1, ClosePooled DEF Owned
      <3>5. Pooled
        BY <1>h, <2>1, <3>1, <3>4 DEF Pooled, P!Next, P!Withdraw
      <3> QED
        BY <1>h, <2>1, <3>1, <3>3, <3>5 DEF OwnerInv
    <2>4. CASE stop_flag = 0
      <3>1. PICK w \in Workers : /\ slot[w].in_use = 2
                                 /\ slot' = [slot EXCEPT ![w] = [sock |-> offer, in_use |-> 1]]
                                 /\ master' = "signal"
        BY <1>6, <2>4 DEF produce_socket
      <3>2. UNCHANGED closed
        BY <1>6, <2>4 DEF produce_socket
      <3>3. /\ slot'[w].sock = offer /\ slot'[w].in_use = 1
            /\ \A v \in Workers \ {w} : slot'[v] = slot[v]
        BY <1>t, <3>1
      <3>4. worker[w] = "wait"
        BY <2>4, <3>1 DEF SignalInv, Asleep
      <3>5. ~Given(w) /\ client[w] = NoSocket
        BY <3>1, <3>4 DEF Given, OwnerInv, Serving
      <3>6. Given(w)' /\ \A v \in Workers \ {w} : Given(v)' <=> Given(v)
        BY <2>1, <3>3, <3>4 DEF Given
      <3>7. Holds[w] = NoSocket
        BY <3>5, HoldsEach
      <3>8. Holds'[w] = offer /\ \A v \in Workers \ {w} : Holds'[v] = Holds[v]
        BY <2>1, <3>3, <3>6 DEF Holds
      <3>9. Owned(NoSocket, closed, Holds')
        BY <2>2, <3>7, <3>8, OwnedGive
      <3>10. \A v \in Workers : worker'[v] \in Serving \/ Given(v)' => Holds'[v] # NoSocket
        BY <2>1, <2>2, <3>6, <3>8 DEF OwnerInv
      <3>11. \A v \in Workers : worker'[v] \notin Serving => client'[v] = NoSocket
        BY <2>1 DEF OwnerInv
      <3>12. Holds' = [Holds EXCEPT ![w] = offer]
        BY <3>8, HoldsEach DEF Holds
      <3>13. P!Give(w)
        BY <2>1, <2>2, <3>2, <3>7, <3>12 DEF P!Give
      <3>14. Pooled
        BY <3>13 DEF Pooled, P!Next
      <3> QED
        BY <2>1, <3>1, <3>2, <3>9, <3>10, <3>11, <3>14 DEF OwnerInv
    <2> QED
      BY <2>3, <2>4
  <1>7. CASE ProduceSignal \/ MasterStops \/ WakeWorker \/ JoinWorker
    <2>1. /\ UNCHANGED <<offer, closed, worker, slot, client>>
          /\ master \notin {"produce", "off"} /\ master' \notin {"produce", "off"}
      BY <1>7 DEF ProduceSignal, MasterStops, WakeWorker, JoinWorker
    <2> QED
      BY <2>1, <1>u
  <1>8. ASSUME NEW w \in Workers, Work(w) \/ NoRequest(w) PROVE OwnerInv' /\ Pooled
    BY <1>8, WorkOwner
  <1> QED
    BY <1>1, <1>2, <1>3, <1>4, <1>5, <1>6, <1>7, <1>8, NextCases DEF Master

-----------------------------------------------------------------------------
(* CivetServer::connections.                                               *)

\* The places between the first entry into connections and closeHandler.
Stored == {"authorize", "request", "getParam", "release", "closing"}

\* A step of one worker.
LEMMA ConnsMove ==
    ASSUME TypeInv, ConnsInv, NEW w \in Workers, NEW p, worker' = [worker EXCEPT ![w] = p],
           UNCHANGED context, conns' \subseteq conns \union {w},
           w \in conns' => p \in Stored, ~context => conns' = {} /\ p # "getParam"
    PROVE  ConnsInv'
  <1>1. worker'[w] = p /\ \A v \in Workers \ {w} : worker'[v] = worker[v]
    BY DEF TypeInv
  <1>2. conns \subseteq Workers /\ \A v \in conns : worker[v] \in Stored
    BY DEF TypeInv, ConnsInv, ConnectionForgotten, Stored
  <1>3. \A v \in conns' : worker'[v] \in Stored
    BY <1>1, <1>2
  <1>4. ASSUME ~context' PROVE conns' = {} /\ \A v \in Workers : worker'[v] # "getParam"
    <2>1. ~context
      BY <1>4, Zenon
    <2>2. conns' = {} /\ p # "getParam" /\ \A v \in Workers : worker[v] # "getParam"
      BY <2>1 DEF ConnsInv
    <2> QED
      BY <1>1, <2>2
  <1>5. ConnectionForgotten'
    BY <1>3 DEF ConnectionForgotten, Stored
  <1> QED
    BY <1>4, <1>5 DEF ConnsInv

\* Every step of a worker.
LEMMA WorkConns ==
    ASSUME TypeInv, ConnsInv, NEW w \in Workers, Work(w) \/ NoRequest(w)
    PROVE  ConnsInv'
  <1> USE DEF mainVars, ports, masterVars, workerVars, registry, Goto
  <1>a. UNCHANGED context
    BY WorkMoves
  <1>b. w \in conns => worker[w] \in Stored
    BY DEF ConnsInv, ConnectionForgotten, Stored
  <1>c. ~context => conns = {} /\ worker[w] # "getParam"
    BY DEF ConnsInv
  <1>m. ASSUME NEW p, worker' = [worker EXCEPT ![w] = p], p # "getParam", UNCHANGED conns,
               worker[w] \in Stored => p \in Stored
        PROVE  ConnsInv'
    BY <1>a, <1>b, <1>c, <1>m, ConnsMove
  <1>1. CASE \/ WorkerBegins(w) \/ GoIdle(w) \/ event_wait(w) \/ consume_socket(w)
             \/ close_connection(w)
    <2>1. /\ UNCHANGED conns /\ worker[w] \notin Stored
          /\ \E p \in {"idle", "failed", "wait", "take", "lookup", "ended"} :
                worker' = [worker EXCEPT ![w] = p]
      BY <1>1 DEF WorkerBegins, GoIdle, event_wait, consume_socket, close_connection, Stored
    <2> QED
      BY <2>1, <1>m
  <1>2. CASE get_request_handler(w) \/ handler_info_release(w) \/ NoRequest(w)
    <2>1. /\ UNCHANGED conns
          /\ \E p \in {"authorize", "closing"} : worker' = [worker EXCEPT ![w] = p]
      BY <1>2 DEF get_request_handler, handler_info_release, NoRequest
    <2>2. {"authorize", "closing"} \subseteq Stored
      BY DEF Stored
    <2> QED
      BY <2>1, <2>2, <1>m
  <1>3. CASE Authorize(w)
    <2>1. /\ \E p \in {"request", "closing"} : worker' = [worker EXCEPT ![w] = p]
          /\ conns' = conns \/ conns' = IF context THEN conns \union {w} ELSE conns
      BY <1>3 DEF Authorize
    <2>2. conns' \subseteq conns \union {w} /\ (~context => conns' = {})
      BY <1>c, <2>1
    <2>3. {"request", "closing"} \subseteq Stored
      BY DEF Stored
    <2> QED
      BY <1>a, <2>1, <2>2, <2>3, ConnsMove
  <1>4. CASE requestHandler(w)
    <2>1. /\ \E p \in {"closing", "getParam", "release"} :
                /\ worker' = [worker EXCEPT ![w] = p]
                /\ ~context => p # "getParam"
          /\ conns' = conns \/ conns' = IF context THEN conns \union {w} ELSE conns
      <3>1. CASE info[w] = NoHandler
        BY <1>4, <3>1 DEF requestHandler
      <3>2. CASE info[w] # NoHandler
        BY <1>4, <3>2 DEF requestHandler
      <3> QED
        BY <3>1, <3>2
    <2>2. conns' \subseteq conns \union {w} /\ (~context => conns' = {})
      BY <1>c, <2>1
    <2>3. {"closing", "getParam", "release"} \subseteq Stored
      BY DEF Stored
    <2> QED
      BY <1>a, <2>1, <2>2, <2>3, ConnsMove
  <1>5. CASE getParam(w)
    <2>1. /\ worker[w] = "getParam" /\ conns' = conns \union {w}
          /\ \E p \in {"release"} : worker' = [worker EXCEPT ![w] = p]
      BY <1>5 DEF getParam
    <2>2. context
      BY <1>c, <2>1
    <2>3. {"release"} \subseteq Stored
      BY DEF Stored
    <2> QED
      BY <1>a, <2>1, <2>2, <2>3, ConnsMove
  <1>6. CASE closeHandler(w)
    <2>1. /\ conns' = IF context THEN conns \ {w} ELSE conns
          /\ \E p \in {"close"} : worker' = [worker EXCEPT ![w] = p]
      BY <1>6 DEF closeHandler
    <2>2. conns' \subseteq conns /\ w \notin conns' /\ (~context => conns' = {})
      BY <1>c, <2>1
    <2> QED
      BY <1>a, <2>1, <2>2, ConnsMove
  <1> QED
    BY <1>1, <1>2, <1>3, <1>4, <1>5, <1>6 DEF Work, Serve

\* No trace of a connection is left behind, whatever the step.
LEMMA ConnsStep ==
    ASSUME TypeInv, ThreadsInv, OwnerInv, ConnsInv, [Next]_vars
    PROVE  ConnsInv'
  <1> USE DEF mainVars, ports, masterVars, workerVars, registry
  <1>b. \A v \in conns : v \in Workers /\ worker[v] \in Stored
    BY DEF TypeInv, ConnsInv, ConnectionForgotten, Stored
  <1>u. ASSUME UNCHANGED <<conns, worker>>, context => context' PROVE ConnsInv'
    BY <1>u, Zenon DEF ConnsInv, ConnectionForgotten
  <1>n. ASSUME UNCHANGED <<conns, worker>>, \A w \in Workers : worker[w] \notin Stored
        PROVE  ConnsInv'
    <2>1. conns = {} /\ \A w \in Workers : worker[w] # "getParam"
      BY <1>b, <1>n DEF Stored
    <2> QED
      BY <1>n, <2>1 DEF ConnsInv, ConnectionForgotten
  <1>1. CASE Quiet
    BY <1>1, <1>u DEF Quiet
  <1>2. CASE StartMaster
    BY <1>2, <1>u DEF StartMaster
  <1>3. CASE StartWorker
    <2>1. \E v \in Workers : worker[v] = "off" /\ worker' = [worker EXCEPT ![v] = "starting"]
      BY <1>3, StartsOne
    <2>2. PICK v \in Workers, p \in {"starting"} : worker[v] = "off" /\ worker' = [worker EXCEPT ![v] = p]
      BY <2>1
    <2>3. UNCHANGED context /\ UNCHANGED conns
      BY <1>3 DEF StartWorker
    <2>4. v \notin conns /\ (~context => conns = {})
      BY <1>b, <2>2 DEF Stored, ConnsInv
    <2> QED
      BY <2>2, <2>3, <2>4, ConnsMove
  <1>4. CASE SetHandler
    BY <1>4, <1>u DEF SetHandler
  <1>5. CASE Stop
    <2>1. UNCHANGED <<conns, worker>>
      BY <1>5 DEF Stop
    <2>2. CASE master = "off"
      <3>1. DOMAIN closed = {}
        BY <2>2 DEF OwnerInv, Accepted
      <3>2. \A w \in Workers : Holds[w] = NoSocket
        BY <3>1 DEF OwnerInv, Owned
      <3>3. \A w \in Workers : worker[w] \notin Serving
        BY <3>2 DEF OwnerInv
      <3> QED
        BY <2>1, <3>3, <1>n DEF Serving, Stored
    <2>3. CASE master # "off"
      BY <1>5, <2>1, <2>3, <1>u DEF Stop
    <2> QED
      BY <2>2, <2>3
  <1>6. CASE Stopped
    <2>1. UNCHANGED <<conns, worker>> /\ \A w \in Workers : worker[w] \in WorkerEnded
      BY <1>6 DEF Stopped, ThreadsInv
    <2> QED
      BY <2>1, <1>n DEF WorkerEnded, Stored
  <1>7. CASE accept_new_connection
    BY <1>7, <1>u DEF accept_new_connection
  <1>8. CASE Master
    BY <1>8, <1>u DEF Master, produce_socket, ProduceSignal, MasterStops, WakeWorker, JoinWorker
  <1>9. ASSUME NEW w \in Workers, Work(w) \/ NoRequest(w) PROVE ConnsInv'
    BY <1>9, WorkConns
  <1> QED
    BY <1>1, <1>2, <1>3, <1>4, <1>5, <1>6, <1>7, <1>8, <1>9, NextCases

-----------------------------------------------------------------------------
(* The theorems.                                                           *)

\* Nothing is allocated, open or running before mg_start.
LEMMA InitFull == Init => FullInv
  <1> SUFFICES ASSUME Init PROVE FullInv
    OBVIOUS
  <1>1. TypeInv
    BY TypeInit
  <1>2. /\ main = "context" /\ "context" \in StartSteps /\ failed = "none" /\ master = "off"
        /\ stop_flag = 0 /\ offer = NoSocket /\ listed = "null" /\ portsTotal = 0
        /\ \A w \in Workers : worker[w] = "off"
    BY StepNames DEF Init
  <1>3. ContextInv
    BY DEF Init, ContextInv
  <1>4. ThreadsInv
    BY <1>2 DEF ThreadsInv
  <1>5. StartInv
    <2>1. \A x \in DOMAIN mem : mem[x] = "null" /\ x \in StartSteps
      BY StepOrder DEF Init
    <2>2. \A x \in DOMAIN mem : ~(Step(x) < Step(main))
      BY <1>2, <2>1, StepValues, StepOrder
    <2>3. Step(main) = 1 /\ Step("listening_ports") = 5
      BY <1>2, StepValues
    <2>4. FailedStartExact
      BY <1>2 DEF FailedStartExact
    <2> QED
      BY <1>2, <2>1, <2>2, <2>3, <2>4 DEF StartInv
  <1>6. HandlerInv
    <2>1. \A w \in Workers : ~InUse(w)
      BY <1>2 DEF InUse
    <2>2. Users = {} /\ HandlerStays
      BY <2>1 DEF Users, HandlerStays
    <2>3. Cardinality(Users) = 0 /\ refcount = 0
      BY <2>2, FS_EmptySet DEF Init
    <2> QED
      BY <1>2, <2>2, <2>3 DEF HandlerInv
  <1>7. SignalInv
    <2>1. \A w \in Workers : event[w] = 0 /\ slot[w].in_use = 0
      BY DEF Init
    <2> QED
      BY <1>2, <2>1 DEF SignalInv, Asleep
  <1>8. OwnerInv
    <2>1. \A w \in Workers : ~Given(w) /\ client[w] = NoSocket /\ worker[w] \notin Serving
      BY <1>2 DEF Init, Given, Serving
    <2>2. \A w \in Workers : Holds[w] = NoSocket
      BY <2>1, HoldsEach
    <2>3. DOMAIN closed = {}
      BY DEF Init
    <2> QED
      BY <1>2, <2>1, <2>2, <2>3 DEF OwnerInv, Owned, Accepted
  <1>9. ConnsInv
    BY <1>2 DEF Init, ConnsInv, ConnectionForgotten
  <1> QED
    BY <1>1, <1>3, <1>4, <1>5, <1>6, <1>7, <1>8, <1>9 DEF FullInv

\* The parts of the invariant together are inductive.
LEMMA FullStep == FullInv /\ [Next]_vars => FullInv'
  BY TypeStep, ContextStep, ThreadsStep, StartInvStep, HandlerStep, SignalStep, OwnerStep,
     ConnsStep
  DEF FullInv

\* The invariant holds in every reachable state.
LEMMA FullInvariant == Spec => []FullInv
  BY InitFull, FullStep, PTL DEF Spec

\* The bounds of the types follow from the other parts.
LEMMA FullTypes == FullInv => TypeOK
  <1> SUFFICES ASSUME FullInv PROVE TypeOK
    OBVIOUS
  <1> USE DEF FullInv
  <1>1. Users \subseteq Workers
    BY DEF Users
  <1>2. Cardinality(Users) \in Nat
    BY <1>1, UsersFinite
  <1>3. refcount \in Nat
    BY <1>2 DEF TypeInv, HandlerInv
  <1>4. event \in [Workers -> 0..2]
    BY DEF TypeInv, SignalInv, Asleep
  <1>5. \A s \in Accepted : closed[s] \in Nat
    BY DEF OwnerInv, Owned, Accepted
  <1>6. portsTotal \in 0..MaxPorts /\ listening \in 0..MaxPorts
    BY WebServerAssumption DEF TypeInv
  <1> QED
    BY <1>3, <1>4, <1>5, <1>6 DEF TypeInv, TypeOK, StartSteps

\* The owners that OneOwner counts are the ones the invariant knows.
LEMMA FullOwner == FullInv => OneOwner
  <1> SUFFICES ASSUME FullInv, NEW s \in Accepted
               PROVE  closed[s] \in {0, 1} /\ Cardinality(Holders(s)) = 1 - closed[s]
    BY DEF OneOwner
  <1> USE DEF FullInv
  <1>1. s # NoSocket /\ s \in DOMAIN closed
    BY WebServerAssumption DEF TypeInv, Accepted
  <1>2. Owned(offer, closed, Holds)
    BY DEF OwnerInv
  <1>3. closed[s] \in {0, 1}
    BY <1>1, <1>2 DEF Owned
  <1>4. \A w \in Workers : client[w] = s => worker[w] \in Serving
    BY <1>1 DEF OwnerInv
  <1>5. \A w \in Workers : client[w] = s <=> ~Given(w) /\ Holds[w] = s
    BY <1>4, HoldsEach DEF Given, Serving
  <1>6. \A w \in Workers : (/\ worker[w] \in {"wait", "take"}
                            /\ slot[w] = [sock |-> s, in_use |-> 1]) <=> Given(w) /\ Holds[w] = s
    <2> SUFFICES ASSUME NEW w \in Workers
                 PROVE  (/\ worker[w] \in {"wait", "take"}
                         /\ slot[w] = [sock |-> s, in_use |-> 1]) <=> Given(w) /\ Holds[w] = s
      OBVIOUS
    <2>1. slot[w] = [sock |-> slot[w].sock, in_use |-> slot[w].in_use]
      BY AsleepTypes
    <2> QED
      BY <2>1, HoldsEach DEF Given
  <1> DEFINE A == {w \in Workers : Given(w) /\ Holds[w] = s}
             B == {w \in Workers : ~Given(w) /\ Holds[w] = s}
  <1>7. Holders(s) = {<<"master">> : x \in {offer} \intersect {s}}
                     \union {<<"slot", w>> : w \in A} \union {<<"worker", w>> : w \in B}
    <2>1. A = {v \in Workers : /\ worker[v] \in {"wait", "take"}
                               /\ slot[v] = [sock |-> s, in_use |-> 1]}
      BY <1>6
    <2>2. B = {v \in Workers : client[v] = s}
      BY <1>5
    <2> QED
      BY <2>1, <2>2, Zenon DEF Holders
  <1>8. CASE closed[s] = 1
    <2>1. offer # s /\ A = {} /\ B = {}
      BY <1>1, <1>2, <1>8 DEF Owned
    <2>2. Holders(s) = {}
      BY <1>7, <2>1
    <2> QED
      BY <1>8, <2>2, FS_EmptySet
  <1>9. CASE closed[s] = 0
    <2>1. PICK x : Holders(s) = {x}
      <3>1. CASE offer = s
        <4>1. A = {} /\ B = {}
          BY <1>1, <1>2, <3>1 DEF Owned
        <4>2. Holders(s) = {<<"master">>}
          BY <1>7, <3>1, <4>1
        <4> QED
          BY <4>2
      <3>2. CASE offer # s
        <4>1. PICK w \in Workers : Holds[w] = s
          BY <1>1, <1>2, <1>9, <3>2 DEF Owned
        <4>2. \A v \in Workers : Holds[v] = s => v = w
          BY <1>1, <1>2, <4>1 DEF Owned
        <4>3. CASE Given(w)
          <5>1. A = {w} /\ B = {}
            BY <4>1, <4>2, <4>3
          <5>2. Holders(s) = {<<"slot", w>>}
            BY <1>7, <3>2, <5>1
          <5> QED
            BY <5>2
        <4>4. CASE ~Given(w)
          <5>1. A = {} /\ B = {w}
            BY <4>1, <4>2, <4>4
          <5>2. Holders(s) = {<<"worker", w>>}
            BY <1>7, <3>2, <5>1
          <5> QED
            BY <5>2
        <4> QED
          BY <4>3, <4>4
      <3> QED
        BY <3>1, <3>2
    <2>2. Cardinality(Holders(s)) = 1
      BY <2>1, FS_Singleton
    <2> QED
      BY <1>9, <2>2
  <1> QED
    BY <1>3, <1>8, <1>9

\* What PoolInv says follows.
LEMMA FullPool == FullInv => PoolInv
  <1>1. FullInv => WakeUpExact
    BY DEF FullInv, SignalInv, Asleep, WakeUpExact
  <1>2. FullInv => ConnectionForgotten
    BY DEF FullInv, ConnsInv
  <1> QED
    BY <1>1, <1>2, FullTypes, FullOwner DEF PoolInv

\* What LifeInv says follows.
LEMMA FullLife == FullInv => LifeInv
  <1> SUFFICES ASSUME FullInv PROVE LifeInv
    OBVIOUS
  <1> USE DEF FullInv
  <1>1. FailedStartExact
    BY DEF StartInv
  <1>2. AllPortsOpen
    <2>1. ASSUME main = "failed", failed = "listening_ports"
          PROVE  listening = 0 /\ listed = "null"
      <3>1. ~(listening > 0)
        BY <1>1, <2>1 DEF FailedStartExact
      <3>2. listening \in Nat
        BY DEF TypeInv
      <3> QED
        BY <2>1, <3>1, <3>2 DEF StartInv
    <2> QED
      BY <2>1 DEF StartInv, AllPortsOpen
  <1>3. StopIsClean
    <2> SUFFICES ASSUME main = "down", master # "off"
                 PROVE  /\ ThreadsEnded /\ listening = 0 /\ conns = {} /\ handler = NoHandler
                        /\ \A x \in DOMAIN mem : mem[x] = "freed"
                        /\ \A s \in Accepted : closed[s] = 1
      BY DEF StopIsClean
    <2>1. master = "ended" /\ \A w \in Workers : worker[w] \in WorkerEnded
      BY DEF ThreadsInv
    <2>2. ThreadsEnded
      BY <2>1 DEF ThreadsEnded
    <2>3. listening = 0 /\ handler = NoHandler /\ \A x \in DOMAIN mem : mem[x] = "freed"
      BY <2>1 DEF StartInv
    <2>4. conns = {}
      <3>1. \A w \in Workers : worker[w] \notin Stored
        BY <2>1 DEF WorkerEnded, Stored
      <3> QED
        BY <3>1 DEF ConnsInv, ConnectionForgotten, Stored, TypeInv
    <2>5. ASSUME NEW s \in Accepted PROVE closed[s] = 1
      <3>1. s # NoSocket /\ s \in DOMAIN closed /\ offer = NoSocket
        BY <2>1, WebServerAssumption DEF TypeInv, Accepted, OwnerInv
      <3>2. \A w \in Workers : Holds[w] = NoSocket
        BY <2>1, HoldsEach DEF WorkerEnded, Serving, Given, OwnerInv
      <3> QED
        BY <3>1, <3>2 DEF OwnerInv, Owned
    <2> QED
      BY <2>2, <2>3, <2>4, <2>5
  <1> QED
    BY <1>1, <1>2, <1>3 DEF LifeInv

(* The handler a worker got from get_request_handler is the registered one *)
(* until the worker gives it back: mg_set_handler_type never replaces or   *)
(* frees a handler in use, however many workers and calls there are.       *)
THEOREM HandlersStay == Spec => []HandlerStays
  <1>1. FullInv => HandlerStays
    BY DEF FullInv, HandlerInv
  <1> QED
    BY <1>1, FullInvariant, PTL

(* The pool of workers: every accepted connection has one owner until it   *)
(* is closed, once; no worker sleeps through its signal or wakes for       *)
(* nothing (produce_socket, event_wait, consume_socket); nothing is stored *)
(* under a connection after its client is gone (closeHandler).             *)
THEOREM PoolInvariant == Spec => []PoolInv
  BY FullPool, FullInvariant, PTL

(* The server's life: where a failed mg_start is undefined and where it    *)
(* leaves the ports open, that a running server has all of its ports, and  *)
(* that mg_stop returns with every thread ended and everything closed and  *)
(* freed once.                                                             *)
THEOREM LifeInvariant == Spec => []LifeInv
  BY FullLife, FullInvariant, PTL

\* The threads of the server implement the pool: for every number of workers and
\* connections, each accepted one goes from the master to at most one worker and is
\* closed once by its owner (produce_socket, consume_socket, close_connection).
THEOREM ServerImplementsPool == Spec => ImplementsPool
  <1>1. Init => P!Init
    <2> SUFFICES ASSUME Init PROVE P!Init
      OBVIOUS
    <2>1. \A w \in Workers : ~Given(w) /\ client[w] = NoSocket
      BY DEF Init, Given
    <2> QED
      BY <2>1 DEF Init, Holds, P!Init
  <1>2. FullInv /\ [Next]_vars => [P!Next]_(P!vars)
    BY OwnerStep DEF FullInv, Pooled
  <1> QED
    BY <1>1, <1>2, FullInvariant, PTL DEF Spec, ImplementsPool, P!Spec
=============================================================================
