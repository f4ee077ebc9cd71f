--------------------------------- MODULE Server ---------------------------------
(***************************************************************************)
(* The web server and the status (ACAP.c) from the start of the process to  *)
(* its end (main.c): the HTTP thread serves what the main thread has        *)
(* registered so far, both set the status under one mutex, and at the end   *)
(* the thread is cancelled before what its handlers read is freed.          *)
(***************************************************************************)
EXTENDS FiniteSets, Naturals

CONSTANT MaxNodes    \* ACAP_MAX_HTTP_NODES

Nobody == "nobody"
Nothing == "nothing"

\* What ACAP_Cleanup() frees: the configuration and three of the things registered in it.
Objects == {"app", "status", "device", "mqtt"}

\* The paths with a handler that reads them; those of the model, the SD card and the crops
\* read nothing of ACAP.c's.
Nodes == {"status", "app", "settings", "mqtt"}

VARIABLES
  main,        \* what the main thread does next
  http,        \* the HTTP thread
  asked,       \* the path of the request it handles
  socket,      \* fcgi_sock is open
  running,     \* http_thread_running
  initialized,
  cancelled,   \* pthread_cancel() was called
  mutex,       \* the thread that has status_mutex
  nodes,       \* http_nodes
  owned,       \* what `app` holds
  memory       \* what became of each object

serverVars == <<asked, socket, running, initialized, cancelled, nodes>>
vars == <<main, http, serverVars, mutex, owned, memory>>

Init ==
  /\ main = "create" /\ http = "none" /\ asked = Nothing
  /\ socket = FALSE /\ running = FALSE /\ initialized = FALSE /\ cancelled = FALSE
  /\ mutex = Nobody /\ nodes = {} /\ owned = {}
  /\ memory = [o \in Objects |-> "absent"]

Goto(here, next) == main = here /\ main' = next
-----------------------------------------------------------------------------
\* ACAP() as far as the web server; when it fails main() returns.
Create ==
  /\ \/ Goto("create", "http") /\ memory' = [memory EXCEPT !["app"] = "live"]
     \/ Goto("create", "done") /\ UNCHANGED memory
  /\ UNCHANGED <<http, serverVars, mutex, owned>>

\* ACAP_HTTP(): without its thread nothing is served, and the application goes on.
StartThread ==
  /\ Goto("http", "status")
  /\ \E starts \in BOOLEAN :
       /\ running' = TRUE /\ initialized' = starts
       /\ http' = IF starts THEN "between" ELSE "none"
  /\ UNCHANGED <<asked, socket, cancelled, mutex, nodes, owned, memory>>

\* ACAP_HTTP_Node(): not twice, and not beyond the table.
WithNode(n) == IF Cardinality(nodes) < MaxNodes THEN nodes \cup {n} ELSE nodes

\* ACAP_STATUS() and ACAP_DEVICE() make what ACAP_Set_Config() takes into `app`.
AddStatus ==
  /\ Goto("status", "device")
  /\ memory' = [memory EXCEPT !["status"] = "live"]
  /\ nodes' = WithNode("status") /\ owned' = owned \cup {"status"}
  /\ UNCHANGED <<http, asked, socket, running, initialized, cancelled, mutex>>

AddDevice ==
  /\ Goto("device", "app")
  /\ memory' = [memory EXCEPT !["device"] = "live"]
  /\ owned' = owned \cup {"device"}
  /\ UNCHANGED <<http, serverVars, mutex>>

Register(n, next) ==
  /\ Goto(n, next) /\ nodes' = WithNode(n)
  /\ UNCHANGED <<http, asked, socket, running, initialized, cancelled, mutex, owned, memory>>

\* main() registers the settings that MQTT_Init() has read, if it has.
AddMqtt ==
  /\ Goto("mqttConfig", "loop")
  /\ \/ memory' = [memory EXCEPT !["mqtt"] = "live"] /\ owned' = owned \cup {"mqtt"}
     \/ UNCHANGED <<memory, owned>>
  /\ UNCHANGED <<http, serverVars, mutex>>

SetUp ==
  Create \/ StartThread \/ AddStatus \/ AddDevice \/ AddMqtt
    \/ Register("app", "settings") \/ Register("settings", "mqtt") \/ Register("mqtt", "mqttConfig")
-----------------------------------------------------------------------------
\* The ACAP_STATUS_Set functions, called from the main loop and from Model_Cleanup().
AfterStatus == [loop |-> "loop", modelStatus |-> "modelState", modelState |-> "mqttEnds"]

LockStatus ==
  /\ main \in DOMAIN AfterStatus /\ mutex = Nobody /\ mutex' = "main"
  /\ UNCHANGED <<main, http, serverVars, owned, memory>>

StatusIsSet ==
  /\ mutex = "main" /\ mutex' = Nobody
  /\ main' = AfterStatus[main]
  /\ UNCHANGED <<http, serverVars, owned, memory>>

\* SIGTERM ends the main loop.
Quit ==
  /\ mutex # "main"
  /\ Goto("loop", IF initialized THEN "close" ELSE "modelStatus")
  /\ UNCHANGED <<http, serverVars, mutex, owned, memory>>

\* ACAP_HTTP_Cleanup(), in its four steps.
CloseSocket ==
  /\ Goto("close", "tell") /\ socket' = FALSE
  /\ UNCHANGED <<http, asked, running, initialized, cancelled, mutex, nodes, owned, memory>>

TellThread ==
  /\ Goto("tell", "cancel") /\ running' = FALSE
  /\ UNCHANGED <<http, asked, socket, initialized, cancelled, mutex, nodes, owned, memory>>

Cancel ==
  /\ Goto("cancel", "join") /\ cancelled' = TRUE
  /\ UNCHANGED <<http, asked, socket, running, initialized, mutex, nodes, owned, memory>>

Join ==
  /\ Goto("join", "modelStatus") /\ http = "over"
  /\ initialized' = FALSE
  /\ UNCHANGED <<http, asked, socket, running, cancelled, mutex, nodes, owned, memory>>

\* MQTT_Cleanup() leaves its settings to ACAP_Cleanup().
MqttEnds ==
  /\ Goto("mqttEnds", "detach")
  /\ UNCHANGED <<http, serverVars, mutex, owned, memory>>

\* A fault of Detached: the status stays in `app`.
DetachedDevice == owned \ {"device"}

\* ACAP_Cleanup(): what is freed by itself is taken out of `app` first.
Detached == owned \ {"status", "device"}

Detach ==
  /\ Goto("detach", "freeStatus") /\ owned' = Detached
  /\ UNCHANGED <<http, serverVars, mutex, memory>>

Freed(objects) ==
  [o \in Objects |-> IF o \notin objects THEN memory[o]
                     ELSE IF memory[o] = "live" THEN "freed" ELSE "twice"]

FreeObjects ==
  /\ \/ Goto("freeStatus", "freeApp") /\ memory' = Freed({"status"}) /\ UNCHANGED <<owned, nodes>>
     \/ /\ Goto("freeApp", "freeDevice") /\ memory' = Freed({"app"} \cup owned)
        /\ owned' = {} /\ UNCHANGED nodes
     \/ Goto("freeDevice", "done") /\ memory' = Freed({"device"}) /\ nodes' = {} /\ UNCHANGED owned
  /\ UNCHANGED <<http, asked, socket, running, initialized, cancelled, mutex>>

ShutDown ==
  CloseSocket \/ TellThread \/ Cancel \/ Join \/ MqttEnds \/ Detach \/ FreeObjects

\* The system starts the application again, after the process ended or was killed.
Boot ==
  /\ main # "create" /\ main' = "create"
  /\ http' = "none" /\ asked' = Nothing
  /\ socket' = FALSE /\ running' = FALSE /\ initialized' = FALSE /\ cancelled' = FALSE
  /\ mutex' = Nobody /\ nodes' = {} /\ owned' = {}
  /\ memory' = [o \in Objects |-> "absent"]
-----------------------------------------------------------------------------
\* Between two requests the thread looks whether it is to stop, and opens the socket when it
\* finds none, be it that ACAP_HTTP_Cleanup() has just closed it.
TurnAround ==
  /\ http = "between"
  /\ IF running THEN http' = "waiting" /\ socket' = TRUE
     ELSE http' = "over" /\ UNCHANGED socket
  /\ UNCHANGED <<main, asked, running, initialized, cancelled, mutex, nodes, owned, memory>>

\* FCGX_Accept_r() fails, or what it returns is no complete request.
NoRequest ==
  /\ http = "waiting" /\ http' = "between"
  /\ UNCHANGED <<main, serverVars, mutex, owned, memory>>

Request ==
  /\ http = "waiting" /\ http' = "dispatch"
  /\ asked' \in Nodes
  /\ UNCHANGED <<main, socket, running, initialized, cancelled, mutex, nodes, owned, memory>>

\* The table is searched: a path that is not in it yet is not found.
Dispatch ==
  /\ http = "dispatch"
  /\ http' = IF asked \in nodes THEN "handler" ELSE "between"
  /\ UNCHANGED <<main, serverVars, mutex, owned, memory>>

\* ACAP_ENDPOINT_status(), and the handlers that set the status of MQTT or a certificate.
LocksStatus ==
  /\ http = "handler" /\ asked \in {"status", "mqtt"}
  /\ mutex = Nobody /\ mutex' = "http" /\ http' = "holding"
  /\ UNCHANGED <<main, serverVars, owned, memory>>

UnlocksStatus ==
  /\ http = "holding" /\ http' = IF asked = "status" THEN "between" ELSE "answer"
  /\ mutex' = Nobody
  /\ UNCHANGED <<main, serverVars, owned, memory>>

Answer ==
  /\ http = "answer" \/ (http = "handler" /\ asked # "status")
  /\ http' = "between"
  /\ UNCHANGED <<main, serverVars, mutex, owned, memory>>

\* A fault of Cancellable: a thread can be cancelled wherever it is.
Anywhere == {"between", "waiting", "dispatch", "handler", "holding", "answer"}

\* Where the thread can be cancelled: outside of the handling of a request.
Cancellable == {"between", "waiting"}

Cancelled ==
  /\ cancelled /\ http \in Cancellable /\ http' = "over"
  /\ UNCHANGED <<main, serverVars, mutex, owned, memory>>

Serve == TurnAround \/ Dispatch \/ LocksStatus \/ UnlocksStatus \/ Answer \/ Cancelled

MainSteps == SetUp \/ StatusIsSet \/ ShutDown \/ (main # "loop" /\ LockStatus)

Next == MainSteps \/ LockStatus \/ Quit \/ Boot \/ Serve \/ Request \/ NoRequest

Spec == Init /\ [][Next]_vars
-----------------------------------------------------------------------------
\* What the handler of a path reads.
Reads == [status |-> {"status"}, app |-> {"app"} \cup owned, settings |-> {"app"}, mqtt |-> {"mqtt"}]

\* Nothing is freed twice on the way out, whatever start-up had got to ("double free or
\* corruption", ACAP.c:2503-2507), and no handler runs on what is freed (main.c:1155).
MemoryIsSound ==
  /\ \A o \in Objects : memory[o] # "twice"
  /\ http \in {"handler", "holding", "answer"} =>
       \A o \in Reads[asked] : memory[o] \in {"absent", "live"}

\* The process ends once it was told to, and need not be killed, whatever the HTTP thread
\* was doing: it is not cancelled with a mutex that the rest of the shutdown needs
\* (ACAP.c:432-434).
ShutdownEnds == (main = "close") ~> (main \in {"done", "create"})
=============================================================================
