----------------------------- MODULE Lifecycle -----------------------------
(***************************************************************************)
(* Start and stop of the daemon (daemon.cpp, main.cpp) over its threads:   *)
(* the peer-to-peer threads, the WebSocket service thread and the thread   *)
(* of the optional HTTP server, which takes one client at a time and looks *)
(* at running_ only between two of them.                                   *)
(***************************************************************************)
EXTENDS Naturals

CONSTANTS
    P2PThreads,   \* accept, message, connect, ping, heartbeat
    Dialers,      \* those of them that call markFailure
    HttpClients,
    Silent        \* HTTP clients that connect and never send

VARIABLES
    main,      \* what the main thread does next
    stopping,  \* g_should_stop
    httpOn,    \* config http_enabled
    flag,      \* running_ of each part
    http,      \* the worker of RPC
    ws,        \* the worker of WebSocketServer
    p2p,       \* each thread of P2PServer
    client     \* each HTTP client

lifeVars == <<main, stopping, httpOn, flag, http, ws, p2p, client>>

Ended(worker) == worker \in {"off", "done"}
Over == main \in {"ended", "failed"}

LifeTypeOK ==
    /\ main \in {"storage", "restore", "p2p", "ws", "http", "check", "loop",
                 "stopHttp", "joinHttp", "stopWs", "joinWs", "stopP2P", "joinP2P",
                 "ended", "failed"}
    /\ stopping \in BOOLEAN /\ httpOn \in BOOLEAN
    /\ flag \in [{"http", "ws", "p2p"} -> BOOLEAN]
    /\ http \in {"off", "binding", "accepting", "reading", "done"}
    /\ ws \in {"off", "creating", "serving", "done"}
    /\ p2p \in [P2PThreads -> {"off", "busy", "asleep", "stuck", "done"}]
    /\ client \in [HttpClients -> {"away", "waiting", "served", "answered"}]
    /\ (\E c \in HttpClients : client[c] = "served") <=> http = "reading"

LifeInit ==
    /\ main = "storage" /\ stopping = FALSE
    /\ httpOn \in BOOLEAN
    /\ flag = [part \in {"http", "ws", "p2p"} |-> FALSE]
    /\ http = "off" /\ ws = "off"
    /\ p2p = [t \in P2PThreads |-> "off"]
    /\ client = [c \in HttpClients |-> "away"]
-----------------------------------------------------------------------------
(* The main thread *)

\* Storage or restore_chain fails, or the P2P port is taken: main returns 1.
StartFails ==
    /\ main \in {"storage", "restore", "p2p"}
    /\ main' = "failed"
    /\ UNCHANGED <<stopping, httpOn, flag, http, ws, p2p, client>>

Prepare ==
    /\ \/ main = "storage" /\ main' = "restore"
       \/ main = "restore" /\ main' = "p2p"
    /\ UNCHANGED <<stopping, httpOn, flag, http, ws, p2p, client>>

StartP2P ==
    /\ main = "p2p" /\ main' = "ws"
    /\ flag' = [flag EXCEPT !["p2p"] = TRUE]
    /\ p2p' = [t \in P2PThreads |-> "busy"]
    /\ UNCHANGED <<stopping, httpOn, http, ws, client>>

StartWs ==
    /\ main = "ws" /\ main' = "http"
    /\ flag' = [flag EXCEPT !["ws"] = TRUE]
    /\ ws' = "creating"
    /\ UNCHANGED <<stopping, httpOn, http, p2p, client>>

StartHttp ==
    /\ main = "http" /\ main' = "check"
    /\ flag' = [flag EXCEPT !["http"] = httpOn]
    /\ http' = IF httpOn THEN "binding" ELSE http
    /\ UNCHANGED <<stopping, httpOn, ws, p2p, client>>

\* check_for_update blocks the main thread for as long as curl takes.
Checked ==
    /\ main = "check" /\ main' = "loop"
    /\ UNCHANGED <<stopping, httpOn, flag, http, ws, p2p, client>>

CheckAgain ==
    /\ main = "loop" /\ ~stopping /\ main' = "check"
    /\ UNCHANGED <<stopping, httpOn, flag, http, ws, p2p, client>>

\* Daemon::stop
StopOrder == <<"stopHttp", "joinHttp", "stopWs", "joinWs", "stopP2P", "joinP2P", "ended">>

AfterStop(step) ==
    StopOrder[(CHOOSE i \in 1..6 : StopOrder[i] = step) + 1]

BeginStop ==
    /\ main = "loop" /\ stopping
    /\ main' = StopOrder[1]
    /\ UNCHANGED <<stopping, httpOn, flag, http, ws, p2p, client>>

\* running_ of a part that is not running is left alone and nothing is joined.
StopPart(step, part) ==
    /\ main = step
    /\ flag' = [flag EXCEPT ![part] = FALSE]
    /\ main' = AfterStop(step)
    /\ UNCHANGED <<stopping, httpOn, http, ws, p2p, client>>

Joined(step, ended) ==
    /\ main = step /\ ended
    /\ main' = AfterStop(step)
    /\ UNCHANGED <<stopping, httpOn, flag, http, ws, p2p, client>>

MainStep ==
    \/ Prepare \/ StartP2P \/ StartWs \/ StartHttp \/ Checked \/ BeginStop
    \/ StopPart("stopHttp", "http") \/ Joined("joinHttp", Ended(http))
    \/ StopPart("stopWs", "ws") \/ Joined("joinWs", Ended(ws))
    \/ StopPart("stopP2P", "p2p")
    \/ Joined("joinP2P", \A t \in P2PThreads : Ended(p2p[t]))

\* SIGTERM or SIGINT, once the handler is set.
Signal ==
    /\ ~stopping /\ ~Over
    /\ stopping' = TRUE
    /\ UNCHANGED <<main, httpOn, flag, http, ws, p2p, client>>
-----------------------------------------------------------------------------
(* The workers *)

\* The port is taken: the thread ends, and start has long returned.
WsCreates ==
    /\ ws = "creating" /\ ws' \in {"serving", "done"}
    /\ UNCHANGED <<main, stopping, httpOn, flag, http, p2p, client>>

\* lws_service returns every 50 ms and when it is cancelled.
WsLeaves ==
    /\ ws = "serving" /\ ~flag["ws"] /\ ws' = "done"
    /\ UNCHANGED <<main, stopping, httpOn, flag, http, p2p, client>>

HttpBinds ==
    /\ http = "binding" /\ http' \in {"accepting", "done"}
    /\ UNCHANGED <<main, stopping, httpOn, flag, ws, p2p, client>>

\* accept blocks until a client comes; running_ is read before it.
HttpAccepts ==
    /\ http = "accepting"
    /\ \E c \in HttpClients :
         /\ client[c] = "waiting"
         /\ client' = [client EXCEPT ![c] = "served"]
    /\ http' = "reading"
    /\ UNCHANGED <<main, stopping, httpOn, flag, ws, p2p>>

FaultyNextClient == "done"

\* while (running_)
NextClient == IF flag["http"] THEN "accepting" ELSE "done"

FaultyLeft(c) == "served"

\* close(client_socket)
Left(c) == "answered"

\* One read, an answer when the whole request was in it, and the client is closed.
HttpAnswers ==
    /\ http = "reading"
    /\ \E c \in HttpClients \ Silent :
         /\ client[c] = "served"
         /\ client' = [client EXCEPT ![c] = Left(c)]
    /\ http' = NextClient
    /\ UNCHANGED <<main, stopping, httpOn, flag, ws, p2p>>

FaultyWakes(t) == p2p[t] = "busy" /\ flag["p2p"]

\* sleepWhileRunning looks at running_ every 200 ms.
Wakes(t) == p2p[t] \in {"asleep", "busy"}

P2PTurn(t) ==
    /\ Wakes(t)
    /\ p2p' = [p2p EXCEPT ![t] = IF ~flag["p2p"] THEN "done"
                                 ELSE IF @ = "busy" THEN "asleep" ELSE "busy"]
    /\ UNCHANGED <<main, stopping, httpOn, flag, http, ws, client>>

\* The tenth failure of an address: markFailure takes its mutex twice.
P2PSticks(t) ==
    /\ t \in Dialers /\ p2p[t] = "busy"
    /\ p2p' = [p2p EXCEPT ![t] = "stuck"]
    /\ UNCHANGED <<main, stopping, httpOn, flag, http, ws, client>>

HttpConnects(c) ==
    /\ client[c] = "away" /\ http \in {"accepting", "reading"}
    /\ client' = [client EXCEPT ![c] = "waiting"]
    /\ UNCHANGED <<main, stopping, httpOn, flag, http, ws, p2p>>
-----------------------------------------------------------------------------
LifeNext ==
    \/ MainStep \/ StartFails \/ CheckAgain \/ Signal
    \/ WsCreates \/ WsLeaves \/ HttpBinds \/ HttpAccepts \/ HttpAnswers
    \/ \E t \in P2PThreads : P2PTurn(t) \/ P2PSticks(t)
    \/ \E c \in HttpClients : HttpConnects(c)

LifeSpec == LifeInit /\ [][LifeNext]_lifeVars

\* Every thread goes on; clients and signals come as they like.
LifeFairness ==
    /\ WF_lifeVars(MainStep)
    /\ WF_lifeVars(WsCreates \/ WsLeaves)
    /\ WF_lifeVars(HttpBinds \/ HttpAccepts \/ HttpAnswers)
    /\ \A t \in P2PThreads : WF_lifeVars(P2PTurn(t))

LifeFairSpec == LifeSpec /\ LifeFairness
-----------------------------------------------------------------------------
(* Properties *)

\* A signal ends the daemon, unless a thread hangs in markFailure or the HTTP
\* server waits in accept or read for a client (main, Daemon::stop).
StopEnds ==
    ~httpOn /\ [](\A t \in P2PThreads : p2p[t] # "stuck") => (stopping ~> Over)

\* An HTTP client that sends its request is answered while the server runs,
\* unless one before it stays silent (RPC::run_loop).
HttpAnswered ==
    \A c \in HttpClients \ Silent :
        [](\A s \in Silent : client[s] # "served")
            => (client[c] = "waiting" ~> client[c] = "answered" \/ ~flag["http"])
=============================================================================
