------------------------------ MODULE WsServer ------------------------------
(***************************************************************************)
(* comms/ws-server.ts with handlers/ws-handler.ts: clients of the remote   *)
(* control.  Time is counted in heartbeats: a heartbeat pings every        *)
(* authenticated client and closes those whose last pong is too old.       *)
(***************************************************************************)
EXTENDS Naturals, FiniteSets

CONSTANTS
    Clients,
    AuthToken,    \* TRUE: a token is configured
    PongTimeout,  \* PONG_TIMEOUT_MS in heartbeats
    MaxBeats      \* bound: heartbeats

ASSUME WsAssumption == AuthToken \in BOOLEAN /\ PongTimeout \in Nat \ {0}

VARIABLES
    serving,  \* the server is started
    beat,     \* heartbeats so far: the clock
    socket,   \* per client: "none", "open", "closing" (close was called), "closed"
    state,    \* ClientState: [listed, authenticated, lastPong]
    asked,    \* clients with an unanswered ping
    slow,     \* history: clients that left a ping unanswered until the next one
    lateAuth, \* history: clients that authenticated when their first lastPong had run out
    dropped   \* history: clients closed by the heartbeat

wsVars == <<serving, beat, socket, state, asked, slow, lateAuth, dropped>>

Unknown == [listed |-> FALSE, authenticated |-> FALSE, lastPong |-> 0]

WsInit ==
    /\ serving = TRUE
    /\ beat = 0
    /\ socket = [c \in Clients |-> "none"]
    /\ state = [c \in Clients |-> Unknown]
    /\ asked = {}
    /\ slow = {}
    /\ lateAuth = {}
    /\ dropped = {}

\* on('connection')
Connection(c) ==
    /\ serving
    /\ socket[c] = "none"
    /\ socket' = [socket EXCEPT ![c] = "open"]
    /\ state' = [state EXCEPT ![c] = [listed |-> TRUE, authenticated |-> ~AuthToken, lastPong |-> beat]]
    /\ UNCHANGED <<serving, beat, asked, slow, lateAuth, dropped>>

\* ws emits messages until the closing handshake is over.
Receiving(c) == socket[c] \in {"open", "closing"}

\* on('message') of a client that is not authenticated yet: the token, a wrong one, or something else.
Authenticate(c) ==
    /\ Receiving(c)
    /\ ~state[c].authenticated
    /\ \/ /\ state' = [state EXCEPT ![c].authenticated = TRUE]
          /\ lateAuth' = IF beat - state[c].lastPong >= PongTimeout THEN lateAuth \cup {c} ELSE lateAuth
          /\ UNCHANGED socket
       \/ /\ socket' = [socket EXCEPT ![c] = "closing"]
          /\ UNCHANGED <<state, lateAuth>>
    /\ UNCHANGED <<serving, beat, asked, slow, dropped>>

\* A pong that is routed to the handler like any other message.
Pong_Routed(c) ==
    /\ Receiving(c)
    /\ state[c].authenticated
    /\ asked' = asked \ {c}
    /\ UNCHANGED <<serving, beat, socket, state, slow, lateAuth, dropped>>

\* A pong of an authenticated client.
Pong(c) ==
    /\ Receiving(c)
    /\ state[c].authenticated
    /\ state' = [state EXCEPT ![c].lastPong = beat]
    /\ asked' = asked \ {c}
    /\ UNCHANGED <<serving, beat, socket, slow, lateAuth, dropped>>

\* on('close')
Closed(c) ==
    /\ Receiving(c)
    /\ socket' = [socket EXCEPT ![c] = "closed"]
    /\ state' = [state EXCEPT ![c].listed = FALSE]
    /\ UNCHANGED <<serving, beat, asked, slow, lateAuth, dropped>>

Beating == {c \in Clients : state[c].listed /\ state[c].authenticated}

\* Those whose last pong is too old at the next heartbeat.
Silent == {c \in Beating : beat + 1 - state[c].lastPong > PongTimeout}

\* The heartbeat interval.
Heartbeat ==
    /\ serving
    /\ beat < MaxBeats
    /\ beat' = beat + 1
    /\ socket' = [c \in Clients |-> IF c \in Silent /\ socket[c] = "open" THEN "closing" ELSE socket[c]]
    /\ state' = [c \in Clients |-> IF c \in Silent THEN [state[c] EXCEPT !.listed = FALSE] ELSE state[c]]
    /\ slow' = slow \cup asked
    /\ asked' = asked \cup {c \in Beating \ Silent : socket[c] = "open"}
    /\ dropped' = dropped \cup {c \in Silent : socket[c] = "open"}
    /\ UNCHANGED <<serving, lateAuth>>

\* stop(): the interval ends, clients are closed and forgotten.
StopServer ==
    /\ serving
    /\ serving' = FALSE
    /\ socket' = [c \in Clients |-> IF state[c].listed /\ socket[c] = "open" THEN "closing" ELSE socket[c]]
    /\ state' = [c \in Clients |-> [state[c] EXCEPT !.listed = FALSE]]
    /\ UNCHANGED <<beat, asked, slow, lateAuth, dropped>>

WsNext ==
    \/ \E c \in Clients : Connection(c) \/ Authenticate(c) \/ Pong(c) \/ Closed(c)
    \/ Heartbeat
    \/ StopServer

WsSpec == WsInit /\ [][WsNext]_wsVars

-----------------------------------------------------------------------------
\* Only a client that let a ping go unanswered for a whole interval is closed for its silence, or
\* one that took longer than the timeout to authenticate: lastPong is the time it connected, and
\* no ping is sent before it has authenticated.
LivingClientKept == dropped \subseteq slow \cup lateAuth
=============================================================================
