-------------------------------- MODULE Server --------------------------------
(***************************************************************************)
(* sc2::Server (src/src/sc2api/sc2_server.cc): a websocket server that     *)
(* mimics the game.  The worker threads of civetweb run its handlers: they *)
(* keep the vector of open connections, without a lock, and queue the      *)
(* requests the bots send.  Another thread takes requests and responses    *)
(* out of the queues and sends them (module Proxy).                        *)
(*                                                                         *)
(* Every worker thread has one mg_connection, which all the websockets it  *)
(* serves in its life use: a connection is the name of its worker.         *)
(***************************************************************************)
EXTENDS Integers, Sequences

CONSTANTS Workers,       \* num_threads
          MaxSockets,    \* websockets that bots may open
          MaxRequests    \* requests they may send

ASSUME ServerAssumption == MaxSockets \in Nat /\ MaxRequests \in Nat

VARIABLES
    connections,   \* connections_
    requests,      \* requests_, of which only the request is ever read
    responses,     \* responses_, likewise
    worker,        \* what each worker thread does
    socket,        \* the websocket it serves or served last, 0 for none
    opened,        \* websockets opened so far
    asked,         \* requests sent so far
    got,           \* what was written to each websocket, oldest first
    sole,          \* the newest websocket, if no other was open since it came
    raced,         \* two threads changed connections_ at once
    crashed        \* undefined behaviour ended the program

server == <<connections, requests, responses, worker, socket, opened, asked, got,
            sole, raced, crashed>>

Sockets == 1..MaxSockets

\* A request, and the response to it, is its number and the websocket of the bot.
Message == [id : 1..MaxRequests, from : Sockets]
Nullptr == [id |-> 0, from |-> 0]

WorkerStates == {"free", "connecting", "open", "closing"}

ServerTypeOK ==
    /\ connections \in Seq(Workers)
    /\ requests \in Seq(Message)
    /\ responses \in Seq(Message \cup {Nullptr})
    /\ worker \in [Workers -> WorkerStates]
    /\ socket \in [Workers -> 0..MaxSockets]
    /\ opened \in 0..MaxSockets
    /\ asked \in 0..MaxRequests
    /\ got \in [Sockets -> Seq(Message)]
    /\ sole \in 0..MaxSockets
    /\ raced \in BOOLEAN
    /\ crashed \in BOOLEAN

ServerInit ==
    /\ connections = <<>>
    /\ requests = <<>>
    /\ responses = <<>>
    /\ worker = [w \in Workers |-> "free"]
    /\ socket = [w \in Workers |-> 0]
    /\ opened = 0
    /\ asked = 0
    /\ got = [s \in Sockets |-> <<>>]
    /\ sole = 0
    /\ raced = FALSE
    /\ crashed = FALSE

IsOpen(s) == \E w \in Workers : worker[w] = "open" /\ socket[w] = s

-----------------------------------------------------------------------------
(* The worker threads.                                                     *)

\* Two threads in the vector at once are a data race: the change of the one
\* that leaves first may be lost, or the program dies.
InVector == {w \in Workers : worker[w] \in {"connecting", "closing"}}

LeaveVector(w, changed, state) ==
    /\ worker' = [worker EXCEPT ![w] = state]
    /\ raced' = (raced \/ InVector # {w})
    /\ \/ connections' = changed /\ UNCHANGED crashed
       \/ /\ InVector # {w}
          /\ UNCHANGED connections
          /\ crashed' \in BOOLEAN

\* WebSocketConnectHandler, before the handshake is answered.
BeginConnect(w) ==
    /\ worker[w] = "free"
    /\ opened < MaxSockets
    /\ opened' = opened + 1
    /\ socket' = [socket EXCEPT ![w] = opened + 1]
    /\ sole' = IF \A v \in Workers : worker[v] = "free" THEN opened + 1 ELSE 0
    /\ worker' = [worker EXCEPT ![w] = "connecting"]
    /\ UNCHANGED <<connections, requests, responses, asked, got, raced, crashed>>

EndConnect(w) ==
    /\ worker[w] = "connecting"
    /\ LeaveVector(w, Append(connections, w), "open")
    /\ UNCHANGED <<requests, responses, socket, opened, asked, got, sole>>

\* WebSocketDataHandler and QueueRequest.
QueueRequest(w) ==
    /\ worker[w] = "open"
    /\ asked < MaxRequests
    /\ asked' = asked + 1
    /\ requests' = Append(requests, [id |-> asked + 1, from |-> socket[w]])
    /\ UNCHANGED <<connections, responses, worker, socket, opened, got, sole, raced,
                   crashed>>

\* The loop of the worker ends: the bot closed the websocket or was lost, or it
\* sent a frame that is not a request.  WebSocketCloseHandler ...
BeginClose(w) ==
    /\ worker[w] = "open"
    /\ worker' = [worker EXCEPT ![w] = "closing"]
    /\ UNCHANGED <<connections, requests, responses, socket, opened, asked, got,
                   sole, raced, crashed>>

NotErased(q, w) == q                                       \* mutant

\* ... erases the first element that is the connection.
Erased(q, w) ==
    IF \E i \in DOMAIN q : q[i] = w
    THEN LET i == CHOOSE j \in DOMAIN q : q[j] = w /\ \A k \in 1..(j - 1) : q[k] # w
         IN  SubSeq(q, 1, i - 1) \o SubSeq(q, i + 1, Len(q))
    ELSE q

EndClose(w) ==
    /\ worker[w] = "closing"
    /\ LeaveVector(w, Erased(connections, w), "free")
    /\ UNCHANGED <<requests, responses, socket, opened, asked, got, sole>>

Worker(w) ==
    /\ ~crashed
    /\ \/ BeginConnect(w)
       \/ EndConnect(w)
       \/ QueueRequest(w)
       \/ BeginClose(w)
       \/ EndClose(w)

-----------------------------------------------------------------------------
(* Server's sending half, for the thread that uses it.                     *)

\* connections_.front(): of an empty vector it is what the buffer held before,
\* or the program dies, as it may when a worker thread changes the vector.
FrontIsSafe == connections # <<>> /\ InVector = {}
Front ==
    IF connections # <<>> THEN {Head(connections)} ELSE {w \in Workers : socket[w] # 0}

\* What a write of message m to the connection of w adds to what the bots got:
\* nothing when that connection serves no websocket now.
Written(w, m) ==
    IF worker[w] = "open" THEN [got EXCEPT ![socket[w]] = Append(@, m)] ELSE got

\* message_queue.pop() of SendMessage.
NotPopped(q) == q                                          \* mutant
Popped(q) == Tail(q)
=============================================================================
