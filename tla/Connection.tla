------------------------------ MODULE Connection ------------------------------
(***************************************************************************)
(* sc2::Connection (src/src/sc2api/sc2_connection.cc): a websocket whose   *)
(* frames are read by a civetweb thread and put in a queue from which the  *)
(* client thread takes them.  There is one client thread, and one civetweb *)
(* thread per websocket ever opened (an "epoch": Connect starts one,       *)
(* mg_close_connection joins it).  A step is one critical section of       *)
(* mutex_, or one access outside of it that another thread can observe.    *)
(*                                                                         *)
(* A request is its serial number, and a response is the number of the     *)
(* request it answers with the websocket it came through.                  *)
(***************************************************************************)
EXTENDS Integers, Sequences

CONSTANTS MaxEpoch,     \* websockets that may be opened, one after the other
          MaxRequests   \* requests that may be sent

ASSUME BoundsAssumption == MaxEpoch \in Nat /\ MaxRequests \in Nat

VARIABLES
    connection,    \* connection_: the open websocket, 0 for nullptr
    opened,        \* websockets opened so far
    queue,         \* queue_
    has_response,  \* has_response_
    mutex,         \* mutex_: 0 when free, else the epoch whose thread holds it
    client,        \* where the client thread is
    received,      \* the last response Receive returned
    sent,          \* number of the last request sent
    worker,        \* where the civetweb thread of each websocket is
    hand,          \* the response that thread is about to push
    stop,          \* phys_ctx->stop_flag of each websocket
    inFlight       \* requests sent on each websocket whose answer is not read

vars == <<connection, opened, queue, has_response, mutex, client, received,
          sent, worker, hand, stop, inFlight>>

Epochs == 1..MaxEpoch
Requests == 1..MaxRequests
Response == [req : Requests, via : Epochs]
NoResponse == [req |-> 0, via |-> 0]

ClientStates == {"idle",       \* not inside a call of Connection
                 "wait",       \* Receive: in condition_.wait_until
                 "pop",        \* Receive: the wait succeeded, lock released
                 "timedout",   \* Receive: the wait timed out, lock released
                 "join",       \* Receive: Disconnect is joining the thread
                 "clear",      \* Receive: disconnected, before queue_.clear()
                 "quit",       \* Disconnect called on its own, joining
                 "gone"}       \* disconnected for good, the object is destroyed

WorkerStates == {"none",       \* the websocket was not opened yet
                 "reading",    \* read_websocket waits for a frame
                 "parsed",     \* DataHandler has a response, wants the mutex
                 "pushed",     \* in PushResponse, before has_response_ = true
                 "closing",    \* read_websocket is over, close handler next
                 "exited"}

TypeOK ==
    /\ connection \in 0..MaxEpoch
    /\ opened \in 0..MaxEpoch
    /\ queue \in Seq(Response)
    /\ has_response \in BOOLEAN
    /\ mutex \in 0..MaxEpoch
    /\ client \in ClientStates
    /\ received \in Response \cup {NoResponse}
    /\ sent \in 0..MaxRequests
    /\ worker \in [Epochs -> WorkerStates]
    /\ hand \in [Epochs -> Response \cup {NoResponse}]
    /\ stop \in [Epochs -> BOOLEAN]
    /\ inFlight \in [Epochs -> Seq(Requests)]

Init ==
    /\ connection = 0
    /\ opened = 0
    /\ queue = <<>>
    /\ has_response = FALSE
    /\ mutex = 0
    /\ client = "idle"
    /\ received = NoResponse
    /\ sent = 0
    /\ worker = [e \in Epochs |-> "none"]
    /\ hand = [e \in Epochs |-> NoResponse]
    /\ stop = [e \in Epochs |-> FALSE]
    /\ inFlight = [e \in Epochs |-> <<>>]

-----------------------------------------------------------------------------
(* The client thread.                                                      *)

\* Connection::Connect.  That no websocket is open is a condition of its callers,
\* not of the code, which would replace connection_ and leave the open websocket
\* and its thread behind: SendRequest calls it only when !HasConnection(), and
\* ControlImp::Connect calls ConnectToGame once for a process, then again after
\* an attempt whose Receive timed out and so disconnected (assuming that a game
\* answers a ping with a ping).  A handshake that fails changes nothing.
Connect ==
    /\ client = "idle"
    /\ connection = 0
    /\ opened < MaxEpoch
    /\ opened' = opened + 1
    /\ connection' = opened + 1
    /\ worker' = [worker EXCEPT ![opened + 1] = "reading"]
    /\ UNCHANGED <<queue, has_response, mutex, client, received, sent, hand,
                   stop, inFlight>>

\* Connection::Send on an open websocket.  Several requests may be under way:
\* a ping is sent whatever is pending (ProtoInterface::PingGame).
Send ==
    /\ client = "idle"
    /\ connection # 0
    /\ sent < MaxRequests
    /\ sent' = sent + 1
    /\ inFlight' = [inFlight EXCEPT ![connection] = Append(@, sent + 1)]
    /\ UNCHANGED <<connection, opened, queue, has_response, mutex, client,
                   received, worker, hand, stop>>

\* Receive, up to the first evaluation of the wait's predicate.
ReceiveEnter ==
    /\ client = "idle"
    /\ mutex = 0
    /\ client' = IF queue # <<>> THEN "pop" ELSE "wait"
    /\ UNCHANGED <<connection, opened, queue, has_response, mutex, received,
                   sent, worker, hand, stop, inFlight>>

\* The condition was notified (or woke spuriously) and the predicate holds.
ReceiveWake ==
    /\ client = "wait"
    /\ mutex = 0
    /\ queue # <<>>
    /\ client' = "pop"
    /\ UNCHANGED <<connection, opened, queue, has_response, mutex, received,
                   sent, worker, hand, stop, inFlight>>

\* The deadline of wait_until passed and the predicate, evaluated under the
\* lock for the last time, is still false.
ReceiveTimeout ==
    /\ client = "wait"
    /\ mutex = 0
    /\ queue = <<>>
    /\ client' = "timedout"
    /\ UNCHANGED <<connection, opened, queue, has_response, mutex, received,
                   sent, worker, hand, stop, inFlight>>

\* PopResponse: the value of has_response_ once rest is what is left.
FlagAlwaysDown(rest) == FALSE                              \* mutant
FlagAfterPop(rest) == IF rest = <<>> THEN FALSE ELSE has_response

\* PopResponse takes the front of the queue.
Back(q) == q[Len(q)]                                       \* mutant
Front(q) == Head(q)

\* PopResponse.
PopResponse ==
    /\ client = "pop"
    /\ mutex = 0
    /\ queue # <<>>
    /\ received' = Front(queue)
    /\ queue' = Tail(queue)
    /\ has_response' = FlagAfterPop(Tail(queue))
    /\ client' = "idle"
    /\ UNCHANGED <<connection, opened, mutex, sent, worker, hand, stop,
                   inFlight>>

\* The websocket whose loop is told to stop.
StopNone == 0                                              \* mutant
Stopped == connection

\* Disconnect, first half: mg_close_connection raises the stop flag, after a
\* wait that timed out or because ProtoInterface::Quit asked for it.
StopWebsocket(from, to) ==
    /\ client = from
    /\ client' = to
    /\ stop' = [e \in Epochs |-> stop[e] \/ e = Stopped]
    /\ UNCHANGED <<connection, opened, queue, has_response, mutex, received,
                   sent, worker, hand, inFlight>>

\* mg_join_thread returns once the thread has run to its end.
NotJoined == TRUE                                          \* mutant
Joined == connection # 0 => worker[connection] = "exited"

\* Disconnect, second half: the civetweb thread has been joined and
\* connection_ is set to nullptr.  mg_close_connection ignores a null pointer.
JoinWorker(from, to) ==
    /\ client = from
    /\ Joined
    /\ client' = to
    /\ connection' = 0
    /\ UNCHANGED <<opened, queue, has_response, mutex, received, sent, worker,
                   hand, stop, inFlight>>

\* What queue_.clear() leaves.
KeepQueue == queue                                         \* mutant
EmptyQueue == <<>>

\* queue_.clear(), outside of the mutex, and has_response_ is left as it is.
\* The timeout callback, which nothing in the library sets, comes after it.
ClearQueue ==
    /\ client = "clear"
    /\ queue' = EmptyQueue
    /\ client' = "idle"
    /\ UNCHANGED <<connection, opened, has_response, mutex, received, sent,
                   worker, hand, stop, inFlight>>

Client ==
    \/ Connect
    \/ Send
    \/ ReceiveEnter
    \/ ReceiveWake
    \/ ReceiveTimeout
    \/ PopResponse
    \/ StopWebsocket("timedout", "join")
    \/ JoinWorker("join", "clear")
    \/ ClearQueue
    \/ StopWebsocket("idle", "quit")
    \/ JoinWorker("quit", "gone")

-----------------------------------------------------------------------------
(* The civetweb thread of websocket e.                                     *)

\* A frame arrives: the game answers its requests in order, at any time or
\* never.  The loop of read_websocket looks at the stop flag before each frame.
ReadFrame(e) ==
    /\ worker[e] = "reading"
    /\ ~stop[e]
    /\ inFlight[e] # <<>>
    /\ worker' = [worker EXCEPT ![e] = "parsed"]
    /\ hand' = [hand EXCEPT ![e] = [req |-> Head(inFlight[e]), via |-> e]]
    /\ inFlight' = [inFlight EXCEPT ![e] = Tail(@)]
    /\ UNCHANGED <<connection, opened, queue, has_response, mutex, client,
                   received, sent, stop>>

\* DataHandler: ParseFromArray failed, the frame is dropped.
DropFrame(e) ==
    /\ worker[e] = "parsed"
    /\ worker' = [worker EXCEPT ![e] = "reading"]
    /\ hand' = [hand EXCEPT ![e] = NoResponse]
    /\ UNCHANGED <<connection, opened, queue, has_response, mutex, client,
                   received, sent, stop, inFlight>>

\* PushResponse: lock, push_back and notify_one.
PushResponse(e) ==
    /\ worker[e] = "parsed"
    /\ mutex = 0
    /\ mutex' = e
    /\ queue' = Append(queue, hand[e])
    /\ worker' = [worker EXCEPT ![e] = "pushed"]
    /\ UNCHANGED <<connection, opened, has_response, client, received, sent,
                   hand, stop, inFlight>>

\* PushResponse: has_response_ = true and unlock.
RaiseFlag(e) ==
    /\ worker[e] = "pushed"
    /\ mutex' = 0
    /\ has_response' = TRUE
    /\ worker' = [worker EXCEPT ![e] = "reading"]
    /\ hand' = [hand EXCEPT ![e] = NoResponse]
    /\ UNCHANGED <<connection, opened, queue, client, received, sent, stop,
                   inFlight>>

\* read_websocket ends: it saw the stop flag, or the peer closed the socket.
LeaveLoop(e) ==
    /\ worker[e] = "reading"
    /\ worker' = [worker EXCEPT ![e] = "closing"]
    /\ UNCHANGED <<connection, opened, queue, has_response, mutex, client,
                   received, sent, hand, stop, inFlight>>

\* ConnectionClosedHandler returned, the thread ends.
ExitThread(e) ==
    /\ worker[e] = "closing"
    /\ worker' = [worker EXCEPT ![e] = "exited"]
    /\ UNCHANGED <<connection, opened, queue, has_response, mutex, client,
                   received, sent, hand, stop, inFlight>>

Worker(e) ==
    \/ ReadFrame(e)
    \/ DropFrame(e)
    \/ PushResponse(e)
    \/ RaiseFlag(e)
    \/ LeaveLoop(e)
    \/ ExitThread(e)

Next == Client \/ \E e \in Epochs : Worker(e)

Spec == Init /\ [][Next]_vars

\* The client thread is scheduled once it is inside a call, a wait reaches its
\* deadline, and a civetweb thread runs except while it blocks in its socket:
\* neither a frame nor the peer's closing the socket ever has to come.
Fairness ==
    /\ WF_vars(ReceiveWake)
    /\ WF_vars(ReceiveTimeout)
    /\ WF_vars(PopResponse)
    /\ WF_vars(StopWebsocket("timedout", "join"))
    /\ WF_vars(JoinWorker("join", "clear"))
    /\ WF_vars(JoinWorker("quit", "gone"))
    /\ WF_vars(ClearQueue)
    /\ \A e \in Epochs :
        /\ WF_vars(DropFrame(e) \/ PushResponse(e))
        /\ WF_vars(RaiseFlag(e))
        /\ WF_vars(stop[e] /\ LeaveLoop(e))
        /\ WF_vars(ExitThread(e))

FairSpec == Spec /\ Fairness

-----------------------------------------------------------------------------
(* Properties.                                                             *)

\* Between two calls, and while Receive waits, every queued response came
\* through the websocket that is open now: a response that lost the race
\* against the timeout of Receive cannot answer a request of the connection
\* that replaces it.  (Receive: Disconnect comes before queue_.clear().)
QueueIsCurrent ==
    client \in {"idle", "wait", "pop"} =>
        \A i \in DOMAIN queue : queue[i].via = connection

\* Only the thread of the open websocket can still touch the object: the
\* unlocked queue_.clear() races with nobody, and nobody pushes into a
\* destroyed Connection.
OneWriter ==
    \A e \in Epochs : e # connection => worker[e] \in {"none", "exited"}

\* PollResponse misses nothing: outside of a critical section a queued
\* response is announced by has_response_, on which the polling loops of the
\* coordinator decide whether to consume.
FlagRaised == mutex = 0 /\ queue # <<>> => has_response

\* A call that blocks returns, whatever the game and the network do: a Receive
\* that starts to wait, with a response or without, and the Disconnect of
\* ProtoInterface::Quit, which joins a thread.
CallsReturn ==
    /\ client = "wait" ~> client = "idle"
    /\ client = "quit" ~> client = "gone"

\* To its callers the threads and locks above are a ResponseBox: a timed-out
\* wait closes it at the moment the wait ends, although responses may be
\* pushed until the thread is joined.
Closing == client \in {"timedout", "join", "clear", "quit", "gone"}

Box == INSTANCE ResponseBox WITH
           current <- IF Closing THEN 0 ELSE connection,
           box <- IF Closing THEN <<>> ELSE queue

ImplementsBox == Box!BoxSpec

-----------------------------------------------------------------------------
(* The inductive invariant behind the safety properties.                   *)

\* Websockets are opened one after the other, and one thread is alive at most.
EpochInv ==
    /\ connection \in {0, opened}
    /\ \A e \in Epochs : worker[e] = "none" <=> e > opened
    /\ \A e \in Epochs : e > opened => inFlight[e] = <<>>
    /\ client \in {"clear", "gone"} => connection = 0
    /\ OneWriter

\* The mutex is held exactly by a thread inside PushResponse, and a pushed
\* response is announced or about to be.
LockInv ==
    /\ \A e \in Epochs : mutex = e <=> worker[e] = "pushed"
    /\ client = "pop" => queue # <<>>
    /\ queue # <<>> => has_response \/ mutex # 0

\* Whatever the client may still take came through the open websocket.
ViaInv ==
    /\ client \notin {"clear", "gone"} =>
           \A i \in DOMAIN queue : queue[i].via = connection
    /\ \A e \in Epochs : worker[e] = "parsed" =>
           hand[e] \in Response /\ hand[e].via = e

\* received, queue, hand and inFlight hold requests in increasing order.
OrderInv ==
    /\ received.req <= sent
    /\ \A i \in DOMAIN queue : received.req < queue[i].req /\ queue[i].req <= sent
    /\ \A i, j \in DOMAIN queue : i < j => queue[i].req < queue[j].req
    /\ \A e \in Epochs : worker[e] = "parsed" =>
        /\ received.req < hand[e].req /\ hand[e].req <= sent
        /\ \A i \in DOMAIN queue : queue[i].req < hand[e].req
        /\ \A k \in DOMAIN inFlight[e] : hand[e].req < inFlight[e][k]
    /\ \A e \in Epochs : e = connection =>
        \A k \in DOMAIN inFlight[e] :
            /\ received.req < inFlight[e][k] /\ inFlight[e][k] <= sent
            /\ \A i \in DOMAIN queue : queue[i].req < inFlight[e][k]
            /\ \A l \in DOMAIN inFlight[e] : k < l => inFlight[e][k] < inFlight[e][l]

IInv ==
    /\ TypeOK
    /\ EpochInv
    /\ LockInv
    /\ ViaInv
    /\ OrderInv
=============================================================================
