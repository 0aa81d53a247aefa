-------------------------------- MODULE Proxy --------------------------------
(***************************************************************************)
(* The proxy (src/examples/proxy.cc): bots connect to a Server as if it    *)
(* were the game, and the main thread forwards their requests, one after   *)
(* the other, through a Connection to the game (external).  Of that        *)
(* Connection the proxy uses what module ResponseBox promises: an answer,  *)
(* or a timeout after which there is none.                                 *)
(***************************************************************************)
EXTENDS Server

VARIABLES
    main,      \* where the main thread is
    link,      \* client.connection_ is not nullptr
    inGame,    \* the request the game works at
    answer,    \* the response it gave, in the queue of the Connection
    target     \* what SendResponse read from connections_

vars == <<server, main, link, inGame, answer, target>>
game == <<link, inGame, answer>>

MainStates == {"poll",      \* while (!PollKeyPress())
               "receive",   \* in client.Receive
               "reply",     \* the response is queued, SendResponse next
               "write",     \* SendResponse knows where to write
               "over"}      \* a key was pressed

TypeOK ==
    /\ ServerTypeOK
    /\ main \in MainStates
    /\ link \in BOOLEAN
    /\ inGame \in Message \cup {Nullptr}
    /\ answer \in Message \cup {Nullptr}
    /\ target \in SUBSET Workers

\* client.Connect may have failed: its result is not looked at.
Init ==
    /\ ServerInit
    /\ main = "poll"
    /\ link \in BOOLEAN
    /\ inGame = Nullptr
    /\ answer = Nullptr
    /\ target = {}

\* The program dies.
Crash ==
    /\ crashed' = TRUE
    /\ UNCHANGED <<connections, requests, responses, worker, socket, opened, asked,
                   got, sole, raced, main, game, target>>

\* SendRequest(client.connection_), and to the first bot when that is nullptr.
SendRequest ==
    /\ main = "poll"
    /\ requests # <<>>
    /\ requests' = Popped(requests)
    /\ \/ /\ link
          /\ inGame' = Head(requests)
          /\ UNCHANGED got
       \/ /\ ~link
          /\ \E w \in Front : got' = Written(w, Head(requests))
          /\ UNCHANGED inGame
    /\ main' = "receive"
    /\ UNCHANGED <<connections, responses, worker, socket, opened, asked, sole, raced, crashed,
                   link, answer, target>>

\* The game answers, if it does.
GameAnswers ==
    /\ inGame # Nullptr
    /\ answer' = inGame
    /\ inGame' = Nullptr
    /\ UNCHANGED <<server, main, link, target>>

\* Receive and QueueResponse.
Receive ==
    /\ main = "receive"
    /\ answer # Nullptr
    /\ responses' = Append(responses, answer)
    /\ answer' = Nullptr
    /\ main' = "reply"
    /\ UNCHANGED <<connections, requests, worker, socket, opened, asked, got, sole,
                   raced, crashed, link, inGame, target>>

NoTimeout == FALSE                                         \* mutant

\* Receive gives up, disconnects and leaves response == nullptr.
ReceiveTimeout ==
    /\ main = "receive"
    /\ answer = Nullptr
    /\ responses' = Append(responses, Nullptr)
    /\ link' = FALSE
    /\ inGame' = Nullptr
    /\ main' = "reply"
    /\ UNCHANGED <<connections, requests, worker, socket, opened, asked, got, sole,
                   raced, crashed, answer, target>>

\* SendResponse evaluates its argument ...
ReadFront ==
    /\ main = "reply"
    /\ \E w \in Front : target' = {w}
    /\ main' = "write"
    /\ UNCHANGED <<server, game>>

\* ... and SendMessage writes the front of the queue.
WriteResponse ==
    /\ main = "write"
    /\ Head(responses) # Nullptr
    /\ \E w \in target : got' = Written(w, Head(responses))
    /\ target' = {}
    /\ responses' = Popped(responses)
    /\ main' = "poll"
    /\ UNCHANGED <<connections, requests, worker, socket, opened, asked, sole, raced, crashed,
                   game>>

\* front() of a vector that is empty or being changed, or ByteSize() of nullptr.
UndefinedBehaviour ==
    /\ \/ main = "reply" /\ ~FrontIsSafe
       \/ main = "poll" /\ requests # <<>> /\ ~link /\ ~FrontIsSafe
       \/ main = "write" /\ Head(responses) = Nullptr
    /\ Crash

KeyPressed ==
    /\ main = "poll"
    /\ main' = "over"
    /\ UNCHANGED <<server, game, target>>

Main ==
    /\ ~crashed
    /\ \/ SendRequest
       \/ Receive
       \/ ReceiveTimeout
       \/ ReadFront
       \/ WriteResponse
       \/ UndefinedBehaviour
       \/ KeyPressed

Game == ~crashed /\ GameAnswers

Workers_ == main # "over" /\ (\E w \in Workers : Worker(w)) /\ UNCHANGED <<main, game, target>>

Next == Main \/ Game \/ Workers_

Spec == Init /\ [][Next]_vars

\* The main thread goes on, and its Receive reaches its deadline.
Fairness ==
    WF_vars(~crashed /\ (\/ SendRequest \/ Receive \/ ReceiveTimeout \/ ReadFront
                         \/ WriteResponse \/ UndefinedBehaviour))

FairSpec == Spec /\ Fairness

-----------------------------------------------------------------------------
(* Properties.                                                             *)

\* No request is answered twice, and every bot gets what is written to it in
\* the order of the requests, whichever bots they are from: the two queues and
\* Receive keep in step, also over websockets that come and go.
AnswersInOrder ==
    /\ \A s \in Sockets : \A i, j \in DOMAIN got[s] : i < j => got[s][i].id < got[s][j].id
    /\ \A s, t \in Sockets : \A i \in DOMAIN got[s], j \in DOMAIN got[t] :
           got[s][i] = got[t][j] => s = t

\* A bot that was alone since it connected gets the answers to its requests,
\* and nothing it does ends the proxy as long as the game answers: also when
\* bots before it came and went, several at a time too, and whichever worker
\* thread serves it.  (A connection that a race left in the vector is its front
\* for ever after.)
LoneBotIsServed ==
    [][\A m \in Message :
           /\ main \in {"reply", "write"} /\ Head(responses) = m
           /\ m.from = sole /\ IsOpen(sole) /\ ~raced
           => /\ ~crashed'
              /\ WriteResponse => got'[sole] = Append(got[sole], m)]_vars

\* A request is answered, to some bot, unless the proxy ends.
Waits(n) == \E i \in DOMAIN requests : requests[i].id = n
RequestsAreAnswered ==
    \A n \in 1..MaxRequests :
        asked >= n ~> (~Waits(n) /\ main = "poll") \/ main = "over" \/ crashed
=============================================================================
