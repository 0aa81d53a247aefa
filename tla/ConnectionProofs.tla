---------------------------- MODULE ConnectionProofs ----------------------------
(***************************************************************************)
(* The safety properties of Connection for any number of websockets and    *)
(* requests, and that Connection implements ResponseBox.                   *)
(***************************************************************************)
EXTENDS Connection, TLAPS

USE BoundsAssumption

-----------------------------------------------------------------------------
(* Sequences.                                                              *)

\* The elements of a sequence to which one element was appended.
LEMMA AppendElements ==
    ASSUME NEW S, NEW s \in Seq(S), NEW x \in S
    PROVE  /\ Append(s, x) \in Seq(S)
           /\ DOMAIN s = 1..Len(s)
           /\ DOMAIN Append(s, x) = 1..(Len(s) + 1)
           /\ \A i \in DOMAIN s : Append(s, x)[i] = s[i]
           /\ Append(s, x)[Len(s) + 1] = x
           /\ Append(s, x) # <<>>
  OBVIOUS

\* The elements of the tail of a nonempty sequence.
LEMMA TailElements ==
    ASSUME NEW S, NEW s \in Seq(S), s # <<>>
    PROVE  /\ Tail(s) \in Seq(S)
           /\ Head(s) = s[1]
           /\ Head(s) \in S
           /\ 1 \in DOMAIN s
           /\ DOMAIN Tail(s) = 1..(Len(s) - 1)
           /\ \A i \in DOMAIN Tail(s) :
                /\ i + 1 \in DOMAIN s
                /\ 1 < i + 1
                /\ Tail(s)[i] = s[i + 1]
  OBVIOUS

-----------------------------------------------------------------------------
(* IInv is inductive: one lemma per part.                                  *)

LEMMA InitIInv == Init => IInv
  <1> SUFFICES ASSUME Init PROVE IInv
    OBVIOUS
  <1> USE DEF Init, Epochs
  <1>1. TypeOK
    <2>1. inFlight \in [Epochs -> Seq(Requests)] /\ queue \in Seq(Response)
      <3>1. <<>> \in Seq(Requests) /\ <<>> \in Seq(Response)
        OBVIOUS
      <3>2. QED
        BY ONLY <3>1, Init DEF Init
    <2>2. worker \in [Epochs -> WorkerStates] /\ client \in ClientStates
      BY DEF ClientStates, WorkerStates
    <2>3. hand \in [Epochs -> Response \cup {NoResponse}] /\ stop \in [Epochs -> BOOLEAN]
      OBVIOUS
    <2>4. connection \in 0..MaxEpoch /\ opened \in 0..MaxEpoch /\ mutex \in 0..MaxEpoch
      OBVIOUS
    <2>5. sent \in 0..MaxRequests /\ received \in Response \cup {NoResponse}
      OBVIOUS
    <2>6. has_response \in BOOLEAN
      OBVIOUS
    <2>7. QED
      BY ONLY <2>1, <2>2, <2>3, <2>4, <2>5, <2>6 DEF TypeOK
  <1>2. EpochInv
    BY DEF EpochInv, OneWriter
  <1>3. LockInv /\ ViaInv
    BY DEF LockInv, ViaInv
  <1>4. OrderInv
    BY DEF OrderInv, NoResponse
  <1>5. QED
    BY <1>1, <1>2, <1>3, <1>4 DEF IInv

LEMMA NextTypeOK == IInv /\ [Next]_vars => TypeOK'
  <1> SUFFICES ASSUME IInv, [Next]_vars PROVE TypeOK'
    OBVIOUS
  <1> USE DEF IInv, TypeOK, ClientStates, WorkerStates, Epochs, Requests
  <1>1. CASE Connect
    BY <1>1 DEF Connect
  <1>2. CASE Send
    BY <1>2 DEF Send
  <1>3. CASE ReceiveEnter \/ ReceiveWake \/ ReceiveTimeout
    BY <1>3 DEF ReceiveEnter, ReceiveWake, ReceiveTimeout
  <1>4. CASE PopResponse
    <2>1. Head(queue) \in Response /\ Tail(queue) \in Seq(Response)
      BY <1>4, TailElements DEF PopResponse
    <2>2. QED
      BY <1>4, <2>1 DEF PopResponse, Front, FlagAfterPop
  <1>5. ASSUME NEW from, NEW to \in {"join", "quit"}, StopWebsocket(from, to)
        PROVE  TypeOK'
    BY <1>5 DEF StopWebsocket
  <1>6. ASSUME NEW from, NEW to \in {"clear", "gone"}, JoinWorker(from, to)
        PROVE  TypeOK'
    BY <1>6 DEF JoinWorker
  <1>7. CASE ClearQueue
    BY <1>7 DEF ClearQueue, EmptyQueue
  <1>8. ASSUME NEW e \in Epochs, ReadFrame(e)
        PROVE  TypeOK'
    <2>1. Head(inFlight[e]) \in Requests /\ Tail(inFlight[e]) \in Seq(Requests)
      BY <1>8, TailElements DEF ReadFrame
    <2>2. [req |-> Head(inFlight[e]), via |-> e] \in Response
      BY <2>1 DEF Response
    <2>3. QED
      BY <1>8, <2>1, <2>2 DEF ReadFrame
  <1>9. ASSUME NEW e \in Epochs, PushResponse(e)
        PROVE  TypeOK'
    BY <1>9, AppendElements DEF PushResponse, ViaInv
  <1>10. ASSUME NEW e \in Epochs, \/ DropFrame(e) \/ RaiseFlag(e)
                                  \/ LeaveLoop(e) \/ ExitThread(e)
         PROVE  TypeOK'
    <2>1. CASE DropFrame(e)
      BY <2>1 DEF DropFrame
    <2>2. CASE RaiseFlag(e)
      BY <2>2 DEF RaiseFlag
    <2>3. CASE LeaveLoop(e) \/ ExitThread(e)
      BY <2>3 DEF LeaveLoop, ExitThread
    <2>4. QED
      BY <1>10, <2>1, <2>2, <2>3
  <1>11. CASE UNCHANGED vars
    BY <1>11 DEF vars
  <1>12. QED
    BY <1>1, <1>2, <1>3, <1>4, <1>5, <1>6, <1>7, <1>8, <1>9, <1>10, <1>11
       DEF Next, Client, Worker

LEMMA NextEpochInv == IInv /\ [Next]_vars => EpochInv'
  <1> SUFFICES ASSUME IInv, [Next]_vars PROVE EpochInv'
    OBVIOUS
  <1> USE DEF IInv, TypeOK, EpochInv, OneWriter, Epochs
  <1>1. CASE Connect
    <2> USE <1>1 DEF Connect
    <2>1. /\ opened \in Nat /\ opened + 1 \in 1..MaxEpoch
          /\ opened' = opened + 1 /\ connection' = opened + 1
          /\ inFlight' = inFlight
          /\ client' = "idle"
      OBVIOUS
    <2>2. \A e \in 1..MaxEpoch :
            worker'[e] = IF e = opened + 1 THEN "reading" ELSE worker[e]
      OBVIOUS
    <2>3. \A e \in 1..MaxEpoch : worker'[e] = "none" <=> e > opened + 1
      <3> TAKE e \in 1..MaxEpoch
      <3>1. worker[e] = "none" <=> e > opened
        OBVIOUS
      <3>2. QED
        BY ONLY <2>1, <2>2, <3>1
    <2>4. \A e \in 1..MaxEpoch : e # opened + 1 => worker'[e] \in {"none", "exited"}
      BY <2>1, <2>2
    <2>5. QED
      BY <2>1, <2>3, <2>4
  <1>2. CASE Send
    <2>1. \A e \in 1..MaxEpoch : e # connection => inFlight'[e] = inFlight[e]
      BY <1>2 DEF Send
    <2>2. connection = opened /\ UNCHANGED <<connection, opened, client, worker>>
      BY <1>2 DEF Send
    <2>3. ASSUME NEW e \in 1..MaxEpoch, e > opened
          PROVE  inFlight'[e] = <<>>
      <3>1. inFlight[e] = <<>> /\ e # opened
        BY <2>3
      <3>2. QED
        BY ONLY <2>1, <2>2, <3>1
    <2>4. QED
      BY <2>2, <2>3
  <1>3. CASE \/ ReceiveEnter \/ ReceiveWake \/ ReceiveTimeout \/ PopResponse
             \/ StopWebsocket("timedout", "join") \/ StopWebsocket("idle", "quit")
             \/ ClearQueue
    BY <1>3 DEF ReceiveEnter, ReceiveWake, ReceiveTimeout, PopResponse,
                StopWebsocket, ClearQueue
  <1>4. CASE JoinWorker("join", "clear") \/ JoinWorker("quit", "gone")
    BY <1>4 DEF JoinWorker, Joined
  <1>5. ASSUME NEW e \in Epochs, ReadFrame(e)
        PROVE  EpochInv'
    BY <1>5 DEF ReadFrame
  <1>6. ASSUME NEW e \in Epochs, \/ PushResponse(e) \/ DropFrame(e) \/ RaiseFlag(e)
                                 \/ LeaveLoop(e) \/ ExitThread(e)
        PROVE  EpochInv'
    BY <1>6 DEF PushResponse, DropFrame, RaiseFlag, LeaveLoop, ExitThread
  <1>7. CASE UNCHANGED vars
    BY <1>7 DEF vars
  <1>8. QED
    BY <1>1, <1>2, <1>3, <1>4, <1>5, <1>6, <1>7 DEF Next, Client, Worker

LEMMA NextLockInv == IInv /\ [Next]_vars => LockInv'
  <1> SUFFICES ASSUME IInv, [Next]_vars PROVE LockInv'
    OBVIOUS
  <1> USE DEF IInv, TypeOK, LockInv, Epochs
  <1>1. CASE Connect
    <2>1. \A e \in 1..MaxEpoch :
            worker'[e] = IF e = opened + 1 THEN "reading" ELSE worker[e]
      BY <1>1 DEF Connect
    <2>2. opened + 1 \in 1..MaxEpoch /\ worker[opened + 1] = "none"
      BY <1>1 DEF Connect, EpochInv
    <2>3. QED
      BY <1>1, <2>1, <2>2 DEF Connect
  <1>2. CASE \/ Send \/ ReceiveEnter \/ ReceiveWake \/ ReceiveTimeout
             \/ StopWebsocket("timedout", "join") \/ StopWebsocket("idle", "quit")
             \/ JoinWorker("join", "clear") \/ JoinWorker("quit", "gone") \/ ClearQueue
    BY <1>2 DEF Send, ReceiveEnter, ReceiveWake, ReceiveTimeout, StopWebsocket,
                JoinWorker, ClearQueue, EmptyQueue
  <1>3. CASE PopResponse
    BY <1>3 DEF PopResponse, FlagAfterPop
  <1>4. ASSUME NEW e \in Epochs, PushResponse(e)
        PROVE  LockInv'
    <2>1. Append(queue, hand[e]) # <<>>
      BY <1>4, AppendElements DEF PushResponse, ViaInv
    <2>2. \A f \in 1..MaxEpoch :
            worker'[f] = IF f = e THEN "pushed" ELSE worker[f]
      BY <1>4 DEF PushResponse
    <2>3. \A f \in 1..MaxEpoch : worker[f] # "pushed"
      BY <1>4 DEF PushResponse
    <2>4. QED
      BY <1>4, <2>1, <2>2, <2>3 DEF PushResponse
  <1>5. ASSUME NEW e \in Epochs, RaiseFlag(e)
        PROVE  LockInv'
    BY <1>5 DEF RaiseFlag
  <1>6. ASSUME NEW e \in Epochs, \/ ReadFrame(e) \/ DropFrame(e)
                                 \/ LeaveLoop(e) \/ ExitThread(e)
        PROVE  LockInv'
    BY <1>6 DEF ReadFrame, DropFrame, LeaveLoop, ExitThread
  <1>7. CASE UNCHANGED vars
    BY <1>7 DEF vars
  <1>8. QED
    BY <1>1, <1>2, <1>3, <1>4, <1>5, <1>6, <1>7 DEF Next, Client, Worker

LEMMA NextViaInv == IInv /\ [Next]_vars => ViaInv'
  <1> SUFFICES ASSUME IInv, [Next]_vars PROVE ViaInv'
    OBVIOUS
  <1> USE DEF IInv, ViaInv
  <1>1. CASE Connect
    <2>1. queue = <<>>
      <3>1. ASSUME queue # <<>> PROVE FALSE
        <4>1. 1 \in DOMAIN queue /\ queue[1].via = 0 /\ queue[1] \in Response
          BY <1>1, <3>1, TailElements DEF Connect, TypeOK
        <4>2. QED
          BY <4>1 DEF Response, Epochs
      <3>2. QED
        BY <3>1
    <2>2. \A e \in Epochs : worker'[e] = "parsed" => worker[e] = "parsed"
      BY <1>1 DEF Connect, TypeOK
    <2>3. QED
      BY <1>1, <2>1, <2>2 DEF Connect
  <1>2. CASE \/ Send \/ ReceiveEnter \/ ReceiveWake \/ ReceiveTimeout
             \/ StopWebsocket("timedout", "join") \/ StopWebsocket("idle", "quit")
             \/ JoinWorker("join", "clear") \/ JoinWorker("quit", "gone")
    BY <1>2 DEF Send, ReceiveEnter, ReceiveWake, ReceiveTimeout, StopWebsocket, JoinWorker
  <1>3. CASE PopResponse
    <2>1. \A i \in DOMAIN queue' : queue'[i].via = connection
      BY <1>3, TailElements DEF PopResponse, TypeOK
    <2>2. QED
      BY <1>3, <2>1 DEF PopResponse
  <1>4. CASE ClearQueue
    BY <1>4 DEF ClearQueue, EmptyQueue
  <1>5. ASSUME NEW e \in Epochs, ReadFrame(e)
        PROVE  ViaInv'
    <2>1. Head(inFlight[e]) \in Requests
      BY <1>5, TailElements DEF ReadFrame, TypeOK
    <2>2. hand'[e] \in Response /\ hand'[e].via = e
      BY <1>5, <2>1 DEF ReadFrame, Response, TypeOK
    <2>3. \A f \in Epochs : f # e => worker'[f] = worker[f] /\ hand'[f] = hand[f]
      BY <1>5 DEF ReadFrame, TypeOK
    <2>4. UNCHANGED <<queue, client, connection>>
      BY <1>5 DEF ReadFrame
    <2>5. QED
      BY <2>2, <2>3, <2>4
  <1>6. ASSUME NEW e \in Epochs, PushResponse(e)
        PROVE  ViaInv'
    <2>1. e = connection /\ hand[e] \in Response /\ hand[e].via = e
      BY <1>6 DEF PushResponse, EpochInv, OneWriter
    <2>2. \A i \in DOMAIN queue' :
             \/ i \in DOMAIN queue /\ queue'[i] = queue[i]
             \/ queue'[i] = hand[e]
      BY <1>6, <2>1, AppendElements DEF PushResponse, TypeOK
    <2>3. \A f \in Epochs : worker'[f] = "parsed" => worker[f] = "parsed"
      BY <1>6 DEF PushResponse, TypeOK
    <2>4. UNCHANGED <<client, connection, hand>>
      BY <1>6 DEF PushResponse
    <2>5. QED
      BY <2>1, <2>2, <2>3, <2>4
  <1>7. ASSUME NEW e \in Epochs, DropFrame(e) \/ RaiseFlag(e)
        PROVE  ViaInv'
    <2>1. \A f \in Epochs :
             worker'[f] = "parsed" => worker[f] = "parsed" /\ hand'[f] = hand[f]
      BY <1>7 DEF DropFrame, RaiseFlag, TypeOK
    <2>2. UNCHANGED <<queue, client, connection>>
      BY <1>7 DEF DropFrame, RaiseFlag
    <2>3. QED
      BY <2>1, <2>2
  <1>8. ASSUME NEW e \in Epochs, LeaveLoop(e) \/ ExitThread(e)
        PROVE  ViaInv'
    <2>1. \A f \in Epochs : worker'[f] = "parsed" => worker[f] = "parsed"
      BY <1>8 DEF LeaveLoop, ExitThread, TypeOK
    <2>2. QED
      BY <1>8, <2>1 DEF LeaveLoop, ExitThread
  <1>9. CASE UNCHANGED vars
    BY <1>9 DEF vars
  <1>10. QED
    BY <1>1, <1>2, <1>3, <1>4, <1>5, <1>6, <1>7, <1>8, <1>9 DEF Next, Client, Worker

LEMMA NextOrderInv == IInv /\ [Next]_vars => OrderInv'
  <1> SUFFICES ASSUME IInv, [Next]_vars PROVE OrderInv'
    OBVIOUS
  <1> USE DEF IInv
  <1>1. CASE Connect
    <2>1. inFlight[connection'] = <<>> /\ connection' \in Epochs
      BY <1>1 DEF Connect, TypeOK, EpochInv, Epochs
    <2>2. \A e \in Epochs : worker'[e] = "parsed" => worker[e] = "parsed"
      BY <1>1 DEF Connect, TypeOK
    <2>3. UNCHANGED <<queue, received, sent, hand, inFlight>>
      BY <1>1 DEF Connect
    <2>4. QED
      BY <2>1, <2>2, <2>3 DEF OrderInv
  <1>2. CASE Send
    <2> DEFINE old == inFlight[connection]
    <2>1. /\ connection \in Epochs
          /\ sent \in Nat /\ sent' = sent + 1 /\ sent' \in Requests
          /\ received.req \in Nat
          /\ UNCHANGED <<connection, queue, received, hand, worker>>
      BY <1>2 DEF Send, TypeOK, Epochs, Requests, Response, NoResponse
    <2>2. /\ \A i \in DOMAIN queue : queue[i].req \in Nat
          /\ \A e \in Epochs : hand[e].req \in Nat
          /\ \A e \in Epochs : \A k \in DOMAIN inFlight[e] : inFlight[e][k] \in Nat
      <3>1. \A r \in Response \cup {NoResponse} : r.req \in Nat
        BY DEF Response, NoResponse, Requests
      <3>2. \A i \in DOMAIN queue : queue[i] \in Response
        BY DEF TypeOK
      <3>3. \A e \in Epochs : hand[e] \in Response \cup {NoResponse}
        BY DEF TypeOK
      <3>4. \A e \in Epochs : \A k \in DOMAIN inFlight[e] : inFlight[e][k] \in Requests
        BY DEF TypeOK
      <3>5. QED
        BY <3>1, <3>2, <3>3, <3>4 DEF Requests
    <2>3. /\ inFlight'[connection] = Append(old, sent')
          /\ \A e \in Epochs : e # connection => inFlight'[e] = inFlight[e]
      BY <1>2, <2>1 DEF Send, TypeOK
    <2>4. /\ DOMAIN old = 1..Len(old) /\ Len(old) \in Nat
          /\ DOMAIN Append(old, sent') = 1..(Len(old) + 1)
          /\ \A k \in DOMAIN old : Append(old, sent')[k] = old[k]
          /\ Append(old, sent')[Len(old) + 1] = sent + 1
      BY <2>1, AppendElements DEF TypeOK
    <2>5. \A k \in DOMAIN inFlight'[connection] :
             \/ k \in DOMAIN old /\ inFlight'[connection][k] = old[k]
             \/ k = Len(old) + 1 /\ inFlight'[connection][k] = sent + 1
      BY <2>3, <2>4
    <2>6. /\ received.req < sent'
          /\ \A i \in DOMAIN queue : received.req < queue[i].req /\ queue[i].req < sent'
          /\ \A e \in Epochs : worker[e] = "parsed" => hand[e].req < sent'
          /\ \A k \in DOMAIN old : old[k] < sent'
      BY <2>1, <2>2 DEF OrderInv
    <2>7. \A e \in Epochs : worker[e] = "parsed" =>
            \A k \in DOMAIN inFlight'[e] : hand[e].req < inFlight'[e][k]
      BY <2>1, <2>2, <2>3, <2>5, <2>6 DEF OrderInv
    <2>8. \A k \in DOMAIN inFlight'[connection] :
            /\ received.req < inFlight'[connection][k] /\ inFlight'[connection][k] <= sent'
            /\ \A i \in DOMAIN queue : queue[i].req < inFlight'[connection][k]
            /\ \A l \in DOMAIN inFlight'[connection] :
                 k < l => inFlight'[connection][k] < inFlight'[connection][l]
      BY <2>1, <2>2, <2>4, <2>5, <2>6 DEF OrderInv
    <2>9. QED
      BY <2>1, <2>2, <2>6, <2>7, <2>8 DEF OrderInv
  <1>3. CASE \/ ReceiveEnter \/ ReceiveWake \/ ReceiveTimeout
             \/ StopWebsocket("timedout", "join") \/ StopWebsocket("idle", "quit")
    BY <1>3 DEF OrderInv, ReceiveEnter, ReceiveWake, ReceiveTimeout, StopWebsocket
  <1>4. CASE JoinWorker("join", "clear") \/ JoinWorker("quit", "gone")
    BY <1>4 DEF OrderInv, JoinWorker, Epochs
  <1>5. CASE ClearQueue
    BY <1>5 DEF OrderInv, ClearQueue, EmptyQueue
  <1>6. CASE PopResponse
    <2>1. /\ received' = queue[1] /\ 1 \in DOMAIN queue
          /\ \A i \in DOMAIN queue' :
               i + 1 \in DOMAIN queue /\ 1 < i + 1 /\ queue'[i] = queue[i + 1]
          /\ DOMAIN queue' \subseteq Int
      BY <1>6, TailElements DEF PopResponse, Front, TypeOK
    <2>2. UNCHANGED <<connection, sent, worker, hand, inFlight>>
      BY <1>6 DEF PopResponse
    <2>3. QED
      BY <2>1, <2>2 DEF OrderInv
  <1>7. ASSUME NEW e \in Epochs, ReadFrame(e)
        PROVE  OrderInv'
    <2>1. e = connection
      BY <1>7 DEF ReadFrame, EpochInv, OneWriter
    <2>2. /\ hand'[e].req = inFlight[e][1] /\ 1 \in DOMAIN inFlight[e]
          /\ \A k \in DOMAIN inFlight'[e] :
               /\ k + 1 \in DOMAIN inFlight[e] /\ 1 < k + 1
               /\ inFlight'[e][k] = inFlight[e][k + 1]
          /\ DOMAIN inFlight'[e] \subseteq Int
      BY <1>7, TailElements DEF ReadFrame, TypeOK
    <2>3. \A f \in Epochs : f # e =>
            worker'[f] = worker[f] /\ hand'[f] = hand[f] /\ inFlight'[f] = inFlight[f]
      BY <1>7 DEF ReadFrame, TypeOK
    <2>4. UNCHANGED <<connection, queue, received, sent>>
      BY <1>7 DEF ReadFrame
    <2>5. QED
      BY <2>1, <2>2, <2>3, <2>4 DEF OrderInv
  <1>8. ASSUME NEW e \in Epochs, PushResponse(e)
        PROVE  OrderInv'
    <2>1. e = connection /\ hand[e] \in Response
      BY <1>8 DEF PushResponse, EpochInv, OneWriter, ViaInv
    <2>2. /\ \A i \in DOMAIN queue' :
               \/ i \in 1..Len(queue) /\ i \in DOMAIN queue /\ queue'[i] = queue[i]
               \/ i = Len(queue) + 1 /\ queue'[i] = hand[e]
          /\ Len(queue) \in Nat
      BY <1>8, <2>1, AppendElements DEF PushResponse, TypeOK
    <2>3. \A f \in Epochs : worker'[f] # "parsed"
      BY <1>8, <2>1 DEF PushResponse, TypeOK, EpochInv, OneWriter
    <2>4. UNCHANGED <<connection, received, sent, hand, inFlight>>
      BY <1>8 DEF PushResponse
    <2>5. \A i, j \in DOMAIN queue' : i < j => queue'[i].req < queue'[j].req
      BY <1>8, <2>2 DEF OrderInv, PushResponse
    <2>6. QED
      BY <1>8, <2>1, <2>2, <2>3, <2>4, <2>5 DEF OrderInv, PushResponse
  <1>9. ASSUME NEW e \in Epochs, \/ DropFrame(e) \/ RaiseFlag(e)
                                 \/ LeaveLoop(e) \/ ExitThread(e)
        PROVE  OrderInv'
    <2>1. \A f \in Epochs :
             worker'[f] = "parsed" => worker[f] = "parsed" /\ hand'[f] = hand[f]
      BY <1>9 DEF DropFrame, RaiseFlag, LeaveLoop, ExitThread, TypeOK
    <2>2. UNCHANGED <<connection, queue, received, sent, inFlight>>
      BY <1>9 DEF DropFrame, RaiseFlag, LeaveLoop, ExitThread
    <2>3. QED
      BY <2>1, <2>2 DEF OrderInv
  <1>10. CASE UNCHANGED vars
    BY <1>10 DEF vars, OrderInv
  <1>11. QED
    BY <1>1, <1>2, <1>3, <1>4, <1>5, <1>6, <1>7, <1>8, <1>9, <1>10
       DEF Next, Client, Worker

-----------------------------------------------------------------------------
(* The theorems.                                                           *)

\* The inductive invariant holds in every reachable state of a Connection,
\* whatever the interleaving of the client thread and the civetweb threads.
THEOREM Invariance == Spec => []IInv
  <1>1. IInv /\ [Next]_vars => IInv'
    BY NextTypeOK, NextEpochInv, NextLockInv, NextViaInv, NextOrderInv DEF IInv
  <1>2. QED
    BY InitIInv, <1>1, PTL DEF Spec

\* Type correctness of the queue, the flag, the mutex and the threads.
THEOREM TypeCorrectness == Spec => []TypeOK
  <1>1. IInv => TypeOK
    BY DEF IInv
  <1>2. QED
    BY Invariance, <1>1, PTL

\* After a timeout no response of the old websocket is left for a Receive on
\* the new one: Receive disconnects, hence joins the thread, before it clears.
THEOREM NoStaleResponse == Spec => []QueueIsCurrent
  <1>1. IInv => QueueIsCurrent
    BY DEF IInv, ViaInv, QueueIsCurrent
  <1>2. QED
    BY Invariance, <1>1, PTL

\* The unlocked queue_.clear() and the destructor race with no civetweb thread.
THEOREM ClearIsExclusive == Spec => []OneWriter
  <1>1. IInv => OneWriter
    BY DEF IInv, EpochInv
  <1>2. QED
    BY Invariance, <1>1, PTL

\* PollResponse never misses a response that is in the queue.
THEOREM PollMissesNothing == Spec => []FlagRaised
  <1>1. IInv => FlagRaised
    BY DEF IInv, LockInv, FlagRaised
  <1>2. QED
    BY Invariance, <1>1, PTL

-----------------------------------------------------------------------------
(* Connection implements ResponseBox.                                      *)

LEMMA InitBox == Init => Box!BoxInit
  BY DEF Init, Box!BoxInit, Closing, NoResponse, Box!NoResponse

\* The response a civetweb thread pushes is newer than everything in the box.
LEMMA PushedIsNewest ==
    ASSUME IInv, NEW e \in Epochs, PushResponse(e), ~Closing
    PROVE  hand[e] \in Response /\ hand[e].via = connection /\ hand[e].req > Box!Newest
  <1>1. e = connection /\ hand[e] \in Response /\ hand[e].via = e
    BY DEF IInv, PushResponse, ViaInv, EpochInv, OneWriter
  <1>2. /\ received.req < hand[e].req
        /\ \A i \in DOMAIN queue : queue[i].req < hand[e].req
    BY DEF IInv, PushResponse, OrderInv
  <1>3. /\ hand[e].req \in Nat /\ received.req \in Nat
        /\ \A i \in DOMAIN queue : queue[i].req \in Nat
    <2>1. \A r \in Response \cup {NoResponse} : r.req \in Nat
      BY DEF Response, NoResponse, Requests
    <2>2. \A i \in DOMAIN queue : queue[i] \in Response
      BY DEF IInv, TypeOK
    <2>3. QED
      BY <1>1, <2>1, <2>2 DEF IInv, TypeOK
  <1>4. queue # <<>> => Len(queue) \in DOMAIN queue
    BY DEF IInv, TypeOK
  <1>5. Box!Newest = IF queue = <<>> THEN received.req ELSE queue[Len(queue)].req
    BY DEF Box!Newest, Closing
  <1>6. QED
    BY <1>1, <1>2, <1>3, <1>4, <1>5

LEMMA NextBox == IInv /\ [Next]_vars => [Box!BoxNext]_(Box!boxVars)
  <1> SUFFICES ASSUME IInv, [Next]_vars PROVE [Box!BoxNext]_(Box!boxVars)
    OBVIOUS
  <1> USE DEF Closing, Box!boxVars, Box!BoxNext
  <1>1. CASE Connect
    BY <1>1 DEF Connect, Box!Open
  <1>2. CASE Send \/ ReceiveEnter \/ ReceiveWake
    BY <1>2 DEF Send, ReceiveEnter, ReceiveWake
  <1>3. CASE ReceiveTimeout
    BY <1>3 DEF ReceiveTimeout, Box!Expire
  <1>4. CASE PopResponse
    BY <1>4 DEF PopResponse, Front, Box!Take
  <1>5. CASE StopWebsocket("timedout", "join")
    BY <1>5 DEF StopWebsocket
  <1>6. CASE JoinWorker("join", "clear") \/ JoinWorker("quit", "gone")
    BY <1>6 DEF JoinWorker
  <1>7. CASE ClearQueue
    BY <1>7 DEF IInv, EpochInv, ClearQueue, EmptyQueue
  <1>8. CASE StopWebsocket("idle", "quit")
    BY <1>8 DEF StopWebsocket, Box!Close
  <1>9. ASSUME NEW e \in Epochs, PushResponse(e)
        PROVE  [Box!BoxNext]_(Box!boxVars)
    <2>1. UNCHANGED <<connection, opened, received, client>>
      BY <1>9 DEF PushResponse
    <2>2. CASE Closing
      BY <2>1, <2>2
    <2>3. CASE ~Closing
      <3>1. hand[e] \in Response /\ hand[e].via = connection /\ hand[e].req > Box!Newest
        BY <1>9, <2>3, PushedIsNewest
      <3>2. connection # 0 /\ queue' = Append(queue, hand[e])
        BY <1>9, <3>1 DEF PushResponse, Response, Epochs
      <3>3. Box!Deliver
        BY <2>1, <2>3, <3>1, <3>2
           DEF Box!Deliver, Response, Box!Response, Epochs, Requests
      <3>4. QED
        BY <3>3
    <2>4. QED
      BY <2>2, <2>3
  <1>10. ASSUME NEW e \in Epochs, \/ ReadFrame(e) \/ DropFrame(e) \/ RaiseFlag(e)
                                  \/ LeaveLoop(e) \/ ExitThread(e)
         PROVE  [Box!BoxNext]_(Box!boxVars)
    BY <1>10 DEF ReadFrame, DropFrame, RaiseFlag, LeaveLoop, ExitThread
  <1>11. CASE UNCHANGED vars
    BY <1>11 DEF vars
  <1>12. QED
    BY <1>1, <1>2, <1>3, <1>4, <1>5, <1>6, <1>7, <1>8, <1>9, <1>10, <1>11
       DEF Next, Client, Worker

\* To the layers above, Connection with its threads is a ResponseBox: responses
\* come in the order of their requests, each through the websocket in use, and
\* a wait that times out ends the websocket in one step.
THEOREM Refinement == Spec => ImplementsBox
  BY InitBox, NextBox, Invariance, PTL DEF Spec, ImplementsBox, Box!BoxSpec
=============================================================================
