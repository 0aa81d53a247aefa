------------------------------ MODULE ProxyProofs ------------------------------
(***************************************************************************)
(* The proxy, for any number of worker threads, websockets and requests:   *)
(* answers come in the order of the requests, and a bot that is alone gets *)
(* its own.                                                                *)
(***************************************************************************)
EXTENDS Proxy, SequenceTheorems, WellFoundedInduction, TLAPS

\* The request that was forwarded, or its response, as long as nobody got it.
Current ==
    IF main \in {"reply", "write"} THEN responses[1]
    ELSE IF inGame # Nullptr THEN inGame ELSE answer

\* There is one at most, and no response waits in a queue while the game works.
Stage ==
    /\ main \in {"poll", "over"} => inGame = Nullptr /\ answer = Nullptr /\ responses = <<>>
    /\ main = "receive" => responses = <<>> /\ (inGame = Nullptr \/ answer = Nullptr)
    /\ main \in {"reply", "write"} =>
           inGame = Nullptr /\ answer = Nullptr /\ Len(responses) = 1

\* What the bots got was asked before the current request, and that before
\* those that wait.
InOrder ==
    /\ Current.id <= asked
    /\ \A i \in DOMAIN requests : Current.id < requests[i].id /\ requests[i].id <= asked
    /\ \A i, j \in DOMAIN requests : i < j => requests[i].id < requests[j].id
    /\ \A s \in Sockets : \A i \in DOMAIN got[s] :
           /\ got[s][i].id <= asked
           /\ Current # Nullptr => got[s][i].id < Current.id
           /\ \A j \in DOMAIN requests : got[s][i].id < requests[j].id

\* No two workers serve a websocket, and no request came by one that is not
\* open yet.
Senders ==
    /\ \A w \in Workers : socket[w] <= opened
    /\ \A v, w \in Workers : v # w /\ socket[v] # 0 => socket[v] # socket[w]
    /\ \A w \in Workers : worker[w] # "free" => socket[w] # 0
    /\ Current.from <= opened
    /\ \A i \in DOMAIN requests : requests[i].from <= opened
    /\ \A w \in Workers : worker[w] = "connecting" =>
           /\ Current.from # socket[w]
           /\ \A i \in DOMAIN requests : requests[i].from # socket[w]

\* A bot that is alone has the only worker that is not free.
Alone ==
    sole # 0 => /\ sole <= opened
                /\ \A w \in Workers : worker[w] # "free" => socket[w] = sole

\* Without a race the vector holds the workers that serve, once.
Serving(w) == worker[w] \in {"open", "closing"}
Listed ==
    ~raced => /\ \A i \in DOMAIN connections : Serving(connections[i])
              /\ \A i, j \in DOMAIN connections : i # j => connections[i] # connections[j]
              /\ \A w \in Workers : Serving(w) =>
                     \E i \in DOMAIN connections : connections[i] = w

\* What SendResponse read is the connection of the bot that is alone.
Targeted ==
    main = "write" /\ ~raced /\ sole # 0 /\ Current.from = sole =>
        \A w \in Workers : worker[w] = "open" => target = {w}

IInv == TypeOK /\ Stage /\ InOrder /\ Senders /\ Alone /\ Listed /\ Targeted /\ AnswersInOrder

-----------------------------------------------------------------------------
(* Lemmas.                                                                 *)

LEMMA CurrentIsMessage ==
    ASSUME ServerAssumption, TypeOK, Stage
    PROVE  /\ Current \in Message \cup {Nullptr}
           /\ Current.id \in Nat /\ Current.from \in Nat
           /\ Current # Nullptr => Current \in Message /\ Current.id > 0 /\ Current.from > 0
<1>1. Current \in Message \cup {Nullptr}
  <2>1. CASE main \in {"reply", "write"}
    <3>1. responses \in Seq(Message \cup {Nullptr}) /\ Len(responses) = 1
      BY <2>1 DEF Stage, TypeOK, ServerTypeOK
    <3>2. responses[1] \in Message \cup {Nullptr}
      BY <3>1, ElementOfSeq
    <3> QED
      BY <2>1, <3>2 DEF Current
  <2>2. CASE main \notin {"reply", "write"}
    BY <2>2 DEF TypeOK, Current
  <2> QED
    BY <2>1, <2>2
<1>2. ASSUME NEW m \in Message PROVE m.id \in Nat /\ m.from \in Nat /\ m.id > 0 /\ m.from > 0
  BY DEF Message, Sockets, ServerAssumption
<1>3. Nullptr.id = 0 /\ Nullptr.from = 0
  BY DEF Nullptr
<1> QED
  BY <1>1, <1>2, <1>3

\* The requests that wait, and what the bots got, are messages.
LEMMA Messages ==
    ASSUME ServerAssumption, TypeOK
    PROVE  /\ \A i \in DOMAIN requests :
                  /\ requests[i] \in Message /\ requests[i].id \in Nat \ {0}
                  /\ requests[i].from \in Nat \ {0}
           /\ \A s \in Sockets : \A i \in DOMAIN got[s] :
                  got[s][i] \in Message /\ got[s][i].id \in Nat \ {0}
<1>1. ASSUME NEW m \in Message PROVE m.id \in Nat \ {0} /\ m.from \in Nat \ {0}
  BY DEF Message, Sockets, ServerAssumption
<1>2. requests \in Seq(Message) /\ \A s \in Sockets : got[s] \in Seq(Message)
  BY DEF TypeOK, ServerTypeOK
<1>3. \A i \in DOMAIN requests : requests[i] \in Message
  BY <1>2
<1>4. \A s \in Sockets : \A i \in DOMAIN got[s] : got[s][i] \in Message
  BY <1>2
<1> QED
  BY <1>1, <1>3, <1>4

\* The element erase is given is the first of its kind.
LEMMA FirstExists ==
    ASSUME NEW q \in Seq(Workers), NEW w \in Workers, \E i \in DOMAIN q : q[i] = w
    PROVE  (CHOOSE j \in DOMAIN q : q[j] = w /\ \A k \in 1..(j - 1) : q[k] # w) \in DOMAIN q
<1> DEFINE R == {ss \in Nat \X Nat : ss[1] < ss[2]}
           T == {n \in DOMAIN q : q[n] = w}
<1>1. Len(q) \in Nat /\ DOMAIN q = 1..Len(q)
  OBVIOUS
<1>2. IsWellFoundedOn(R, Nat)
  BY NatLessThanWellFounded DEF OpToRel
<1>3. T \subseteq Nat /\ T # {}
  BY <1>1
<1> HIDE DEF R, T
<1>4. PICK n \in T : \A m \in T : ~ (<<m, n>> \in R)
  BY <1>2, <1>3, WFMin
<1>5. \A m \in T : ~(m < n)
  BY <1>3, <1>4 DEF R
<1>6. n \in DOMAIN q /\ q[n] = w /\ \A k \in 1..(n - 1) : q[k] # w
  BY <1>1, <1>5 DEF T
<1> QED
  BY <1>6

\* erase of WebSocketCloseHandler takes out the one element that is w.
LEMMA ErasedFacts ==
    ASSUME NEW q \in Seq(Workers), NEW w \in Workers,
           \E i \in DOMAIN q : q[i] = w,
           \A i, j \in DOMAIN q : i # j => q[i] # q[j]
    PROVE  /\ Erased(q, w) \in Seq(Workers)
           /\ \A i \in DOMAIN Erased(q, w) :
                  \E j \in DOMAIN q : Erased(q, w)[i] = q[j] /\ q[j] # w
           /\ \A i, j \in DOMAIN Erased(q, w) : i # j => Erased(q, w)[i] # Erased(q, w)[j]
           /\ \A j \in DOMAIN q : q[j] # w => \E i \in DOMAIN Erased(q, w) : Erased(q, w)[i] = q[j]
<1> DEFINE First(j) == q[j] = w /\ \A k \in 1..(j - 1) : q[k] # w
           n == CHOOSE j \in DOMAIN q : First(j)
           a == SubSeq(q, 1, n - 1)
           b == SubSeq(q, n + 1, Len(q))
<1>1. Len(q) \in Nat /\ DOMAIN q = 1..Len(q) /\ \A i \in 1..Len(q) : q[i] \in Workers
  BY ElementOfSeq
<1>2. \E j \in DOMAIN q : First(j)
  <2>1. PICK j \in DOMAIN q : q[j] = w
    OBVIOUS
  <2>2. \A k \in 1..(j - 1) : k \in DOMAIN q /\ k # j
    BY <1>1
  <2> QED
    BY <2>1, <2>2
<1>3. n \in 1..Len(q) /\ q[n] = w
  BY <1>1, <1>2
<1>4. \A i \in 1..Len(q) : i # n => q[i] # w
  BY <1>1, <1>3
<1>5. Erased(q, w) = a \o b
  BY DEF Erased
<1> HIDE DEF n
<1>6. /\ a \in Seq(Workers) /\ Len(a) = n - 1
      /\ \A i \in 1..(n - 1) : a[i] = q[i]
  <2>1. \A i \in 1..(n - 1) : q[i] \in Workers
    BY <1>1, <1>3
  <2>2. n - 1 \in Int /\ 1 \in Int /\ (1 <= n - 1 \/ n = 1)
    BY <1>3
  <2>3. /\ a \in Seq(Workers)
        /\ Len(a) = IF 1 <= n - 1 THEN n - 1 - 1 + 1 ELSE 0
        /\ \A i \in 1..(n - 1 - 1 + 1) : a[i] = q[1 + i - 1]
    BY <2>1, <2>2, SubSeqProperties
  <2> QED
    BY <1>3, <2>2, <2>3
<1>7. /\ b \in Seq(Workers) /\ Len(b) = Len(q) - n
      /\ \A i \in 1..(Len(q) - n) : b[i] = q[n + i]
  <2>1. \A i \in (n + 1)..Len(q) : q[i] \in Workers
    BY <1>1, <1>3
  <2>2. n + 1 \in Int /\ Len(q) \in Int
    BY <1>1, <1>3
  <2>3. /\ b \in Seq(Workers)
        /\ Len(b) = IF n + 1 <= Len(q) THEN Len(q) - (n + 1) + 1 ELSE 0
        /\ \A i \in 1..(Len(q) - (n + 1) + 1) : b[i] = q[n + 1 + i - 1]
    BY <2>1, <2>2, SubSeqProperties
  <2> QED
    BY <1>1, <1>3, <2>3
<1> HIDE DEF a, b
<1>8. /\ a \o b \in Seq(Workers) /\ Len(a \o b) = Len(q) - 1
      /\ \A i \in 1..(Len(q) - 1) : (a \o b)[i] = IF i < n THEN q[i] ELSE q[i + 1]
  <2>1. /\ a \o b \in Seq(Workers) /\ Len(a \o b) = Len(a) + Len(b)
        /\ \A i \in 1..(Len(a) + Len(b)) : (a \o b)[i] = IF i <= Len(a) THEN a[i] ELSE b[i - Len(a)]
    BY <1>6, <1>7, ConcatProperties
  <2>2. Len(a) + Len(b) = Len(q) - 1
    BY <1>1, <1>3, <1>6, <1>7
  <2>3. ASSUME NEW i \in 1..(Len(q) - 1)
        PROVE  (a \o b)[i] = IF i < n THEN q[i] ELSE q[i + 1]
    <3>1. CASE i < n
      BY <1>1, <1>3, <1>6, <2>1, <2>2, <3>1
    <3>2. CASE ~(i < n)
      <4>1. i - Len(a) \in 1..(Len(q) - n) /\ ~(i <= Len(a)) /\ n + (i - Len(a)) = i + 1
        BY <1>1, <1>3, <1>6, <3>2
      <4> QED
        BY <1>7, <2>1, <2>2, <3>2, <4>1
    <3> QED
      BY <3>1, <3>2
  <2> QED
    BY <2>1, <2>2, <2>3
<1> DEFINE e == Erased(q, w)
<1>9. /\ e \in Seq(Workers) /\ DOMAIN e = 1..(Len(q) - 1)
      /\ \A i \in 1..(Len(q) - 1) : e[i] = IF i < n THEN q[i] ELSE q[i + 1]
  BY <1>5, <1>8
<1> HIDE DEF e
<1>10. \A i \in DOMAIN e : \E j \in DOMAIN q : e[i] = q[j] /\ q[j] # w
  <2> SUFFICES ASSUME NEW i \in DOMAIN e
               PROVE  \E j \in DOMAIN q : e[i] = q[j] /\ q[j] # w
    OBVIOUS
  <2>1. CASE i < n
    <3>1. i \in DOMAIN q /\ i # n
      BY <1>1, <1>3, <1>9, <2>1
    <3> QED
      BY <1>1, <1>4, <1>9, <2>1, <3>1
  <2>2. CASE ~(i < n)
    <3>1. i + 1 \in DOMAIN q /\ i + 1 # n
      BY <1>1, <1>3, <1>9, <2>2
    <3> QED
      BY <1>1, <1>4, <1>9, <2>2, <3>1
  <2> QED
    BY <2>1, <2>2
<1>11. \A i, j \in DOMAIN e : i # j => e[i] # e[j]
  <2> SUFFICES ASSUME NEW i \in DOMAIN e, NEW j \in DOMAIN e, i # j PROVE e[i] # e[j]
    OBVIOUS
  <2> DEFINE At(k) == IF k < n THEN k ELSE k + 1
  <2>1. At(i) \in DOMAIN q /\ At(j) \in DOMAIN q /\ At(i) # At(j)
    BY <1>1, <1>3, <1>9
  <2>2. e[i] = q[At(i)] /\ e[j] = q[At(j)]
    BY <1>9
  <2> QED
    BY <2>1, <2>2
<1>12. \A j \in DOMAIN q : q[j] # w => \E i \in DOMAIN e : e[i] = q[j]
  <2> SUFFICES ASSUME NEW j \in DOMAIN q, q[j] # w PROVE \E i \in DOMAIN e : e[i] = q[j]
    OBVIOUS
  <2>1. CASE j < n
    <3>1. j \in DOMAIN e
      BY <1>1, <1>3, <1>9, <2>1
    <3> QED
      BY <1>9, <2>1, <3>1
  <2>2. CASE j > n
    <3>1. j - 1 \in DOMAIN e /\ ~(j - 1 < n) /\ j - 1 + 1 = j
      BY <1>1, <1>3, <1>9, <2>2
    <3> QED
      BY <1>9, <3>1
  <2> QED
    BY <1>1, <1>3, <2>1, <2>2
<1> QED
  BY <1>9, <1>10, <1>11, <1>12 DEF e
-----------------------------------------------------------------------------
(* The worker threads.                                                     *)

LEMMA BeginConnectKeeps ==
    ASSUME ServerAssumption, IInv, NEW w \in Workers, BeginConnect(w),
           UNCHANGED <<main, game, target>>
    PROVE  IInv'
<1> USE DEF IInv
<1>1. /\ UNCHANGED <<connections, requests, responses, asked, got, raced, crashed,
                     main, link, inGame, answer, target>>
      /\ opened \in Nat /\ opened' = opened + 1 /\ opened' \in 0..MaxSockets
      /\ socket' = [socket EXCEPT ![w] = opened + 1] /\ socket \in [Workers -> 0..MaxSockets]
      /\ worker' = [worker EXCEPT ![w] = "connecting"] /\ worker \in [Workers -> WorkerStates]
      /\ worker[w] = "free"
      /\ \A v \in Workers : socket[v] \in Nat
  BY DEF BeginConnect, game, TypeOK, ServerTypeOK, ServerAssumption
<1>2. sole' \in {0, opened + 1} /\ (sole' # 0 => \A v \in Workers : worker[v] = "free")
  BY DEF BeginConnect
<1>3. TypeOK'
  BY <1>1, <1>2 DEF TypeOK, ServerTypeOK, WorkerStates
<1>4. Current' = Current
  BY <1>1 DEF Current
<1>5. Stage' /\ InOrder' /\ AnswersInOrder'
  BY <1>1, <1>4 DEF Stage, InOrder, AnswersInOrder
<1>6. Senders'
  <2>1. Current.from \in Nat /\ \A i \in DOMAIN requests : requests[i].from \in Nat
    BY CurrentIsMessage, Messages
  <2>2. \A v \in Workers : v # w => socket'[v] = socket[v] /\ worker'[v] = worker[v]
    BY <1>1
  <2>3. socket'[w] = opened + 1 /\ worker'[w] = "connecting"
    BY <1>1
  <2> QED
    BY <1>1, <1>4, <2>1, <2>2, <2>3 DEF Senders
<1>7. Alone'
  BY <1>1, <1>2 DEF Alone
<1>8. Listed'
  <2>1. \A v \in Workers : Serving(v)' <=> Serving(v)
    BY <1>1 DEF Serving
  <2>2. \A i \in DOMAIN connections : connections[i] \in Workers
    BY DEF TypeOK, ServerTypeOK
  <2> QED
    BY <1>1, <2>1, <2>2 DEF Listed
<1>9. Targeted'
  <2>1. Current.from <= opened /\ Current.from \in Nat
    BY CurrentIsMessage DEF Senders
  <2> QED
    BY <1>1, <1>2, <1>4, <2>1 DEF Targeted
<1> QED
  BY <1>3, <1>5, <1>6, <1>7, <1>8, <1>9

LEMMA QueueRequestKeeps ==
    ASSUME ServerAssumption, IInv, NEW w \in Workers, QueueRequest(w),
           UNCHANGED <<main, game, target>>
    PROVE  IInv'
<1> USE DEF IInv
<1> DEFINE m == [id |-> asked + 1, from |-> socket[w]]
<1>1. /\ UNCHANGED <<connections, responses, worker, socket, opened, got, sole, raced,
                     crashed, main, link, inGame, answer, target>>
      /\ asked \in Nat /\ asked' = asked + 1 /\ asked' \in 0..MaxRequests
      /\ requests' = Append(requests, m) /\ requests \in Seq(Message)
      /\ worker[w] = "open"
  BY DEF QueueRequest, game, TypeOK, ServerTypeOK, ServerAssumption
<1>2. m \in Message /\ m.id = asked + 1 /\ m.from = socket[w] /\ socket[w] \in Nat
  BY <1>1 DEF Senders, TypeOK, ServerTypeOK, Message, Sockets, ServerAssumption
<1>3. /\ requests' \in Seq(Message)
      /\ \A i \in DOMAIN requests' :
             \/ i \in DOMAIN requests /\ requests'[i] = requests[i]
             \/ i = Len(requests) + 1 /\ requests'[i] = m
      /\ Len(requests) \in Nat /\ DOMAIN requests = 1..Len(requests)
  BY <1>1, <1>2
<1> HIDE DEF m
<1>4. TypeOK'
  BY <1>1, <1>3 DEF TypeOK, ServerTypeOK
<1>5. Current' = Current
  BY <1>1 DEF Current
<1>6. Stage' /\ AnswersInOrder' /\ Alone' /\ Listed' /\ Targeted'
  BY <1>1, <1>5 DEF Stage, AnswersInOrder, Alone, Listed, Serving, Targeted
<1>7. InOrder'
  <2>1. Current.id \in Nat /\ \A i \in DOMAIN requests : requests[i].id \in Nat
    BY CurrentIsMessage, Messages
  <2>2. \A s \in Sockets : \A i \in DOMAIN got[s] : got[s][i].id \in Nat
    BY Messages
  <2>3. Current.id <= asked' /\ \A i \in DOMAIN requests' :
            Current.id < requests'[i].id /\ requests'[i].id <= asked'
    BY <1>1, <1>2, <1>3, <2>1 DEF InOrder
  <2>4. ASSUME NEW i \in DOMAIN requests', NEW j \in DOMAIN requests', i < j
        PROVE  requests'[i].id < requests'[j].id
    <3>1. i \in DOMAIN requests /\ requests'[i] = requests[i]
      BY <1>3, <2>4
    <3>2. CASE j \in DOMAIN requests /\ requests'[j] = requests[j]
      BY <2>4, <3>1, <3>2 DEF InOrder
    <3>3. CASE requests'[j] = m
      BY <1>1, <1>2, <2>1, <3>1, <3>3 DEF InOrder
    <3> QED
      BY <1>3, <3>2, <3>3
  <2>5. ASSUME NEW s \in Sockets, NEW i \in DOMAIN got[s]
        PROVE  /\ got[s][i].id <= asked'
               /\ Current # Nullptr => got[s][i].id < Current.id
               /\ \A j \in DOMAIN requests' : got[s][i].id < requests'[j].id
    BY <1>1, <1>2, <1>3, <2>2 DEF InOrder
  <2> QED
    BY <1>1, <1>5, <2>3, <2>4, <2>5 DEF InOrder
<1>8. Senders'
  <2>1. socket[w] <= opened /\ \A v \in Workers : worker[v] = "connecting" => socket[w] # socket[v]
    BY <1>1 DEF Senders
  <2> QED
    BY <1>1, <1>2, <1>3, <1>5, <2>1 DEF Senders
<1> QED
  BY <1>4, <1>6, <1>7, <1>8

\* A worker that leaves its handler, or begins to close: the connection serves
\* a websocket that is not new.
LEMMA MovesOn ==
    ASSUME ServerAssumption, IInv, NEW w \in Workers, NEW state \in WorkerStates,
           worker' = [worker EXCEPT ![w] = state],
           state # "connecting", worker[w] # "free",
           UNCHANGED <<requests, responses, socket, opened, asked, got, sole, main, game, target>>,
           connections' \in Seq(Workers), raced' \in BOOLEAN, crashed' \in BOOLEAN,
           raced => raced',
           worker[w] = "connecting" \/ state # "open",
           Listed'
    PROVE  IInv'
<1> USE DEF IInv
<1>1. /\ UNCHANGED <<main, link, inGame, answer, target>>
      /\ worker \in [Workers -> WorkerStates]
      /\ \A v \in Workers : v # w => worker'[v] = worker[v]
      /\ worker'[w] = state
  BY DEF game, TypeOK, ServerTypeOK
<1>2. TypeOK'
  BY <1>1 DEF TypeOK, ServerTypeOK
<1>3. Current' = Current
  BY <1>1 DEF Current
<1>4. Stage' /\ InOrder' /\ AnswersInOrder'
  BY <1>1, <1>3 DEF Stage, InOrder, AnswersInOrder
<1>5. Senders'
  BY <1>1, <1>3 DEF Senders
<1>6. Alone'
  BY <1>1 DEF Alone
<1>7. Targeted'
  <2> SUFFICES ASSUME main = "write", ~raced, sole # 0, Current.from = sole,
                      NEW v \in Workers, worker'[v] = "open"
               PROVE  target = {v}
    BY <1>1, <1>3 DEF Targeted
  <2>1. v # w
    <3> SUFFICES ASSUME v = w PROVE FALSE
      OBVIOUS
    <3>1. worker[w] = "connecting"
      BY <1>1
    <3>2. socket[w] = sole /\ socket[w] # Current.from
      BY <3>1 DEF Alone, Senders
    <3> QED
      BY <3>2
  <2> QED
    BY <1>1, <2>1 DEF Targeted
<1> QED
  BY <1>2, <1>4, <1>5, <1>6, <1>7
\* Without a race the change of the vector is not lost.
LEMMA LeaveVectorFacts ==
    ASSUME TypeOK, NEW w \in Workers, NEW changed \in Seq(Workers), NEW state \in WorkerStates,
           LeaveVector(w, changed, state)
    PROVE  /\ worker' = [worker EXCEPT ![w] = state]
           /\ connections' \in Seq(Workers) /\ raced' \in BOOLEAN /\ crashed' \in BOOLEAN
           /\ raced => raced'
           /\ ~raced' => connections' = changed /\ InVector = {w} /\ crashed' = crashed
<1>1. /\ worker' = [worker EXCEPT ![w] = state]
      /\ raced' = (raced \/ InVector # {w})
      /\ \/ connections' = changed /\ crashed' = crashed
         \/ InVector # {w} /\ connections' = connections /\ crashed' \in BOOLEAN
  BY DEF LeaveVector
<1>2. connections \in Seq(Workers) /\ raced \in BOOLEAN /\ crashed \in BOOLEAN
  BY DEF TypeOK, ServerTypeOK
<1> QED
  BY <1>1, <1>2

LEMMA EndConnectKeeps ==
    ASSUME ServerAssumption, IInv, NEW w \in Workers, EndConnect(w),
           UNCHANGED <<main, game, target>>
    PROVE  IInv'
<1> USE DEF IInv
<1> DEFINE q == Append(connections, w)
<1>1. /\ connections \in Seq(Workers) /\ Len(connections) \in Nat
      /\ DOMAIN connections = 1..Len(connections)
      /\ \A i \in DOMAIN connections : connections[i] \in Workers
      /\ worker \in [Workers -> WorkerStates]
  BY DEF TypeOK, ServerTypeOK
<1>2. /\ q \in Seq(Workers) /\ DOMAIN q = 1..(Len(connections) + 1)
      /\ q[Len(connections) + 1] = w
      /\ \A i \in DOMAIN connections : q[i] = connections[i]
  BY <1>1
<1>3. /\ UNCHANGED <<requests, responses, socket, opened, asked, got, sole>>
      /\ worker[w] = "connecting" /\ LeaveVector(w, q, "open")
  BY DEF EndConnect
<1> HIDE DEF q
<1>4. "open" \in WorkerStates
  BY DEF WorkerStates
<1>5. /\ worker' = [worker EXCEPT ![w] = "open"]
      /\ connections' \in Seq(Workers) /\ raced' \in BOOLEAN /\ crashed' \in BOOLEAN
      /\ raced => raced'
      /\ ~raced' => connections' = q
  BY <1>2, <1>3, <1>4, LeaveVectorFacts
<1>6. Listed'
  <2> SUFFICES ASSUME ~raced'
               PROVE  /\ \A i \in DOMAIN q : (worker'[q[i]] \in {"open", "closing"})
                      /\ \A i, j \in DOMAIN q : i # j => q[i] # q[j]
                      /\ \A v \in Workers : worker'[v] \in {"open", "closing"} =>
                            \E i \in DOMAIN q : q[i] = v
    BY <1>5 DEF Listed, Serving
  <2>1. \A v \in Workers : worker'[v] \in {"open", "closing"} <=> (v = w \/ Serving(v))
    BY <1>1, <1>5 DEF Serving
  <2>2. ~Serving(w)
    BY <1>3 DEF Serving
  <2>3. /\ \A i \in DOMAIN connections : Serving(connections[i])
        /\ \A i, j \in DOMAIN connections : i # j => connections[i] # connections[j]
        /\ \A v \in Workers : Serving(v) => \E i \in DOMAIN connections : connections[i] = v
    BY <1>5 DEF Listed
  <2>4. \A i \in DOMAIN q : \/ i \in DOMAIN connections /\ q[i] = connections[i]
                            \/ i = Len(connections) + 1 /\ q[i] = w
    BY <1>1, <1>2
  <2>5. \A i \in DOMAIN connections : i \in DOMAIN q
    BY <1>1, <1>2
  <2>6. ASSUME NEW i \in DOMAIN q PROVE (worker'[q[i]] \in {"open", "closing"})
    BY <1>1, <2>1, <2>3, <2>4
  <2>7. ASSUME NEW i \in DOMAIN q, NEW j \in DOMAIN q, i # j PROVE q[i] # q[j]
    BY <2>2, <2>3, <2>4, <2>7
  <2>8. ASSUME NEW v \in Workers, worker'[v] \in {"open", "closing"} PROVE \E i \in DOMAIN q : q[i] = v
    <3>1. CASE v = w
      BY <1>1, <1>2, <3>1
    <3>2. CASE Serving(v)
      BY <1>2, <2>3, <2>5, <3>2
    <3> QED
      BY <2>1, <2>8, <3>1, <3>2
  <2> QED
    BY <2>6, <2>7, <2>8
<1> QED
  BY <1>3, <1>4, <1>5, <1>6, MovesOn

LEMMA BeginCloseKeeps ==
    ASSUME ServerAssumption, IInv, NEW w \in Workers, BeginClose(w),
           UNCHANGED <<main, game, target>>
    PROVE  IInv'
<1> USE DEF IInv
<1>1. /\ UNCHANGED <<connections, requests, responses, socket, opened, asked, got, sole,
                     raced, crashed>>
      /\ worker[w] = "open" /\ worker' = [worker EXCEPT ![w] = "closing"]
  BY DEF BeginClose
<1>2. /\ "closing" \in WorkerStates /\ worker \in [Workers -> WorkerStates]
      /\ connections \in Seq(Workers) /\ raced \in BOOLEAN /\ crashed \in BOOLEAN
      /\ \A i \in DOMAIN connections : connections[i] \in Workers
  BY DEF WorkerStates, TypeOK, ServerTypeOK
<1>3. \A v \in Workers : Serving(v)' <=> Serving(v)
  BY <1>1, <1>2 DEF Serving
<1>4. Listed'
  BY <1>1, <1>2, <1>3 DEF Listed
<1> QED
  BY <1>1, <1>2, <1>4, MovesOn

LEMMA EndCloseKeeps ==
    ASSUME ServerAssumption, IInv, NEW w \in Workers, EndClose(w),
           UNCHANGED <<main, game, target>>
    PROVE  IInv'
<1> USE DEF IInv
<1>1. /\ connections \in Seq(Workers)
      /\ \A i \in DOMAIN connections : connections[i] \in Workers
      /\ worker \in [Workers -> WorkerStates]
  BY DEF TypeOK, ServerTypeOK
<1>2. /\ UNCHANGED <<requests, responses, socket, opened, asked, got, sole>>
      /\ worker[w] = "closing" /\ LeaveVector(w, Erased(connections, w), "free")
  BY DEF EndClose
<1>3. "free" \in WorkerStates
  BY DEF WorkerStates
<1>4. Erased(connections, w) \in Seq(Workers)
  <2>1. CASE \E i \in DOMAIN connections : connections[i] = w
    <3> DEFINE i == CHOOSE j \in DOMAIN connections :
                        connections[j] = w /\ \A k \in 1..(j - 1) : connections[k] # w
               a == SubSeq(connections, 1, i - 1)
               b == SubSeq(connections, i + 1, Len(connections))
    <3>1. Erased(connections, w) = a \o b
      BY <2>1 DEF Erased
    <3>2. i \in DOMAIN connections
      BY <1>1, <2>1, FirstExists
    <3>3. i \in 1..Len(connections) /\ Len(connections) \in Nat
      BY <1>1, <3>2
    <3> HIDE DEF i
    <3>4. a \in Seq(Workers)
      <4>1. \A k \in 1..(i - 1) : connections[k] \in Workers
        BY <1>1, <3>3
      <4> QED
        BY <3>3, <4>1, SubSeqProperties
    <3>5. b \in Seq(Workers)
      <4>1. \A k \in (i + 1)..Len(connections) : connections[k] \in Workers
        BY <1>1, <3>3
      <4> QED
        BY <3>3, <4>1, SubSeqProperties
    <3> QED
      BY <3>1, <3>4, <3>5, ConcatProperties
  <2>2. CASE ~\E i \in DOMAIN connections : connections[i] = w
    BY <1>1, <2>2 DEF Erased
  <2> QED
    BY <2>1, <2>2
<1>5. /\ worker' = [worker EXCEPT ![w] = "free"]
      /\ connections' \in Seq(Workers) /\ raced' \in BOOLEAN /\ crashed' \in BOOLEAN
      /\ raced => raced'
      /\ ~raced' => connections' = Erased(connections, w)
  BY <1>2, <1>3, <1>4, LeaveVectorFacts
<1>6. Listed'
  <2> DEFINE q == Erased(connections, w)
  <2> SUFFICES ASSUME ~raced'
               PROVE  /\ \A i \in DOMAIN q : (worker'[q[i]] \in {"open", "closing"})
                      /\ \A i, j \in DOMAIN q : i # j => q[i] # q[j]
                      /\ \A v \in Workers : worker'[v] \in {"open", "closing"} =>
                            \E i \in DOMAIN q : q[i] = v
    BY <1>5 DEF Listed, Serving
  <2>1. \A v \in Workers : worker'[v] \in {"open", "closing"} <=> (v # w /\ Serving(v))
    BY <1>1, <1>5 DEF Serving
  <2>2. Serving(w)
    BY <1>2 DEF Serving
  <2>3. /\ \A i \in DOMAIN connections : Serving(connections[i])
        /\ \A i, j \in DOMAIN connections : i # j => connections[i] # connections[j]
        /\ \A v \in Workers : Serving(v) => \E i \in DOMAIN connections : connections[i] = v
    BY <1>5 DEF Listed
  <2>4. /\ \A i \in DOMAIN q : \E j \in DOMAIN connections :
               q[i] = connections[j] /\ connections[j] # w
        /\ \A i, j \in DOMAIN q : i # j => q[i] # q[j]
        /\ \A j \in DOMAIN connections :
               connections[j] # w => \E i \in DOMAIN q : q[i] = connections[j]
    BY <1>1, <2>2, <2>3, ErasedFacts
  <2> HIDE DEF q
  <2>5. ASSUME NEW i \in DOMAIN q PROVE (worker'[q[i]] \in {"open", "closing"})
    BY <1>1, <2>1, <2>3, <2>4
  <2>6. ASSUME NEW v \in Workers, worker'[v] \in {"open", "closing"} PROVE \E i \in DOMAIN q : q[i] = v
    BY <2>1, <2>3, <2>4, <2>6
  <2> QED
    BY <2>4, <2>5, <2>6
<1> QED
  BY <1>2, <1>3, <1>5, <1>6, MovesOn
-----------------------------------------------------------------------------
(* The main thread and the game.                                           *)

\* What the bots get when m is written to a connection.
LEMMA WrittenFacts ==
    ASSUME TypeOK, NEW w \in Workers, NEW m \in Message
    PROVE  /\ Written(w, m) \in [Sockets -> Seq(Message)]
           /\ \A s \in Sockets : \A i \in DOMAIN Written(w, m)[s] :
                  \/ i \in DOMAIN got[s] /\ Written(w, m)[s][i] = got[s][i]
                  \/ /\ s = socket[w] /\ i = Len(got[s]) + 1
                     /\ Written(w, m)[s][i] = m
<1>1. got \in [Sockets -> Seq(Message)] /\ socket[w] \in 0..MaxSockets
  BY DEF TypeOK, ServerTypeOK
<1>2. CASE worker[w] = "open" /\ socket[w] \in Sockets
  <2> DEFINE t == socket[w]
  <2>1. Written(w, m) = [got EXCEPT ![t] = Append(got[t], m)]
    BY <1>2 DEF Written
  <2>2. got[t] \in Seq(Message) /\ Len(got[t]) \in Nat
    BY <1>1, <1>2
  <2>3. /\ Append(got[t], m) \in Seq(Message)
        /\ \A i \in DOMAIN Append(got[t], m) :
               \/ i \in DOMAIN got[t] /\ Append(got[t], m)[i] = got[t][i]
               \/ i = Len(got[t]) + 1 /\ Append(got[t], m)[i] = m
    BY <2>2
  <2> HIDE DEF t
  <2>4. t \in Sockets
    BY <1>2 DEF t
  <2>5. \A s \in Sockets : Written(w, m)[s] = IF s = t THEN Append(got[t], m) ELSE got[s]
    BY <1>1, <2>1, <2>4
  <2>6. Written(w, m) \in [Sockets -> Seq(Message)]
    BY <1>1, <2>1, <2>3, <2>4
  <2> QED
    BY <2>3, <2>5, <2>6 DEF t
<1>3. CASE ~(worker[w] = "open" /\ socket[w] \in Sockets)
  <2>1. Written(w, m) = got
    <3>1. CASE worker[w] # "open"
      BY <3>1 DEF Written
    <3>2. CASE socket[w] \notin Sockets
      <4>1. socket[w] \notin DOMAIN got
        BY <1>1, <3>2
      <4>2. [got EXCEPT ![socket[w]] = Append(@, m)] = got
        BY <1>1, <4>1
      <4> QED
        BY <4>2 DEF Written
    <3> QED
      BY <1>3, <3>1, <3>2
  <2> QED
    BY <1>1, <2>1
<1> QED
  BY <1>2, <1>3

\* When a message that is newer than all a bot got is written, the order stays.
LEMMA WrittenInOrder ==
    ASSUME ServerAssumption, TypeOK, AnswersInOrder, NEW w \in Workers, NEW m \in Message,
           \A s \in Sockets : \A i \in DOMAIN got[s] : got[s][i].id < m.id,
           got' = Written(w, m)
    PROVE  AnswersInOrder'
<1>1. /\ \A s \in Sockets : \A i \in DOMAIN got'[s] :
             \/ i \in DOMAIN got[s] /\ got'[s][i] = got[s][i]
             \/ s = socket[w] /\ i = Len(got[s]) + 1 /\ got'[s][i] = m
      /\ got' \in [Sockets -> Seq(Message)]
  BY WrittenFacts
<1>2. /\ \A s \in Sockets : DOMAIN got[s] = 1..Len(got[s]) /\ Len(got[s]) \in Nat
      /\ m.id \in Nat
  BY DEF TypeOK, ServerTypeOK, Message, ServerAssumption
<1>3. \A s \in Sockets : \A i \in DOMAIN got[s] : got[s][i].id \in Nat
  BY Messages
<1>4. ASSUME NEW s \in Sockets, NEW i \in DOMAIN got'[s], NEW j \in DOMAIN got'[s], i < j
      PROVE  got'[s][i].id < got'[s][j].id
  <2>1. i \in DOMAIN got[s] /\ got'[s][i] = got[s][i]
    <3>1. j \in DOMAIN got[s] \/ j = Len(got[s]) + 1
      BY <1>1
    <3>2. i # Len(got[s]) + 1
      BY <1>2, <1>4, <3>1
    <3> QED
      BY <1>1, <3>2
  <2>2. CASE j \in DOMAIN got[s] /\ got'[s][j] = got[s][j]
    BY <1>4, <2>1, <2>2 DEF AnswersInOrder
  <2>3. CASE got'[s][j] = m
    BY <2>1, <2>3
  <2> QED
    BY <1>1, <2>2, <2>3
<1>5. ASSUME NEW s \in Sockets, NEW t \in Sockets, NEW i \in DOMAIN got'[s],
             NEW j \in DOMAIN got'[t], got'[s][i] = got'[t][j]
      PROVE  s = t
  <2>1. CASE i \in DOMAIN got[s] /\ got'[s][i] = got[s][i]
    <3>1. got[s][i].id < m.id /\ got[s][i].id \in Nat
      BY <1>3, <2>1
    <3>2. got'[t][j] # m
      BY <1>2, <1>5, <2>1, <3>1
    <3>3. j \in DOMAIN got[t] /\ got'[t][j] = got[t][j]
      BY <1>1, <3>2
    <3> QED
      BY <1>5, <2>1, <3>3 DEF AnswersInOrder
  <2>2. CASE s = socket[w] /\ got'[s][i] = m
    <3>1. CASE j \in DOMAIN got[t] /\ got'[t][j] = got[t][j]
      <4>1. got[t][j].id < m.id /\ got[t][j].id \in Nat
        BY <1>3, <3>1
      <4> QED
        BY <1>2, <1>5, <2>2, <3>1, <4>1
    <3>2. CASE t = socket[w]
      BY <2>2, <3>2
    <3> QED
      BY <1>1, <3>1, <3>2
  <2> QED
    BY <1>1, <2>1, <2>2
<1> QED
  BY <1>4, <1>5 DEF AnswersInOrder
LEMMA FrontIsWorker ==
    ASSUME TypeOK, NEW w \in Front PROVE w \in Workers
<1>1. connections # <<>> => Head(connections) \in Workers
  BY HeadTailProperties DEF TypeOK, ServerTypeOK
<1> QED
  BY <1>1 DEF Front

LEMMA SendRequestKeeps ==
    ASSUME ServerAssumption, IInv, SendRequest PROVE IInv'
<1> USE DEF IInv
<1> DEFINE m == Head(requests)
<1>1. /\ UNCHANGED <<connections, responses, worker, socket, opened, asked, sole, raced,
                     crashed, link, answer, target>>
      /\ main = "poll" /\ main' = "receive" /\ requests # <<>> /\ requests' = Tail(requests)
      /\ inGame = Nullptr /\ answer = Nullptr /\ responses = <<>>
  BY DEF SendRequest, Popped, Stage
<1>2. /\ requests \in Seq(Message) /\ Len(requests) \in Nat \ {0}
      /\ DOMAIN requests = 1..Len(requests)
      /\ m \in Message /\ m = requests[1] /\ 1 \in DOMAIN requests
      /\ requests' \in Seq(Message) /\ DOMAIN requests' = 1..(Len(requests) - 1)
      /\ \A i \in DOMAIN requests' : requests'[i] = requests[i + 1] /\ i + 1 \in DOMAIN requests
  BY <1>1, HeadTailProperties DEF TypeOK, ServerTypeOK
<1>3. \/ inGame' = m /\ got' = got
      \/ inGame' = Nullptr /\ \E w \in Workers : got' = Written(w, m)
  BY <1>1, FrontIsWorker DEF SendRequest
<1>4. m # Nullptr /\ m.id \in Nat \ {0}
  BY <1>2, Messages DEF Message, Nullptr, ServerAssumption
<1>5. Current = Nullptr /\ Current' = inGame'
  BY <1>1 DEF Current
<1>6. \A s \in Sockets : \A i \in DOMAIN got[s] : got[s][i].id < m.id /\ got[s][i].id <= asked
  BY <1>2 DEF InOrder
<1>7. /\ got' \in [Sockets -> Seq(Message)]
      /\ \A s \in Sockets : \A i \in DOMAIN got'[s] :
             \/ i \in DOMAIN got[s] /\ got'[s][i] = got[s][i]
             \/ inGame' = Nullptr /\ got'[s][i] = m
  <2>1. CASE got' = got
    BY <2>1 DEF TypeOK, ServerTypeOK
  <2>2. CASE inGame' = Nullptr /\ \E w \in Workers : got' = Written(w, m)
    BY <1>2, <2>2, WrittenFacts
  <2> QED
    BY <1>3, <2>1, <2>2
<1>8. AnswersInOrder'
  <2>1. CASE got' = got
    BY <2>1 DEF AnswersInOrder
  <2>2. CASE \E w \in Workers : got' = Written(w, m)
    BY <1>2, <1>6, <2>2, WrittenInOrder
  <2> QED
    BY <1>3, <2>1, <2>2
<1> HIDE DEF m
<1>9. TypeOK'
  BY <1>1, <1>2, <1>3, <1>7 DEF TypeOK, ServerTypeOK, MainStates
<1>10. Stage'
  BY <1>1 DEF Stage
<1>11. m.id <= asked /\ \A i \in DOMAIN requests' : m.id < requests'[i].id
  <2>1. \A i \in DOMAIN requests' : 1 < i + 1
    BY <1>2
  <2> QED
    BY <1>2, <2>1 DEF InOrder
<1>12. asked \in Nat /\ Nullptr.id = 0 /\ \A i \in DOMAIN requests : requests[i].id \in Nat \ {0}
  BY Messages DEF TypeOK, ServerTypeOK, Nullptr
<1>13. InOrder'
  <2>1. \A i, j \in DOMAIN requests' : i < j => requests'[i].id < requests'[j].id
    <3> SUFFICES ASSUME NEW i \in DOMAIN requests', NEW j \in DOMAIN requests', i < j
                 PROVE  requests'[i].id < requests'[j].id
      OBVIOUS
    <3>1. i + 1 < j + 1
      BY <1>2
    <3> QED
      BY <1>2, <3>1 DEF InOrder
  <2>2. \A i \in DOMAIN requests' : requests'[i].id <= asked
    BY <1>2 DEF InOrder
  <2>3. /\ Current'.id <= asked
        /\ \A i \in DOMAIN requests' : Current'.id < requests'[i].id
    <3>1. CASE inGame' = m
      BY <1>5, <1>11, <3>1
    <3>2. CASE inGame' = Nullptr
      BY <1>2, <1>5, <1>12, <3>2
    <3> QED
      BY <1>3, <3>1, <3>2
  <2>4. ASSUME NEW s \in Sockets, NEW i \in DOMAIN got'[s]
        PROVE  /\ got'[s][i].id <= asked
               /\ Current' # Nullptr => got'[s][i].id < Current'.id
               /\ \A j \in DOMAIN requests' : got'[s][i].id < requests'[j].id
    <3>1. CASE i \in DOMAIN got[s] /\ got'[s][i] = got[s][i]
      <4>1. got[s][i].id <= asked /\ \A j \in DOMAIN requests : got[s][i].id < requests[j].id
        BY <3>1 DEF InOrder
      <4>2. Current' # Nullptr => got[s][i].id < Current'.id
        BY <1>3, <1>5, <1>6, <3>1
      <4> QED
        BY <1>2, <3>1, <4>1, <4>2
    <3>2. CASE inGame' = Nullptr /\ got'[s][i] = m
      BY <1>5, <1>11, <3>2
    <3> QED
      BY <1>7, <3>1, <3>2
  <2> QED
    BY <1>1, <2>1, <2>2, <2>3, <2>4 DEF InOrder
<1>14. Senders'
  <2>1. Current'.from <= opened
    BY <1>2, <1>3, <1>5 DEF Senders
  <2>2. \A w \in Workers : worker[w] = "connecting" => Current'.from # socket[w]
    BY <1>2, <1>3, <1>5 DEF Senders
  <2> QED
    BY <1>1, <1>2, <2>1, <2>2 DEF Senders
<1>15. Alone' /\ Listed' /\ Targeted'
  BY <1>1 DEF Alone, Listed, Serving, Targeted
<1> QED
  BY <1>8, <1>9, <1>10, <1>13, <1>14, <1>15

\* Steps in which the current message only changes its place, or is lost.
LEMMA CurrentMoves ==
    ASSUME ServerAssumption, IInv,
           UNCHANGED <<connections, requests, worker, socket, opened, asked, got, sole, raced,
                       crashed>>,
           Current' = Current \/ Current' = Nullptr,
           Stage', TypeOK', main' # "write"
    PROVE  IInv'
<1> USE DEF IInv
<1>1. /\ opened \in Nat /\ asked \in Nat /\ Nullptr.id = 0 /\ Nullptr.from = 0
      /\ \A i \in DOMAIN requests : requests[i].id \in Nat \ {0}
  BY Messages DEF TypeOK, ServerTypeOK, Nullptr, ServerAssumption
<1>2. InOrder'
  BY <1>1 DEF InOrder
<1>3. Senders'
  BY <1>1 DEF Senders
<1>4. Alone' /\ Listed' /\ Targeted' /\ AnswersInOrder'
  BY DEF Alone, Listed, Serving, Targeted, AnswersInOrder
<1> QED
  BY <1>2, <1>3, <1>4

LEMMA GameAnswersKeeps ==
    ASSUME ServerAssumption, IInv, GameAnswers PROVE IInv'
<1> USE DEF IInv
<1>1. /\ UNCHANGED <<connections, requests, responses, worker, socket, opened, asked, got,
                     sole, raced, crashed, main, link, target>>
      /\ inGame # Nullptr /\ answer' = inGame /\ inGame' = Nullptr
  BY DEF GameAnswers, server
<1>2. main = "receive" /\ answer = Nullptr
  BY <1>1 DEF Stage, TypeOK, MainStates
<1>3. Current' = Current
  BY <1>1, <1>2 DEF Current
<1>4. Stage'
  BY <1>1, <1>2 DEF Stage
<1>5. TypeOK'
  BY <1>1 DEF TypeOK, ServerTypeOK
<1> QED
  BY <1>1, <1>2, <1>3, <1>4, <1>5, CurrentMoves

LEMMA ReceiveKeeps ==
    ASSUME ServerAssumption, IInv, Receive PROVE IInv'
<1> USE DEF IInv
<1>1. /\ UNCHANGED <<connections, requests, worker, socket, opened, asked, got,
                     sole, raced, crashed, link, inGame, target>>
      /\ main = "receive" /\ main' = "reply" /\ answer # Nullptr /\ answer' = Nullptr
      /\ responses' = Append(responses, answer)
  BY DEF Receive
<1>2. responses = <<>> /\ inGame = Nullptr
  BY <1>1 DEF Stage
<1>3. /\ responses' \in Seq(Message \cup {Nullptr}) /\ Len(responses') = 1
      /\ responses'[1] = answer
  BY <1>1, <1>2 DEF TypeOK
<1>4. Current' = Current
  BY <1>1, <1>2, <1>3 DEF Current
<1>5. Stage'
  BY <1>1, <1>2, <1>3 DEF Stage
<1>6. TypeOK'
  BY <1>1, <1>3 DEF TypeOK, ServerTypeOK, MainStates
<1> QED
  BY <1>1, <1>4, <1>5, <1>6, CurrentMoves

LEMMA ReceiveTimeoutKeeps ==
    ASSUME ServerAssumption, IInv, ReceiveTimeout PROVE IInv'
<1> USE DEF IInv
<1>1. /\ UNCHANGED <<connections, requests, worker, socket, opened, asked, got,
                     sole, raced, crashed, answer, target>>
      /\ main = "receive" /\ main' = "reply" /\ answer = Nullptr
      /\ link' = FALSE /\ inGame' = Nullptr
      /\ responses' = Append(responses, Nullptr)
  BY DEF ReceiveTimeout
<1>2. responses = <<>>
  BY <1>1 DEF Stage
<1>3. /\ responses' \in Seq(Message \cup {Nullptr}) /\ Len(responses') = 1
      /\ responses'[1] = Nullptr
  BY <1>1, <1>2
<1>4. Current' = Nullptr
  BY <1>1, <1>3 DEF Current
<1>5. Stage'
  BY <1>1, <1>3 DEF Stage
<1>6. TypeOK'
  BY <1>1, <1>3 DEF TypeOK, ServerTypeOK, MainStates
<1> QED
  BY <1>1, <1>4, <1>5, <1>6, CurrentMoves

LEMMA KeyPressedKeeps ==
    ASSUME ServerAssumption, IInv, KeyPressed PROVE IInv'
<1> USE DEF IInv
<1>1. /\ UNCHANGED <<connections, requests, responses, worker, socket, opened, asked, got,
                     sole, raced, crashed, link, inGame, answer, target>>
      /\ main = "poll" /\ main' = "over"
  BY DEF KeyPressed, server, game
<1>2. Current' = Current /\ Stage' /\ TypeOK'
  BY <1>1 DEF Current, Stage, TypeOK, ServerTypeOK, MainStates
<1> QED
  BY <1>1, <1>2, CurrentMoves
\* Without a race the front of the vector is the connection of a bot that is alone.
LEMMA FrontOfLoneBot ==
    ASSUME IInv, ~raced, sole # 0, NEW w \in Workers, worker[w] = "open"
    PROVE  Front = {w} /\ FrontIsSafe
<1> USE DEF IInv
<1>1. /\ connections \in Seq(Workers)
      /\ \A i \in DOMAIN connections : connections[i] \in Workers
  BY DEF TypeOK, ServerTypeOK
<1>2. \A v \in Workers : worker[v] # "free" => v = w
  BY DEF Alone, Senders
<1>3. \E i \in DOMAIN connections : connections[i] = w
  BY DEF Listed, Serving
<1>4. connections # <<>> /\ 1 \in DOMAIN connections /\ Head(connections) = connections[1]
  BY <1>1, <1>3
<1>5. connections[1] = w
  BY <1>1, <1>2, <1>4 DEF Listed, Serving
<1>6. InVector = {}
  BY <1>2 DEF InVector
<1> QED
  BY <1>4, <1>5, <1>6 DEF Front, FrontIsSafe

LEMMA ReadFrontKeeps ==
    ASSUME ServerAssumption, IInv, ReadFront PROVE IInv'
<1> USE DEF IInv
<1>1. /\ UNCHANGED <<connections, requests, responses, worker, socket, opened, asked, got,
                     sole, raced, crashed, link, inGame, answer>>
      /\ main = "reply" /\ main' = "write"
  BY DEF ReadFront, server, game
<1>2. PICK v \in Front : target' = {v}
  BY DEF ReadFront
<1>3. v \in Workers
  BY <1>2, FrontIsWorker
<1>4. TypeOK' /\ Stage'
  BY <1>1, <1>2, <1>3 DEF TypeOK, ServerTypeOK, MainStates, Stage
<1>5. Current' = Current
  BY <1>1 DEF Current
<1>6. InOrder' /\ Senders' /\ Alone' /\ Listed' /\ AnswersInOrder'
  BY <1>1, <1>5 DEF InOrder, Senders, Alone, Listed, Serving, AnswersInOrder
<1>7. Targeted'
  <2> SUFFICES ASSUME ~raced, sole # 0, NEW w \in Workers, worker[w] = "open"
               PROVE  target' = {w}
    BY <1>1 DEF Targeted
  <2> QED
    BY <1>2, FrontOfLoneBot
<1> QED
  BY <1>4, <1>6, <1>7

LEMMA WriteResponseKeeps ==
    ASSUME ServerAssumption, IInv, WriteResponse PROVE IInv'
<1> USE DEF IInv
<1> DEFINE m == Head(responses)
<1>1. /\ UNCHANGED <<connections, requests, worker, socket, opened, asked, sole, raced, crashed,
                     link, inGame, answer>>
      /\ main = "write" /\ main' = "poll" /\ m # Nullptr
      /\ target' = {} /\ responses' = Tail(responses)
  BY DEF WriteResponse, Popped, game
<1>2. PICK w \in target : got' = Written(w, m)
  BY DEF WriteResponse
<1>3. w \in Workers
  BY <1>2 DEF TypeOK
<1>4. /\ responses \in Seq(Message \cup {Nullptr}) /\ Len(responses) = 1
      /\ inGame = Nullptr /\ answer = Nullptr
  BY <1>1 DEF Stage, TypeOK, ServerTypeOK
<1>5. m = responses[1] /\ m \in Message /\ responses' = <<>>
  <2>1. responses # <<>>
    <3> SUFFICES ASSUME responses = <<>> PROVE FALSE
      OBVIOUS
    <3>1. Len(responses) = 0
      OBVIOUS
    <3> QED
      BY <3>1, <1>4
  <2>2. Len(responses') = 0 /\ responses' \in Seq(Message \cup {Nullptr})
        /\ m \in Message \cup {Nullptr}
    BY <1>1, <1>4, <2>1, HeadTailProperties
  <2>3. m = responses[1]
    BY <1>4, <2>1
  <2>4. responses' = <<>>
    BY <2>2, EmptySeq
  <2> QED
    BY <1>1, <2>2, <2>3, <2>4
<1> HIDE DEF m
<1>6. Current = m /\ Current' = Nullptr
  BY <1>1, <1>4, <1>5 DEF Current
<1>7. \A s \in Sockets : \A i \in DOMAIN got[s] : got[s][i].id < m.id
  BY <1>1, <1>6 DEF InOrder
<1>8. /\ got' \in [Sockets -> Seq(Message)]
      /\ \A s \in Sockets : \A i \in DOMAIN got'[s] :
             (i \in DOMAIN got[s] /\ got'[s][i] = got[s][i]) \/ got'[s][i] = m
  BY <1>2, <1>3, <1>5, WrittenFacts
<1>9. AnswersInOrder'
  BY <1>2, <1>3, <1>5, <1>7, WrittenInOrder
<1>10. TypeOK' /\ Stage'
  <2>1. responses' \in Seq(Message \cup {Nullptr})
    BY <1>5, EmptySeq
  <2>2. TypeOK'
    BY <1>1, <1>8, <2>1 DEF TypeOK, ServerTypeOK, MainStates
  <2>3. Stage'
    BY <1>1, <1>4, <1>5 DEF Stage
  <2> QED
    BY <2>2, <2>3
<1>11. /\ asked \in Nat /\ opened \in Nat /\ Nullptr.id = 0 /\ Nullptr.from = 0
       /\ \A i \in DOMAIN requests : requests[i].id \in Nat \ {0}
  BY Messages DEF TypeOK, ServerTypeOK, Nullptr, ServerAssumption
<1>12. InOrder'
  <2>1. \A i \in DOMAIN requests : m.id < requests[i].id
    BY <1>6 DEF InOrder
  <2>2. \A s \in Sockets : \A i \in DOMAIN got'[s] :
            got'[s][i].id <= asked /\ \A j \in DOMAIN requests : got'[s][i].id < requests[j].id
    BY <1>6, <1>8, <2>1 DEF InOrder
  <2> QED
    BY <1>1, <1>6, <1>11, <2>2 DEF InOrder
<1>13. Senders'
  <2>1. \A v \in Workers : worker[v] = "connecting" => socket[v] # 0
    BY DEF Senders
  <2> QED
    BY <1>1, <1>6, <1>11, <2>1 DEF Senders
<1>14. Alone' /\ Listed' /\ Targeted'
  BY <1>1 DEF Alone, Listed, Serving, Targeted
<1> QED
  BY <1>9, <1>10, <1>12, <1>13, <1>14

LEMMA CrashKeeps ==
    ASSUME IInv, Crash PROVE IInv'
<1> USE DEF IInv
<1>1. /\ UNCHANGED <<connections, requests, responses, worker, socket, opened, asked, got,
                     sole, raced, main, link, inGame, answer, target>>
      /\ crashed' = TRUE
  BY DEF Crash, game
<1>2. Current' = Current
  BY <1>1 DEF Current
<1> QED
  BY <1>1, <1>2 DEF TypeOK, ServerTypeOK, Stage, InOrder, Senders, Alone, Listed, Serving,
                    Targeted, AnswersInOrder

-----------------------------------------------------------------------------
(* The invariant.                                                          *)

LEMMA InitIInv == ASSUME ServerAssumption, Init PROVE IInv
<1>1. /\ connections = <<>> /\ requests = <<>> /\ responses = <<>>
      /\ worker = [w \in Workers |-> "free"] /\ socket = [w \in Workers |-> 0]
      /\ opened = 0 /\ asked = 0 /\ got = [s \in Sockets |-> <<>>] /\ sole = 0
      /\ raced = FALSE /\ crashed = FALSE
      /\ main = "poll" /\ link \in BOOLEAN /\ inGame = Nullptr /\ answer = Nullptr /\ target = {}
  BY DEF Init, ServerInit
<1>2. TypeOK
  <2>1. /\ connections \in Seq(Workers) /\ requests \in Seq(Message)
        /\ responses \in Seq(Message \cup {Nullptr})
        /\ \A s \in Sockets : <<>> \in Seq(Message)
    BY <1>1, EmptySeq
  <2>2. got \in [Sockets -> Seq(Message)]
    BY <1>1, <2>1
  <2>3. 0 \in 0..MaxSockets /\ 0 \in 0..MaxRequests
    BY DEF ServerAssumption
  <2>4. worker \in [Workers -> WorkerStates] /\ socket \in [Workers -> 0..MaxSockets]
    BY <1>1, <2>3 DEF WorkerStates
  <2>5. ServerTypeOK
    BY <1>1, <2>1, <2>2, <2>3, <2>4 DEF ServerTypeOK
  <2> QED
    BY <1>1, <2>5 DEF TypeOK, MainStates
<1>3. Current = Nullptr /\ Nullptr.id = 0 /\ Nullptr.from = 0
  BY <1>1 DEF Current, Nullptr
<1>4. DOMAIN requests = {} /\ DOMAIN connections = {} /\ \A s \in Sockets : DOMAIN got[s] = {}
  BY <1>1
<1>5. Stage /\ InOrder /\ Senders /\ Alone /\ Targeted /\ AnswersInOrder
  BY <1>1, <1>3, <1>4 DEF Stage, InOrder, Senders, Alone, Targeted, AnswersInOrder
<1>6. Listed
  BY <1>1, <1>4 DEF Listed, Serving
<1> QED
  BY <1>2, <1>5, <1>6 DEF IInv

LEMMA StutterKeeps == ASSUME IInv, UNCHANGED vars PROVE IInv'
<1>1. UNCHANGED <<connections, requests, responses, worker, socket, opened, asked, got, sole,
                  raced, crashed, main, link, inGame, answer, target>>
  BY DEF vars, server
<1> QED
  BY <1>1 DEF IInv, TypeOK, ServerTypeOK, Current, Stage, InOrder, Senders, Alone, Listed,
              Serving, Targeted, AnswersInOrder

LEMMA NextKeeps == ASSUME ServerAssumption, IInv, [Next]_vars PROVE IInv'
<1>1. CASE Main
  <2>1. CASE UndefinedBehaviour
    BY <2>1, CrashKeeps DEF UndefinedBehaviour
  <2> QED
    BY <1>1, <2>1, SendRequestKeeps, ReceiveKeeps, ReceiveTimeoutKeeps, ReadFrontKeeps,
       WriteResponseKeeps, KeyPressedKeeps DEF Main
<1>2. CASE Game
  BY <1>2, GameAnswersKeeps DEF Game
<1>3. CASE Workers_
  <2>1. PICK w \in Workers : Worker(w)
    BY <1>3 DEF Workers_
  <2>2. UNCHANGED <<main, game, target>>
    BY <1>3 DEF Workers_
  <2>3. \/ BeginConnect(w) \/ EndConnect(w) \/ QueueRequest(w) \/ BeginClose(w) \/ EndClose(w)
    BY <2>1 DEF Worker
  <2> QED
    BY <2>2, <2>3, BeginConnectKeeps, EndConnectKeeps, QueueRequestKeeps, BeginCloseKeeps,
       EndCloseKeeps
<1>4. CASE UNCHANGED vars
  BY <1>4, StutterKeeps
<1> QED
  BY <1>1, <1>2, <1>3, <1>4 DEF Next

\* The queues of the server, the vector of its connections and the main thread
\* of the proxy keep in step.
THEOREM IInvAlways == ASSUME ServerAssumption PROVE Spec => []IInv
<1>1. Init => IInv
  BY InitIInv
<1>2. IInv /\ [Next]_vars => IInv'
  BY NextKeeps
<1> QED
  BY <1>1, <1>2, PTL DEF Spec

\* For any number of bots no answer is sent twice, and every bot gets answers
\* in the order of the requests: QueueRequest, Receive, SendResponse.
THEOREM AnswersInOrderAlways == ASSUME ServerAssumption PROVE Spec => []AnswersInOrder
<1>1. IInv => AnswersInOrder
  BY DEF IInv
<1> QED
  BY <1>1, IInvAlways, PTL

\* No step disturbs the answer to a bot that is alone.
LEMMA StepServesLoneBot ==
    ASSUME ServerAssumption, IInv, Next, NEW m \in Message,
           main \in {"reply", "write"}, Head(responses) = m,
           m.from = sole, IsOpen(sole), ~raced
    PROVE  /\ ~crashed'
           /\ WriteResponse => got'[sole] = Append(got[sole], m)
<1> USE DEF IInv
<1>1. m # Nullptr /\ sole # 0 /\ sole \in Sockets
  BY DEF Message, Nullptr, Sockets, ServerAssumption
<1>2. PICK w \in Workers : worker[w] = "open" /\ socket[w] = sole
  BY DEF IsOpen
<1>3. Front = {w} /\ FrontIsSafe
  BY <1>1, <1>2, FrontOfLoneBot
<1>4. Current = m
  <2>1. responses \in Seq(Message \cup {Nullptr}) /\ Len(responses) = 1
    BY DEF Stage, TypeOK, ServerTypeOK
  <2> QED
    BY <2>1 DEF Current
<1>5. ~crashed
  BY DEF Next, Main, Game, Workers_, Worker
<1>6. ~crashed'
  <2>1. CASE Main
    <3>1. ~UndefinedBehaviour
      BY <1>1, <1>3 DEF UndefinedBehaviour
    <3> QED
      BY <1>5, <2>1, <3>1 DEF Main, SendRequest, Receive, ReceiveTimeout, ReadFront,
         WriteResponse, KeyPressed, server
  <2>2. CASE Game
    BY <1>5, <2>2 DEF Game, GameAnswers, server
  <2>3. CASE Workers_
    <3>1. PICK v \in Workers : Worker(v)
      BY <2>3 DEF Workers_
    <3>2. CASE BeginConnect(v) \/ QueueRequest(v) \/ BeginClose(v)
      BY <1>5, <3>2 DEF BeginConnect, QueueRequest, BeginClose
    <3>3. InVector = {}
      BY <1>3 DEF FrontIsSafe
    <3>4. ~EndConnect(v) /\ ~EndClose(v)
      BY <3>3 DEF EndConnect, EndClose, InVector
    <3> QED
      BY <3>1, <3>2, <3>4 DEF Worker
  <2> QED
    BY <2>1, <2>2, <2>3 DEF Next
<1>7. ASSUME WriteResponse PROVE got'[sole] = Append(got[sole], m)
  <2>1. main = "write"
    BY <1>7 DEF WriteResponse
  <2>2. target = {w}
    BY <1>1, <1>2, <1>4, <2>1 DEF Targeted
  <2>3. got' = Written(w, m)
    BY <1>7, <2>2 DEF WriteResponse
  <2>4. got' = [got EXCEPT ![sole] = Append(got[sole], m)]
    BY <1>2, <2>3 DEF Written
  <2> QED
    BY <1>1, <2>4 DEF TypeOK, ServerTypeOK
<1> QED
  BY <1>6, <1>7

\* A bot that is alone gets the answers to its requests, whichever bots came and
\* went before it: the handlers of the websockets and SendResponse.
THEOREM LoneBotIsServedAlways == ASSUME ServerAssumption PROVE Spec => LoneBotIsServed
<1> DEFINE Served ==
        \A m \in Message :
           /\ main \in {"reply", "write"} /\ Head(responses) = m
           /\ m.from = sole /\ IsOpen(sole) /\ ~raced
           => /\ ~crashed'
              /\ WriteResponse => got'[sole] = Append(got[sole], m)
<1>1. IInv /\ [Next]_vars => [Served]_vars
  <2>1. ASSUME IInv, Next PROVE Served
    BY <2>1, StepServesLoneBot
  <2> QED
    BY <2>1
<1>2. [][Served]_vars <=> LoneBotIsServed
  BY DEF LoneBotIsServed
<1> HIDE DEF Served
<1> QED
  BY <1>1, <1>2, IInvAlways, PTL DEF Spec
=============================================================================
