----------------------------- MODULE LaunchProofs -----------------------------
(***************************************************************************)
(* The ports and processes of a coordinator, for any number of agents and  *)
(* observers, restarts and deaths of processes.                            *)
(***************************************************************************)
EXTENDS Launch, SequenceTheorems, TLAPS

\* The lists of processes agree: the i-th entry is of the i-th process.
Aligned ==
    /\ Len(processInfo) = Len(portOf)
    /\ \A i \in DOMAIN portOf : processInfo[i] = [pid |-> i, port |-> portOf[i]]

\* Every process that runs is in the lists.
Listed == running \subseteq pids /\ (over => running = {})

\* No client knows a process where none was started.
Known == \A c \in Clients : pi[c] = NoInfo \/ portOf # <<>>

\* One use of the coordinator.
Fresh == ~started => launches = 0 /\ portOf = <<>>
ForAgents == launches = 0 /\ ~ForObservers => portOf = <<>>
NoGame == launches = 0 => gamePorts = <<>> /\ clientPorts = <<>>
Last == launches = 0 /\ portOf # <<>> => lastPort = PortStart + Len(portOf) - 2

\* Every port ever given is the next one.
Used == portOf \o gamePorts \o clientPorts
Counted == OneUse => \A k \in DOMAIN Used : Used[k] = PortStart + k - 2

IInv == TypeOK /\ Aligned /\ Listed /\ Known /\ Fresh /\ ForAgents /\ NoGame /\ Last
        /\ Counted /\ OwnProcess

-----------------------------------------------------------------------------
(* LaunchProcesses.                                                        *)

\* The elements of the second of two sequences put together.
LEMMA ConcatTail ==
    ASSUME NEW S, NEW s \in Seq(S), NEW t \in Seq(S)
    PROVE  \A i \in 1..Len(t) : (s \o t)[Len(s) + i] = t[i]
<1> SUFFICES ASSUME NEW i \in 1..Len(t)
             PROVE  (s \o t)[Len(s) + i] = t[i]
  OBVIOUS
<1>1. Len(s) \in Nat /\ Len(t) \in Nat
  OBVIOUS
<1> DEFINE k == Len(s) + i
<1>2. k \in 1..(Len(s) + Len(t)) /\ k > Len(s) /\ k - Len(s) = i
  BY <1>1
<1>3. (s \o t)[k] = t[k - Len(s)]
  BY <1>1, <1>2, ConcatProperties
<1> QED
  BY <1>2, <1>3

\* The processes it starts.
LEMMA StartedFacts ==
    ASSUME LaunchAssumption, TypeOK, NEW n \in Nat \ {0}, Len(portOf) + n <= MaxStarts
    PROVE  /\ Started(n) \in Seq(Info)
           /\ Len(Started(n)) = n
           /\ \A i \in 1..n : /\ Started(n)[i].pid = Len(portOf) + i
                              /\ Started(n)[i].port = PortStart + Len(processInfo) + i - 2
                              /\ Started(n)[i].port \in Nat
                              /\ Started(n)[i] \in Info
<1>1. /\ Len(portOf) \in Nat /\ Len(processInfo) \in Nat /\ MaxStarts \in Nat
      /\ PortStart \in Nat /\ PortStart >= 1
  BY DEF TypeOK, LaunchAssumption
<1>2. \A i \in 1..n : [pid |-> Len(portOf) + i, port |-> PortStart + Len(processInfo) + i - 2] \in Info
  BY <1>1 DEF Info
<1>3. Started(n) \in [1..n -> Info]
  BY <1>2 DEF Started
<1>4. Started(n) \in Seq(Info) /\ Len(Started(n)) = n
  BY <1>3
<1> QED
  BY <1>1, <1>3, <1>4 DEF Started, Info

\* Two sequences that count on, put together.
LEMMA CountsOn ==
    ASSUME NEW a \in Int, NEW s \in Seq(Nat), NEW t \in Seq(Nat),
           \A i \in 1..Len(s) : s[i] = a + i,
           \A i \in 1..Len(t) : t[i] = a + Len(s) + i
    PROVE  /\ s \o t \in Seq(Nat) /\ Len(s \o t) = Len(s) + Len(t)
           /\ \A i \in 1..Len(s \o t) : (s \o t)[i] = a + i
<1>1. s \o t \in Seq(Nat) /\ Len(s \o t) = Len(s) + Len(t)
      /\ \A i \in 1..(Len(s) + Len(t)) :
             (s \o t)[i] = IF i <= Len(s) THEN s[i] ELSE t[i - Len(s)]
  BY ConcatProperties
<1>2. Len(s) \in Nat /\ Len(t) \in Nat
  OBVIOUS
<1>3. ASSUME NEW i \in 1..(Len(s) + Len(t))
      PROVE  (s \o t)[i] = a + i
  <2>1. CASE i <= Len(s)
    <3>1. i \in 1..Len(s)
      BY <1>2, <2>1
    <3> QED
      BY <1>1, <2>1, <3>1
  <2>2. CASE ~(i <= Len(s))
    <3> DEFINE j == i - Len(s)
    <3>1. j \in 1..Len(t) /\ Len(s) + j = i
      BY <1>2, <2>2
    <3>2. (s \o t)[i] = t[j]
      BY <1>1, <2>2
    <3>3. t[j] = a + Len(s) + j
      BY <3>1
    <3> HIDE DEF j
    <3>4. a + Len(s) + j = a + i
      BY <1>2, <3>1
    <3> QED
      BY <3>2, <3>3, <3>4
  <2> QED
    BY <2>1, <2>2
<1> QED
  BY <1>1, <1>3

\* What every call of it does to the lists.
LEMMA LaunchFacts ==
    ASSUME LaunchAssumption, TypeOK, Aligned, NEW cs \in Seq(Clients), cs # <<>>,
           LaunchProcesses(cs)
    PROVE  LET n == Len(cs)
           IN  /\ n \in Nat /\ n >= 1
               /\ processInfo' \in Seq(Info) /\ portOf' \in Seq(Nat)
               /\ Len(portOf') = Len(portOf) + n
               /\ \A i \in 1..Len(portOf) : portOf'[i] = portOf[i]
               /\ \A i \in 1..n : portOf'[Len(portOf) + i] = PortStart + Len(portOf) + i - 2
               /\ Aligned'
               /\ pi' \in [Clients -> Info]
               /\ lastPort' = PortStart + Len(portOf) + n - 2
               /\ lastPort' \in Nat
<1> DEFINE n == Len(cs)
<1>1. n \in Nat \ {0}
  BY EmptySeq
<1>2. /\ Len(portOf) + n <= MaxStarts
      /\ processInfo' = processInfo \o Started(n)
      /\ portOf' = portOf \o [i \in 1..n |-> Started(n)[i].port]
      /\ lastPort' = Started(n)[n].port
  BY DEF LaunchProcesses
<1>3. pi' = [c \in Clients |-> IF \E i \in 1..n : cs[i] = c
                               THEN Started(n)[CHOOSE i \in 1..n : cs[i] = c] ELSE pi[c]]
  BY DEF LaunchProcesses
<1>4. processInfo \in Seq(Info) /\ portOf \in Seq(Nat) /\ pi \in [Clients -> Info]
      /\ Len(portOf) \in Nat /\ Len(processInfo) = Len(portOf)
  BY DEF TypeOK, Aligned
<1> HIDE DEF n
<1>5. /\ Started(n) \in Seq(Info)
      /\ Len(Started(n)) = n
      /\ \A i \in 1..n : /\ Started(n)[i].pid = Len(portOf) + i
                         /\ Started(n)[i].port = PortStart + Len(portOf) + i - 2
                         /\ Started(n)[i].port \in Nat
                         /\ Started(n)[i] \in Info
  BY <1>1, <1>2, <1>4, StartedFacts
<1> DEFINE new == [i \in 1..n |-> Started(n)[i].port]
<1>6. new \in Seq(Nat) /\ Len(new) = n /\ \A i \in 1..n : new[i] = Started(n)[i].port
  <2>1. new \in [1..n -> Nat]
    BY <1>5
  <2> QED
    BY <1>1, <2>1
<1> HIDE DEF new
<1>7. portOf' = portOf \o new
  BY <1>2 DEF new
<1>8. portOf' \in Seq(Nat) /\ Len(portOf') = Len(portOf) + n
  BY <1>4, <1>6, <1>7, ConcatProperties
<1>9. \A i \in 1..Len(portOf) : portOf'[i] = portOf[i]
  BY <1>1, <1>4, <1>6, <1>7, ConcatProperties
<1>10. \A i \in 1..n : portOf'[Len(portOf) + i] = new[i]
  BY <1>1, <1>4, <1>6, <1>7, ConcatProperties
<1>11. processInfo' \in Seq(Info) /\ Len(processInfo') = Len(portOf')
  BY <1>2, <1>4, <1>5, <1>8, ConcatProperties
<1>12. \A i \in 1..Len(portOf) : processInfo'[i] = processInfo[i]
  BY <1>1, <1>2, <1>4, <1>5, ConcatProperties
<1>13. \A i \in 1..n : processInfo'[Len(portOf) + i] = Started(n)[i]
  <2> DEFINE st == Started(n)
  <2>1. st \in Seq(Info) /\ Len(st) = n /\ processInfo' = processInfo \o st
    BY <1>2, <1>5
  <2> HIDE DEF st
  <2>2. \A i \in 1..n : (processInfo \o st)[Len(processInfo) + i] = st[i]
    BY <1>1, <1>4, <2>1, ConcatTail
  <2> QED
    BY <1>4, <2>1, <2>2 DEF st
<1>14. Aligned'
  <2> SUFFICES ASSUME NEW i \in DOMAIN portOf'
               PROVE  processInfo'[i] = [pid |-> i, port |-> portOf'[i]]
    BY <1>11 DEF Aligned
  <2>1. i \in 1..(Len(portOf) + n)
    BY <1>8
  <2>2. CASE i \in 1..Len(portOf)
    BY <1>4, <1>9, <1>12, <2>2 DEF Aligned
  <2>3. CASE i \notin 1..Len(portOf)
    <3> DEFINE j == i - Len(portOf)
    <3>1. j \in 1..n /\ i = Len(portOf) + j
      BY <1>1, <1>4, <2>1, <2>3
    <3>2. processInfo'[i] = Started(n)[j] /\ portOf'[i] = Started(n)[j].port
      BY <1>6, <1>10, <1>13, <3>1
    <3>3. Started(n)[j] \in [pid : 0..MaxStarts, port : Nat] /\ Started(n)[j].pid = i
      BY <1>5, <3>1 DEF Info
    <3> QED
      BY <3>2, <3>3
  <2> QED
    BY <2>2, <2>3
<1>15. pi' \in [Clients -> Info]
  BY <1>3, <1>4, <1>5
<1>16. lastPort' = PortStart + Len(portOf) + n - 2 /\ lastPort' \in Nat
  BY <1>1, <1>2, <1>5
<1> QED
  BY <1>1, <1>5, <1>6, <1>8, <1>9, <1>10, <1>11, <1>14, <1>15, <1>16 DEF n

\* The processes started run and are in the list for signals.
LEMMA LaunchRuns ==
    ASSUME LaunchAssumption, TypeOK, Aligned, Listed, ~over, UNCHANGED over,
           NEW cs \in Seq(Clients), cs # <<>>, LaunchProcesses(cs)
    PROVE  /\ running' \subseteq DOMAIN portOf'
           /\ pids' \subseteq DOMAIN portOf'
           /\ Listed'
           /\ Known'
           /\ link' \in [Clients -> 0..MaxStarts]
           /\ portOf' # <<>>
<1> DEFINE n == Len(cs)
<1>1. n \in Nat /\ n >= 1 /\ portOf' \in Seq(Nat) /\ Len(portOf') = Len(portOf) + n
  BY LaunchFacts
<1>2. /\ running' = running \cup (Len(portOf) + 1)..(Len(portOf) + n)
      /\ pids' = pids \cup (Len(portOf) + 1)..(Len(portOf) + n)
      /\ link' \in [Clients -> 0..MaxStarts]
  BY DEF LaunchProcesses
<1>3. running \subseteq 1..Len(portOf) /\ pids \subseteq 1..Len(portOf) /\ Len(portOf) \in Nat
  BY DEF TypeOK
<1> HIDE DEF n
<1>4. DOMAIN portOf' = 1..(Len(portOf) + n)
  BY <1>1
<1>5. portOf' # <<>>
  BY <1>1, <1>3
<1>6. running' \subseteq DOMAIN portOf' /\ pids' \subseteq DOMAIN portOf'
  <2> DEFINE l == Len(portOf)
  <2>1. /\ l \in Nat /\ running \subseteq 1..l /\ pids \subseteq 1..l
        /\ running' = running \cup (l + 1)..(l + n)
        /\ pids' = pids \cup (l + 1)..(l + n)
        /\ DOMAIN portOf' = 1..(l + n)
    BY <1>2, <1>3, <1>4
  <2> HIDE DEF l
  <2>2. (1..l) \cup ((l + 1)..(l + n)) \subseteq 1..(l + n)
    BY <1>1, <2>1
  <2> QED
    BY <2>1, <2>2
<1>7. Listed'
  BY <1>2 DEF Listed
<1>8. Known'
  BY <1>5 DEF Known
<1>9. link' \in [Clients -> 0..MaxStarts]
  BY <1>2
<1> QED
  BY <1>5, <1>6, <1>7, <1>8, <1>9

\* When all ports differ, a client reaches its own process or none.
LEMMA LaunchLinks ==
    ASSUME LaunchAssumption, TypeOK, Aligned, Listed, ~over, UNCHANGED over,
           NEW cs \in Seq(Clients), cs # <<>>, LaunchProcesses(cs),
           portOf = <<>>,
           \A c \in Clients : link[c] \in {None, pi[c].pid}
    PROVE  \A c \in Clients : link'[c] \in {None, pi'[c].pid}
<1> SUFFICES ASSUME NEW c \in Clients
             PROVE  link'[c] \in {None, pi'[c].pid}
  OBVIOUS
<1> DEFINE n == Len(cs)
           i == CHOOSE i \in 1..n : cs[i] = c
<1>1. /\ pi'[c] = IF \E k \in 1..n : cs[k] = c THEN Started(n)[i] ELSE pi[c]
      /\ IF \E k \in 1..n : cs[k] = c
         THEN link'[c] \in Reached(processInfo'[i].port) ELSE link'[c] = link[c]
      /\ Len(portOf) + n <= MaxStarts
  BY DEF LaunchProcesses
<1>2. CASE ~\E k \in 1..n : cs[k] = c
  BY <1>1, <1>2
<1>3. CASE \E k \in 1..n : cs[k] = c
  <2>1. i \in 1..n
    BY <1>3
  <2>2. link'[c] \in Reached(processInfo'[i].port) /\ pi'[c] = Started(n)[i]
    BY <1>1, <1>3
  <2> HIDE DEF i
  <2>3. /\ n \in Nat /\ n >= 1 /\ portOf' \in Seq(Nat) /\ Len(portOf') = Len(portOf) + n
        /\ \A k \in 1..n : portOf'[Len(portOf) + k] = PortStart + Len(portOf) + k - 2
        /\ Aligned'
    BY LaunchFacts
  <2>4. running' \subseteq DOMAIN portOf'
    BY LaunchRuns
  <2>5. Started(n)[i].pid = Len(portOf) + i
    BY <1>1, <2>1, <2>3, StartedFacts
  <2> HIDE DEF n
  <2>6. /\ Len(portOf) = 0 /\ PortStart \in Nat
        /\ DOMAIN portOf' = 1..n
        /\ \A k \in 1..n : portOf'[k] = PortStart + k - 2
    BY <2>3 DEF LaunchAssumption
  <2>7. processInfo'[i] = [pid |-> i, port |-> portOf'[i]]
    BY <2>1, <2>6, <2>3 DEF Aligned
  <2>8. ASSUME NEW p \in running', portOf'[p] = processInfo'[i].port
        PROVE  p = i
    BY <2>1, <2>3, <2>4, <2>6, <2>7, <2>8
  <2>9. link'[c] \in {None, i}
    BY <2>2, <2>8 DEF Reached
  <2> QED
    BY <2>1, <2>2, <2>5, <2>6, <2>9
<1> QED
  BY <1>2, <1>3

-----------------------------------------------------------------------------
(* The steps.                                                              *)

LEMMA NothingFollows ==
    ASSUME NEW s \in Seq(Nat)
    PROVE  s \o <<>> \o <<>> = s
OBVIOUS

LEMMA InitIInv ==
    ASSUME LaunchAssumption, Init
    PROVE  IInv
<1>1. TypeOK
  <2>1. MaxStarts \in Nat /\ None \in 0..MaxStarts /\ NoInfo \in Info
    BY DEF LaunchAssumption, NoInfo, Info, None
  <2>2. pi \in [Clients -> Info] /\ link \in [Clients -> 0..MaxStarts]
    BY <2>1 DEF Init
  <2>3. /\ agents \in Seq(Agents) /\ processInfo \in Seq(Info) /\ portOf \in Seq(Nat)
        /\ gamePorts \in Seq(Nat) /\ clientPorts \in Seq(Nat)
    BY DEF Init
  <2> QED
    BY <2>2, <2>3 DEF Init, TypeOK
<1>2. Aligned /\ Listed /\ Known /\ Fresh /\ ForAgents /\ NoGame /\ Last /\ OwnProcess
  BY DEF Init, Aligned, Listed, Known, Fresh, ForAgents, NoGame, Last, OwnProcess, None
<1>3. Used = <<>>
  <2>1. portOf = <<>> /\ gamePorts = <<>> /\ clientPorts = <<>>
    BY DEF Init
  <2> QED
    BY <2>1, NothingFollows DEF Used
<1>4. Counted
  BY <1>3 DEF Counted
<1> QED
  BY <1>1, <1>2, <1>4 DEF IInv

LEMMA ParticipantsFacts ==
    ASSUME NEW who \in Participants
    PROVE  who \in Seq(Agents) /\ Len(who) \in Nat
<1>1. PICK n \in 1..Cardinality(Agents) : who \in [1..n -> Agents]
  BY DEF Participants
<1>2. n \in Nat
  BY <1>1
<1>3. who \in Seq(Agents)
  BY <1>1, <1>2
<1> QED
  BY <1>3, LenProperties

\* The participants change: no port and no process does.
LEMMA SetParticipantsKeeps ==
    ASSUME IInv, NEW who \in Participants, NEW others \in {0, 1},
           SetParticipants(who, others)
    PROVE  IInv'
<1>1. who \in Seq(Agents) /\ Len(who) + others \in Nat
  BY ParticipantsFacts
<1>2. UNCHANGED <<processInfo, pi, link, portOf, running, pids, lastPort, started,
                  gamePorts, clientPorts, launches, over>> /\ agents' = who
      /\ humans' = Len(who) + others
  BY DEF SetParticipants, processes, ports
<1>3. TypeOK'
  BY <1>1, <1>2 DEF IInv, TypeOK
<1>4. Aligned' /\ Listed' /\ Known' /\ Fresh' /\ ForAgents' /\ NoGame' /\ Last'
  BY <1>2 DEF IInv, Aligned, Listed, Known, Fresh, ForAgents, ForObservers, NoGame, Last
<1>5. Counted' /\ OwnProcess'
  BY <1>2 DEF IInv, Counted, Used, OwnProcess, OneUse, ForObservers
<1> QED
  BY <1>3, <1>4, <1>5 DEF IInv

\* A process ends, or all that run do.
LEMMA EndKeeps ==
    ASSUME IInv, running' \subseteq running, pids' \subseteq pids, running' \subseteq pids',
           over' \in BOOLEAN, over' => running' = {},
           UNCHANGED <<agents, humans, processInfo, pi, link, portOf, lastPort, started,
                       gamePorts, clientPorts, launches>>
    PROVE  IInv'
<1>1. TypeOK'
  BY DEF IInv, TypeOK
<1>2. Aligned' /\ Listed' /\ Known' /\ Fresh' /\ ForAgents' /\ NoGame' /\ Last'
  BY DEF IInv, Aligned, Listed, Known, Fresh, ForAgents, ForObservers, NoGame, Last
<1>3. Counted' /\ OwnProcess'
  BY DEF IInv, Counted, Used, OwnProcess, OneUse, ForObservers
<1> QED
  BY <1>1, <1>2, <1>3 DEF IInv

LEMMA EndsKeep ==
    ASSUME IInv, (\E p \in running : Dies(p)) \/ Destroy \/ Signal
    PROVE  IInv'
<1>1. over \in BOOLEAN /\ running \subseteq pids /\ (over => running = {})
  BY DEF IInv, TypeOK, Listed
<1>2. CASE \E p \in running : Dies(p)
  <2>1. running' \subseteq running /\ pids' = pids /\ over' = over
        /\ UNCHANGED <<agents, humans, processInfo, pi, link, portOf, lastPort, started,
                       gamePorts, clientPorts, launches>>
    BY <1>2 DEF Dies, ports
  <2> QED
    BY <1>1, <2>1, EndKeeps
<1>3. CASE Destroy
  <2>1. running \subseteq ToTerminate
    <3>1. running \subseteq DOMAIN portOf /\ portOf \in Seq(Nat) /\ processInfo \in Seq(Info)
          /\ Len(processInfo) = Len(portOf)
          /\ \A i \in DOMAIN portOf : processInfo[i] = [pid |-> i, port |-> portOf[i]]
      BY DEF IInv, TypeOK, Aligned
    <3>2. DOMAIN processInfo = DOMAIN portOf
      BY <3>1
    <3> QED
      BY <3>1, <3>2 DEF ToTerminate
  <2>2. running' = {} /\ pids' \subseteq pids /\ over' = TRUE
        /\ UNCHANGED <<agents, humans, processInfo, pi, link, portOf, lastPort, started,
                       gamePorts, clientPorts, launches>>
    BY <1>3, <2>1 DEF Destroy, ports
  <2> QED
    BY <1>1, <2>2, EndKeeps
<1>4. CASE Signal
  <2>1. running' = {} /\ pids' = {} /\ over' = TRUE
        /\ UNCHANGED <<agents, humans, processInfo, pi, link, portOf, lastPort, started,
                       gamePorts, clientPorts, launches>>
    BY <1>1, <1>4 DEF Signal, ports
  <2> QED
    BY <1>1, <2>1, EndKeeps
<1> QED
  BY <1>2, <1>3, <1>4

\* What both calls of LaunchProcesses leave behind, from nothing.
LEMMA FirstLaunch ==
    ASSUME LaunchAssumption, IInv, ~over, UNCHANGED over, portOf = <<>>, launches = 0,
           NEW cs \in Seq(Clients), cs # <<>>, LaunchProcesses(cs)
    PROVE  /\ portOf' \in Seq(Nat) /\ Len(portOf') = Len(cs)
           /\ Len(cs) \in Nat /\ Len(cs) >= 1
           /\ \A i \in 1..Len(cs) : portOf'[i] = PortStart + i - 2
           /\ lastPort' = PortStart + Len(portOf') - 2
           /\ \A c \in Clients : link'[c] \in {None, pi'[c].pid}
<1>1. TypeOK /\ Aligned /\ Listed /\ (\A c \in Clients : link[c] \in {None, pi[c].pid})
  BY DEF IInv, OwnProcess, OneUse
<1>2. \A c \in Clients : link'[c] \in {None, pi'[c].pid}
  BY <1>1, LaunchLinks
<1>3. Len(portOf) = 0
  OBVIOUS
<1> DEFINE n == Len(cs)
<1>4. /\ n \in Nat /\ n >= 1 /\ portOf' \in Seq(Nat) /\ Len(portOf') = 0 + n
      /\ \A i \in 1..n : portOf'[0 + i] = PortStart + 0 + i - 2
      /\ lastPort' = PortStart + 0 + n - 2 /\ PortStart \in Nat
  BY <1>1, <1>3, LaunchFacts DEF LaunchAssumption
<1> HIDE DEF n
<1>5. Len(portOf') = n /\ lastPort' = PortStart + Len(portOf') - 2
      /\ \A i \in 1..n : portOf'[i] = PortStart + i - 2
  BY <1>4
<1> QED
  BY <1>2, <1>4, <1>5 DEF n

\* The vector of observers is a sequence of clients, as are the agents.
LEMMA ClientsFacts ==
    ASSUME LaunchAssumption, TypeOK
    PROVE  /\ Observers \in Seq(Clients)
           /\ agents \in Seq(Clients)
           /\ \A i \in DOMAIN Observers : Observers[i] \in Clients /\ Observers[i] \notin Agents
<1> DEFINE Obs == {Observers[i] : i \in DOMAIN Observers}
<1>1. Observers \in Seq(Obs) /\ Obs \subseteq Clients /\ Agents \subseteq Clients
  BY DEF LaunchAssumption, Clients
<1>2. Observers \in Seq(Clients)
  BY <1>1, SeqMonotonic
<1>3. agents \in Seq(Clients)
  BY <1>1, SeqMonotonic DEF TypeOK
<1>4. \A i \in DOMAIN Observers : Observers[i] \in Clients /\ Observers[i] \notin Agents
  BY DEF LaunchAssumption, Clients
<1> QED
  BY <1>2, <1>3, <1>4

\* Then an observer has a process.
LEMMA ObserversKnown ==
    ASSUME LaunchAssumption, TypeOK, Observers # <<>>, LaunchProcesses(Observers)
    PROVE  ForObservers'
<1> DEFINE n == Len(Observers)
           c == Observers[1]
           i == CHOOSE i \in 1..n : Observers[i] = c
<1>1. Observers \in Seq(Clients) /\ n \in Nat /\ n >= 1 /\ 1 \in DOMAIN Observers /\ c \in Clients
  BY ClientsFacts
<1>2. Len(portOf) + n <= MaxStarts /\ Len(portOf) \in Nat
  BY DEF LaunchProcesses, TypeOK
<1>3. i \in 1..n
  BY <1>1
<1>4. pi'[c] = Started(n)[i]
  <2>1. pi' = [d \in Clients |-> IF \E k \in 1..n : Observers[k] = d
                               THEN Started(n)[CHOOSE k \in 1..n : Observers[k] = d] ELSE pi[d]]
    BY DEF LaunchProcesses
  <2>2. \E k \in 1..n : Observers[k] = c
    BY <1>1
  <2> QED
    BY <1>1, <2>1, <2>2
<1> HIDE DEF i
<1>5. Started(n)[i].pid = Len(portOf) + i
  <2>1. n \in Nat \ {0}
    BY <1>1
  <2> HIDE DEF n
  <2> QED
    BY <1>2, <1>3, <2>1, StartedFacts
<1>6. pi'[c].pid # 0
  <2>1. pi'[c].pid = Len(portOf) + i
    BY <1>4, <1>5
  <2> HIDE DEF c
  <2>2. Len(portOf) + i # 0
    <3> DEFINE l == Len(portOf)
    <3>1. l \in Nat /\ i \in Nat /\ i >= 1
      BY <1>1, <1>2, <1>3
    <3> HIDE DEF l
    <3> QED
      BY <3>1 DEF l
  <2> QED
    BY <2>1, <2>2
<1>7. pi'[c] # NoInfo
  BY <1>6 DEF NoInfo, None
<1> QED
  BY <1>1, <1>7 DEF ForObservers

LEMMA StartReplayKeeps ==
    ASSUME LaunchAssumption, IInv, StartReplay
    PROVE  IInv'
<1>1. /\ ~over /\ Observers # <<>> /\ started' = TRUE
      /\ UNCHANGED <<agents, humans, gamePorts, clientPorts, launches, over>>
  BY DEF StartReplay, ports
<1>2. CASE started
  <2>1. UNCHANGED <<processInfo, pi, link, portOf, running, pids, lastPort>>
    BY <1>2 DEF StartReplay, processes
  <2>2. TypeOK'
    BY <1>1, <2>1 DEF IInv, TypeOK
  <2>3. Aligned' /\ Listed' /\ Known' /\ Fresh' /\ ForAgents' /\ NoGame' /\ Last'
    BY <1>1, <2>1 DEF IInv, Aligned, Listed, Known, Fresh, ForAgents, ForObservers, NoGame, Last
  <2>4. Counted' /\ OwnProcess'
    BY <1>1, <2>1 DEF IInv, Counted, Used, OwnProcess, OneUse, ForObservers
  <2> QED
    BY <2>2, <2>3, <2>4 DEF IInv
<1>3. CASE ~started
  <2>1. LaunchProcesses(Observers)
    BY <1>3 DEF StartReplay
  <2>2. TypeOK /\ Aligned /\ Listed /\ launches = 0 /\ portOf = <<>>
        /\ gamePorts = <<>> /\ clientPorts = <<>>
    BY <1>3 DEF IInv, Fresh, NoGame
  <2>3. Observers \in Seq(Clients)
        /\ (\A i \in DOMAIN Observers : Observers[i] \in Clients)
    BY <2>2, ClientsFacts
  <2>4. /\ processInfo' \in Seq(Info) /\ portOf' \in Seq(Nat) /\ Aligned'
        /\ pi' \in [Clients -> Info] /\ lastPort' \in Nat
    BY <1>1, <2>1, <2>2, <2>3, LaunchFacts
  <2>5. /\ running' \subseteq DOMAIN portOf' /\ pids' \subseteq DOMAIN portOf'
        /\ Listed' /\ Known' /\ link' \in [Clients -> 0..MaxStarts] /\ portOf' # <<>>
    BY <1>1, <2>1, <2>2, <2>3, LaunchRuns
  <2>6. /\ Len(portOf') = Len(Observers) /\ Len(Observers) \in Nat /\ Len(Observers) >= 1
        /\ \A i \in 1..Len(Observers) : portOf'[i] = PortStart + i - 2
        /\ lastPort' = PortStart + Len(portOf') - 2
        /\ \A c \in Clients : link'[c] \in {None, pi'[c].pid}
    BY <1>1, <2>1, <2>2, <2>3, FirstLaunch
  <2>7. TypeOK'
    BY <1>1, <2>4, <2>5 DEF IInv, TypeOK
  <2>8. ForObservers'
    BY <1>1, <2>1, <2>2, <2>3, <2>6, ObserversKnown
  <2>9. Fresh' /\ ForAgents' /\ NoGame' /\ Last' /\ OwnProcess'
    BY <1>1, <2>2, <2>6, <2>8 DEF Fresh, ForAgents, NoGame, Last, OwnProcess
  <2>10. Counted'
    <3>1. Used' = portOf'
      BY <1>1, <2>2, <2>4, NothingFollows DEF Used
    <3>2. DOMAIN portOf' = 1..Len(Observers)
      BY <2>4, <2>6
    <3> QED
      BY <2>6, <3>1, <3>2 DEF Counted
  <2> QED
    BY <2>4, <2>5, <2>7, <2>9, <2>10 DEF IInv
<1> QED
  BY <1>2, <1>3

\* A restart of an observer's process.
LEMMA RelaunchKeeps ==
    ASSUME LaunchAssumption, IInv, NEW k \in DOMAIN Observers, Relaunch(Observers[k])
    PROVE  IInv'
<1> DEFINE o == Observers[k]
           pid == Len(portOf) + 1
           info == [pid |-> pid, port |-> NextPort]
<1>1. TypeOK /\ Aligned /\ Listed /\ Known /\ Last
  BY DEF IInv
<1>2. o \in Clients
  BY <1>1, ClientsFacts
<1>3. /\ ~over /\ pi[o] # NoInfo /\ pid <= MaxStarts
      /\ processInfo' = Append(processInfo, info)
      /\ portOf' = Append(portOf, NextPort)
      /\ running' = (running \ {pi[o].pid}) \cup {pid}
      /\ pids' = (pids \ {pi[o].pid}) \cup {pid}
      /\ pi' = [pi EXCEPT ![o] = info]
      /\ lastPort' = NextPort
      /\ UNCHANGED <<agents, humans, started, gamePorts, clientPorts, launches, over>>
  BY DEF Relaunch, ports
<1>4. PICK p \in Reached(NextPort) : link' = [link EXCEPT ![o] = p]
  BY DEF Relaunch
<1>5. /\ portOf \in Seq(Nat) /\ processInfo \in Seq(Info) /\ Len(portOf) \in Nat
      /\ Len(processInfo) = Len(portOf) /\ NextPort \in Nat /\ NextPort = lastPort + 1
      /\ pid \in Nat /\ pid \in 0..MaxStarts /\ PortStart \in Nat
  BY <1>1, <1>3 DEF TypeOK, Aligned, NextPort, LaunchAssumption
<1>6. info \in Info
  BY <1>5 DEF Info
<1> HIDE DEF o
<1>7. /\ portOf' \in Seq(Nat) /\ Len(portOf') = pid /\ DOMAIN portOf' = 1..pid
      /\ \A i \in 1..Len(portOf) : portOf'[i] = portOf[i]
      /\ portOf'[pid] = NextPort
  <2>1. /\ portOf' \in Seq(Nat) /\ Len(portOf') = Len(portOf) + 1
        /\ \A i \in 1..Len(portOf) : portOf'[i] = portOf[i]
        /\ portOf'[Len(portOf) + 1] = NextPort
    BY <1>3, <1>5, AppendProperties
  <2> QED
    BY <2>1
<1>8. /\ processInfo' \in Seq(Info) /\ Len(processInfo') = pid
      /\ \A i \in 1..Len(portOf) : processInfo'[i] = processInfo[i]
      /\ processInfo'[pid] = info
  <2>1. /\ processInfo' \in Seq(Info) /\ Len(processInfo') = Len(processInfo) + 1
        /\ \A i \in 1..Len(processInfo) : processInfo'[i] = processInfo[i]
        /\ processInfo'[Len(processInfo) + 1] = info
    <3> HIDE DEF info
    <3> QED
      BY <1>3, <1>5, <1>6, AppendProperties
  <2> QED
    BY <1>5, <2>1
<1>9. pid # 0 /\ Len(portOf) < pid /\ info.pid = pid /\ info.port = NextPort
  BY <1>5
<1>10. Aligned'
  <2> SUFFICES ASSUME NEW i \in 1..pid
               PROVE  processInfo'[i] = [pid |-> i, port |-> portOf'[i]]
    BY <1>7, <1>8 DEF Aligned
  <2>1. CASE i = pid
    BY <1>7, <1>8, <2>1
  <2>2. CASE i # pid
    <3>1. i \in 1..Len(portOf)
      BY <1>5, <2>2
    <3>2. processInfo[i] = [pid |-> i, port |-> portOf[i]]
      BY <1>1, <1>5, <3>1 DEF Aligned
    <3>3. processInfo'[i] = processInfo[i] /\ portOf'[i] = portOf[i]
      BY <1>7, <1>8, <3>1
    <3> QED
      BY <3>2, <3>3
  <2> QED
    BY <2>1, <2>2
<1>11. running' \subseteq 1..pid /\ pids' \subseteq 1..pid
  <2>1. running \subseteq 1..Len(portOf) /\ pids \subseteq 1..Len(portOf)
    BY <1>1 DEF TypeOK
  <2>2. \A q \in 1..Len(portOf) : q \in 1..pid
    BY <1>5
  <2>3. pid \in 1..pid
    BY <1>5
  <2> HIDE DEF pid
  <2> QED
    BY <1>3, <2>1, <2>2, <2>3
<1> HIDE DEF pid, info
<1>12. Listed'
  BY <1>1, <1>3 DEF Listed
<1>13. pi' \in [Clients -> Info] /\ pi'[o] = info /\ pi'[o] # NoInfo
       /\ \A c \in Clients : c # o => pi'[c] = pi[c]
  <2>1. pi' \in [Clients -> Info] /\ pi'[o] = info /\ \A c \in Clients : c # o => pi'[c] = pi[c]
    BY <1>1, <1>2, <1>3, <1>6 DEF TypeOK
  <2>2. info.pid # NoInfo.pid
    BY <1>9 DEF NoInfo, None
  <2> QED
    BY <2>1, <2>2
<1>14. p = None \/ (p \in running' /\ portOf'[p] = NextPort)
  BY <1>4 DEF Reached
<1>15. p \in 0..MaxStarts
  BY <1>3, <1>5, <1>11, <1>14 DEF None
<1>16. link' \in [Clients -> 0..MaxStarts] /\ link'[o] = p
       /\ \A c \in Clients : c # o => link'[c] = link[c]
  BY <1>1, <1>2, <1>4, <1>15 DEF TypeOK
<1>17. TypeOK'
  BY <1>1, <1>3, <1>5, <1>7, <1>8, <1>11, <1>13, <1>16 DEF TypeOK
<1>18. ForObservers /\ ForObservers' /\ portOf # <<>> /\ portOf' # <<>>
  <2>1. \E i \in DOMAIN Observers : Observers[i] = o
    BY DEF o
  <2>2. portOf # <<>>
    BY <1>1, <1>2, <1>3 DEF Known
  <2>3. portOf' # <<>>
    BY <1>5, <1>7, <1>9
  <2> QED
    BY <1>3, <1>13, <2>1, <2>2, <2>3 DEF ForObservers
<1>19. Known' /\ Fresh' /\ ForAgents' /\ NoGame'
  BY <1>3, <1>18 DEF IInv, Known, Fresh, ForAgents, NoGame
<1>20. ASSUME launches = 0
       PROVE  NextPort = PortStart + pid - 2
  BY <1>1, <1>5, <1>18, <1>20 DEF Last, pid
<1>21. Last'
  BY <1>3, <1>7, <1>20 DEF Last
<1>22. ASSUME OneUse'
       PROVE  /\ launches = 0 /\ gamePorts' = <<>> /\ clientPorts' = <<>>
              /\ \A i \in 1..pid : portOf'[i] = PortStart + i - 2
              /\ \A c \in Clients : link[c] \in {None, pi[c].pid}
  <2>1. launches = 0
    BY <1>3, <1>18, <1>22 DEF OneUse
  <2>2. gamePorts = <<>> /\ clientPorts = <<>> /\ Used = portOf
    BY <1>5, <2>1, NothingFollows DEF IInv, NoGame, Used
  <2>3. OneUse /\ \A c \in Clients : link[c] \in {None, pi[c].pid}
    BY <2>1 DEF OneUse, IInv, OwnProcess
  <2>4. \A i \in 1..Len(portOf) : portOf'[i] = PortStart + i - 2
    <3>1. \A i \in DOMAIN portOf : portOf[i] = PortStart + i - 2
      BY <2>2, <2>3 DEF IInv, Counted
    <3>2. DOMAIN portOf = 1..Len(portOf)
      BY <1>5
    <3> QED
      BY <1>7, <3>1, <3>2
  <2>5. \A i \in 1..pid : i \in 1..Len(portOf) \/ i = pid
    BY <1>5 DEF pid
  <2> QED
    BY <1>3, <1>7, <1>20, <2>1, <2>2, <2>3, <2>4, <2>5
<1>23. Counted'
  BY <1>7, <1>22, NothingFollows DEF Counted, Used
<1>24. OwnProcess'
  <2> SUFFICES ASSUME OneUse', NEW c \in Clients
               PROVE  link'[c] \in {None, pi'[c].pid}
    BY DEF OwnProcess
  <2>1. CASE c # o
    BY <1>13, <1>16, <1>22, <2>1
  <2>2. CASE c = o
    <3>1. ASSUME p \in running', portOf'[p] = NextPort
          PROVE  p = pid
      BY <1>5, <1>11, <1>20, <1>22, <3>1
    <3> QED
      BY <1>9, <1>13, <1>14, <1>16, <2>2, <3>1
  <2> QED
    BY <2>1, <2>2
<1> QED
  BY <1>10, <1>12, <1>17, <1>19, <1>21, <1>23, <1>24 DEF IInv

\* The ports for the game count on from a port.
LEMMA NumberedFacts ==
    ASSUME NEW port \in Nat, TypeOK, agents # <<>>, SetupPorts(port)
    PROVE  /\ gamePorts' \in Seq(Nat) /\ clientPorts' \in Seq(Nat)
           /\ gamePorts = <<>> /\ clientPorts = <<>>
              => \A a \in Int : \A s \in Seq(Nat) :
                     port = a + Len(s) /\ (\A i \in 1..Len(s) : s[i] = a + i)
                     => \A k \in DOMAIN (s \o gamePorts' \o clientPorts') :
                            (s \o gamePorts' \o clientPorts')[k] = a + k
<1>1. gamePorts \in Seq(Nat) /\ clientPorts \in Seq(Nat)
  BY DEF TypeOK
<1>2. CASE humans > 1
  <2> DEFINE m == 2 * (Len(agents) - 1)
             more == [i \in 1..m |-> port + 3 + i]
  <2>1. Len(agents) \in Nat /\ Len(agents) >= 1
    BY EmptySeq DEF TypeOK
  <2>2. m \in Nat
    BY <2>1
  <2>3. gamePorts' = <<port + 1, port + 2, port + 3>> /\ clientPorts' = clientPorts \o more
    BY <1>2 DEF SetupPorts, Numbered
  <2> HIDE DEF m
  <2>4. more \in Seq(Nat) /\ Len(more) = m /\ \A i \in 1..m : more[i] = port + 3 + i
    BY <2>2
  <2> HIDE DEF more
  <2>5. /\ gamePorts' \in Seq(Nat) /\ Len(gamePorts') = 3
        /\ \A i \in 1..3 : gamePorts'[i] = port + i
    BY <2>3
  <2>6. clientPorts' \in Seq(Nat)
    BY <1>1, <2>3, <2>4, ConcatProperties
  <2>7. ASSUME gamePorts = <<>>, clientPorts = <<>>, NEW a \in Int, NEW s \in Seq(Nat),
               port = a + Len(s), \A i \in 1..Len(s) : s[i] = a + i
        PROVE  \A k \in DOMAIN (s \o gamePorts' \o clientPorts') :
                   (s \o gamePorts' \o clientPorts')[k] = a + k
    <3> DEFINE g == gamePorts'
               t == s \o g
    <3>1. clientPorts' = more
      BY <2>3, <2>4, <2>7
    <3>2. g \in Seq(Nat) /\ Len(g) = 3 /\ \A i \in 1..Len(g) : g[i] = a + Len(s) + i
      BY <2>5, <2>7
    <3> HIDE DEF g
    <3>3. t \in Seq(Nat) /\ Len(t) = Len(s) + 3 /\ \A i \in 1..Len(t) : t[i] = a + i
      <4>1. /\ s \o g \in Seq(Nat) /\ Len(s \o g) = Len(s) + Len(g)
            /\ \A i \in 1..Len(s \o g) : (s \o g)[i] = a + i
        <5>1. \A i \in 1..Len(s) : s[i] = a + i
          BY <2>7
        <5>2. g \in Seq(Nat) /\ \A i \in 1..Len(g) : g[i] = a + Len(s) + i
          BY <3>2
        <5> QED
          BY <5>1, <5>2, CountsOn
      <4> QED
        BY <3>2, <4>1
    <3> HIDE DEF t
    <3>4. \A i \in 1..Len(more) : more[i] = a + Len(t) + i
      <4>1. port + 3 = a + Len(t)
        BY <2>7, <3>3
      <4> QED
        BY <2>4, <4>1
    <3>5. t \o more \in Seq(Nat) /\ \A i \in 1..Len(t \o more) : (t \o more)[i] = a + i
      BY <2>4, <3>3, <3>4, CountsOn
    <3>6. DOMAIN (t \o more) = 1..Len(t \o more)
      BY <3>5
    <3> QED
      BY <3>1, <3>5, <3>6 DEF t, g
  <2> QED
    BY <2>5, <2>6, <2>7
<1>3. CASE ~(humans > 1)
  <2>1. gamePorts' = gamePorts /\ clientPorts' = clientPorts
    BY <1>3 DEF SetupPorts, ports
  <2>2. ASSUME gamePorts = <<>>, clientPorts = <<>>, NEW a \in Int, NEW s \in Seq(Nat),
               \A i \in 1..Len(s) : s[i] = a + i
        PROVE  \A k \in DOMAIN (s \o gamePorts' \o clientPorts') :
                   (s \o gamePorts' \o clientPorts')[k] = a + k
    <3>1. s \o gamePorts' \o clientPorts' = s
      BY <2>1, <2>2, NothingFollows
    <3>2. DOMAIN s = 1..Len(s)
      OBVIOUS
    <3> QED
      BY <2>2, <3>1, <3>2
  <2> QED
    BY <1>1, <2>1, <2>2
<1> QED
  BY <1>2, <1>3

\* Agents' processes: the first and only launch in one use.
LEMMA LaunchStarcraftKeeps ==
    ASSUME LaunchAssumption, IInv, LaunchStarcraft
    PROVE  IInv'
<1>1. TypeOK /\ Aligned /\ Listed /\ Known /\ launches \in Nat
  BY DEF IInv, TypeOK
<1>2. /\ ~over /\ agents # <<>> /\ started' = TRUE /\ launches' = launches + 1
      /\ UNCHANGED <<agents, humans, over>> /\ SetupPorts(lastPort')
  BY DEF LaunchStarcraft
<1>3. agents \in Seq(Clients)
  BY <1>1, ClientsFacts
<1>4. /\ processInfo' \in Seq(Info) /\ portOf' \in Seq(Nat) /\ Aligned'
      /\ pi' \in [Clients -> Info] /\ lastPort' \in Nat
      /\ running' \subseteq DOMAIN portOf' /\ pids' \subseteq DOMAIN portOf'
      /\ Listed' /\ Known' /\ link' \in [Clients -> 0..MaxStarts]
  <2>1. CASE Len(processInfo) # Len(agents)
    <3>1. LaunchProcesses(agents)
      BY <2>1 DEF LaunchStarcraft
    <3>2. /\ processInfo' \in Seq(Info) /\ portOf' \in Seq(Nat) /\ Aligned'
          /\ pi' \in [Clients -> Info] /\ lastPort' \in Nat
      BY <1>1, <1>2, <1>3, <3>1, LaunchFacts
    <3>3. /\ running' \subseteq DOMAIN portOf' /\ pids' \subseteq DOMAIN portOf'
          /\ Listed' /\ Known' /\ link' \in [Clients -> 0..MaxStarts]
      BY <1>1, <1>2, <1>3, <3>1, LaunchRuns
    <3> QED
      BY <3>2, <3>3
  <2>2. CASE Len(processInfo) = Len(agents)
    <3>1. lastPort' = 0 /\ UNCHANGED <<processInfo, pi, link, portOf, running, pids>>
      BY <2>2 DEF LaunchStarcraft, processes
    <3> QED
      BY <1>1, <1>2, <3>1 DEF TypeOK, Aligned, Listed, Known
  <2> QED
    BY <2>1, <2>2
<1>5. gamePorts' \in Seq(Nat) /\ clientPorts' \in Seq(Nat)
  BY <1>1, <1>2, <1>4, NumberedFacts
<1>6. TypeOK'
  BY <1>1, <1>2, <1>4, <1>5 DEF TypeOK
<1>7. launches' # 0
  BY <1>1, <1>2
<1>8. Fresh' /\ ForAgents' /\ NoGame' /\ Last'
  BY <1>2, <1>7 DEF Fresh, ForAgents, NoGame, Last
<1>9. ASSUME OneUse'
      PROVE  portOf = <<>> /\ launches = 0 /\ gamePorts = <<>> /\ clientPorts = <<>>
             /\ LaunchProcesses(agents)
  <2>1. launches = 0 /\ ~ForObservers'
    BY <1>1, <1>2, <1>7, <1>9 DEF OneUse
  <2>2. \A i \in DOMAIN Observers : pi'[Observers[i]] = pi[Observers[i]]
    <3> SUFFICES ASSUME NEW i \in DOMAIN Observers
                 PROVE  pi'[Observers[i]] = pi[Observers[i]]
      OBVIOUS
    <3>1. Observers[i] \in Clients /\ Observers[i] \notin Agents
      BY <1>1, ClientsFacts
    <3>2. CASE LaunchProcesses(agents)
      <4>1. ~\E k \in 1..Len(agents) : agents[k] = Observers[i]
        BY <1>1, <3>1 DEF TypeOK
      <4>2. pi' = [c \in Clients |-> IF \E k \in 1..Len(agents) : agents[k] = c
                                   THEN Started(Len(agents))[CHOOSE k \in 1..Len(agents) : agents[k] = c]
                                   ELSE pi[c]]
        BY <3>2 DEF LaunchProcesses
      <4> QED
        BY <3>1, <4>1, <4>2
    <3>3. CASE UNCHANGED pi
      BY <3>3
    <3> QED
      BY <3>2, <3>3 DEF LaunchStarcraft, processes
  <2>3. ~ForObservers
    BY <2>1, <2>2 DEF ForObservers
  <2>4. portOf = <<>> /\ gamePorts = <<>> /\ clientPorts = <<>>
    BY <2>1, <2>3 DEF IInv, ForAgents, NoGame
  <2>5. Len(processInfo) = 0
    BY <1>1, <2>4 DEF Aligned
  <2>6. Len(agents) # 0
    BY <1>2, <1>3, EmptySeq
  <2>7. LaunchProcesses(agents)
    BY <2>5, <2>6 DEF LaunchStarcraft
  <2> QED
    BY <2>1, <2>4, <2>7
<1>10. ASSUME OneUse'
       PROVE  /\ portOf' \in Seq(Nat) /\ Len(portOf') = Len(agents)
              /\ Len(agents) \in Nat /\ Len(agents) >= 1
              /\ \A i \in 1..Len(agents) : portOf'[i] = PortStart + i - 2
              /\ lastPort' = PortStart + Len(portOf') - 2
              /\ \A c \in Clients : link'[c] \in {None, pi'[c].pid}
  BY <1>2, <1>3, <1>9, <1>10, FirstLaunch
<1>11. OwnProcess'
  BY <1>10 DEF OwnProcess
<1>12. Counted'
  <2> SUFFICES ASSUME OneUse', NEW k \in DOMAIN Used'
               PROVE  Used'[k] = PortStart + k - 2
    BY DEF Counted
  <2> DEFINE l == Len(portOf')
             a == PortStart - 2
  <2>1. /\ l \in Nat /\ PortStart \in Nat /\ lastPort' = PortStart + l - 2
        /\ \A i \in 1..l : portOf'[i] = PortStart + i - 2
    BY <1>10 DEF LaunchAssumption
  <2>2. a \in Int /\ lastPort' = a + l /\ \A i \in 1..l : portOf'[i] = a + i
    <3> HIDE DEF l
    <3> QED
      BY <2>1
  <2> HIDE DEF a
  <2>3. \A j \in DOMAIN (portOf' \o gamePorts' \o clientPorts') :
            (portOf' \o gamePorts' \o clientPorts')[j] = a + j
    BY <1>1, <1>2, <1>4, <1>9, <2>2, NumberedFacts
  <2>4. Used'[k] = a + k
    BY <2>3 DEF Used
  <2>5. k \in Nat
    BY <1>4, <1>5, ConcatProperties DEF Used
  <2> QED
    BY <2>1, <2>4, <2>5 DEF a
<1> QED
  BY <1>4, <1>6, <1>8, <1>11, <1>12 DEF IInv

-----------------------------------------------------------------------------
(* The theorems.                                                           *)

LEMMA NextKeeps ==
    ASSUME LaunchAssumption, IInv, [Next]_vars
    PROVE  IInv'
<1>1. CASE Next
  <2>1. CASE \E who \in Participants, others \in {0, 1} : SetParticipants(who, others)
    BY <2>1, SetParticipantsKeeps
  <2>2. CASE LaunchStarcraft
    BY <2>2, LaunchStarcraftKeeps
  <2>3. CASE StartReplay
    BY <2>3, StartReplayKeeps
  <2>4. CASE \E i \in DOMAIN Observers : Relaunch(Observers[i])
    BY <2>4, RelaunchKeeps
  <2>5. CASE (\E p \in running : Dies(p)) \/ Destroy \/ Signal
    BY <2>5, EndsKeep
  <2> QED
    BY <1>1, <2>1, <2>2, <2>3, <2>4, <2>5 DEF Next
<1>2. CASE UNCHANGED vars
  <2>1. UNCHANGED <<agents, humans, processInfo, pi, link, portOf, running, pids, lastPort,
                    started, gamePorts, clientPorts, launches, over>>
    BY <1>2 DEF vars
  <2>2. running \subseteq pids /\ over \in BOOLEAN /\ (over => running = {})
    BY DEF IInv, Listed, TypeOK
  <2> QED
    BY <2>1, <2>2, EndKeeps
<1> QED
  BY <1>1, <1>2

\* The two lists of processes agree with those that run, and in one use of the
\* coordinator the ports are given in sequence from port_start - 1 on.
THEOREM IInvAlways == ASSUME LaunchAssumption PROVE Spec => []IInv
<1>1. Init => IInv
  BY InitIInv
<1>2. IInv /\ [Next]_vars => IInv'
  BY NextKeeps
<1> QED
  BY <1>1, <1>2, PTL DEF Spec

\* For any number of agents and observers and any number of restarts no port is
\* used twice in one use of the coordinator: LaunchProcess, SetupPorts, Relaunch.
THEOREM NoPortTwiceAlways == ASSUME LaunchAssumption PROVE Spec => []NoPortTwice
<1>1. IInv => NoPortTwice
  <2> SUFFICES ASSUME IInv, OneUse, NEW i \in DOMAIN Used, NEW j \in DOMAIN Used, i # j
               PROVE  Used[i] # Used[j]
    BY DEF NoPortTwice, Distinct, Used
  <2>1. Used[i] = PortStart + i - 2 /\ Used[j] = PortStart + j - 2
    BY DEF IInv, Counted
  <2>2. Used \in Seq(Nat)
    BY ConcatProperties DEF IInv, TypeOK, Used
  <2>3. i \in Nat /\ j \in Nat /\ PortStart \in Nat
    BY <2>2 DEF LaunchAssumption
  <2> QED
    BY <2>1, <2>3
<1> QED
  BY <1>1, IInvAlways, PTL

\* Every client is connected to the process Relaunch would kill: AttachClients.
THEOREM OwnProcessAlways == ASSUME LaunchAssumption PROVE Spec => []OwnProcess
<1>1. IInv => OwnProcess
  BY DEF IInv
<1> QED
  BY <1>1, IInvAlways, PTL

\* Nothing the coordinator started outlives it: ~CoordinatorImp and
\* KillRunningProcesses.
THEOREM NothingIsLeftAlways == ASSUME LaunchAssumption PROVE Spec => []NothingIsLeft
<1>1. IInv => NothingIsLeft
  BY DEF IInv, Listed, NothingIsLeft
<1> QED
  BY <1>1, IInvAlways, PTL
=============================================================================
