-------------------------------- MODULE Launch --------------------------------
(***************************************************************************)
(* How the coordinator starts the processes of the game, connects its      *)
(* clients to them and ends them (src/src/sc2api/sc2_coordinator.cc): the  *)
(* list process_info, the ports, and the restart of an observer's process. *)
(* Processes are external: they listen on the port they are given, and may *)
(* die at any time.                                                        *)
(***************************************************************************)
EXTENDS Integers, Sequences, FiniteSets

CONSTANTS Agents,        \* agents that may take part
          Observers,     \* the vector replay_observers_
          PortStart,     \* process_settings_.port_start
          MaxStarts,     \* bound on the processes started
          MaxLaunches    \* bound on the calls of LaunchStarcraft

ASSUME LaunchAssumption ==
    /\ PortStart \in Nat \ {0}
    /\ MaxStarts \in Nat
    /\ MaxLaunches \in Nat
    /\ Observers \in Seq({Observers[i] : i \in DOMAIN Observers})
    /\ \A i \in DOMAIN Observers : Observers[i] \notin Agents

Clients == Agents \cup {Observers[i] : i \in DOMAIN Observers}

VARIABLES
    agents,        \* agents_
    humans,        \* participants among player_setup, agents or not
    processInfo,   \* process_settings_.process_info
    pi,            \* pi_ of each client
    link,          \* the process it is connected to
    portOf,        \* the ports of the processes started, oldest first
    running,       \* those that run
    pids,          \* GetPids(), for the handler of signals
    lastPort,      \* last_port_
    started,       \* starcraft_started_
    gamePorts,     \* ports.shared_port and ports.server_ports
    clientPorts,   \* ports.client_ports
    launches,      \* calls of LaunchStarcraft
    over           \* the coordinator is destroyed

vars == <<agents, humans, processInfo, pi, link, portOf, running, pids, lastPort,
          started, gamePorts, clientPorts, launches, over>>
processes == <<processInfo, pi, link, portOf, running, pids>>
ports == <<gamePorts, clientPorts>>

None == 0          \* no process; processes are numbered from 1
Info == [pid : 0..MaxStarts, port : Nat]
NoInfo == [pid |-> None, port |-> 0]

TypeOK ==
    /\ agents \in Seq(Agents)
    /\ humans \in Nat
    /\ processInfo \in Seq(Info)
    /\ pi \in [Clients -> Info]
    /\ link \in [Clients -> 0..MaxStarts]
    /\ portOf \in Seq(Nat)
    /\ running \subseteq DOMAIN portOf
    /\ pids \subseteq DOMAIN portOf
    /\ lastPort \in Nat
    /\ started \in BOOLEAN
    /\ gamePorts \in Seq(Nat)
    /\ clientPorts \in Seq(Nat)
    /\ launches \in Nat
    /\ over \in BOOLEAN

Init ==
    /\ agents = <<>>
    /\ humans = 0
    /\ processInfo = <<>>
    /\ pi = [c \in Clients |-> NoInfo]
    /\ link = [c \in Clients |-> None]
    /\ portOf = <<>>
    /\ running = {}
    /\ pids = {}
    /\ lastPort = 0
    /\ started = FALSE
    /\ gamePorts = <<>>
    /\ clientPorts = <<>>
    /\ launches = 0
    /\ over = FALSE

-----------------------------------------------------------------------------

\* Connect to a port may fail, also where a process listens.
Reached(port) == {None} \cup {p \in running' : portOf'[p] = port}

\* The settings of the processes that LaunchProcesses starts: port_start +
\* process_info.size() - 1, before the entry of the process is added.
Started(n) ==
    [i \in 1..n |-> [pid |-> Len(portOf) + i, port |-> PortStart + Len(processInfo) + i - 2]]

\* LaunchProcess for each of the clients, and AttachClients, which takes the
\* port of the i-th client from the i-th entry of process_info.
LaunchProcesses(cs) ==
    LET n == Len(cs)
        IndexOf(c) == CHOOSE i \in 1..n : cs[i] = c
        Is(c) == \E i \in 1..n : cs[i] = c
    IN  /\ Len(portOf) + n <= MaxStarts
        /\ processInfo' = processInfo \o Started(n)
        /\ portOf' = portOf \o [i \in 1..n |-> Started(n)[i].port]
        /\ running' = running \cup (Len(portOf) + 1)..(Len(portOf) + n)
        /\ pids' = pids \cup (Len(portOf) + 1)..(Len(portOf) + n)
        /\ pi' = [c \in Clients |-> IF Is(c) THEN Started(n)[IndexOf(c)] ELSE pi[c]]
        /\ link' \in [Clients -> 0..MaxStarts]
        /\ \A c \in Clients :
               IF Is(c) THEN link'[c] \in Reached(processInfo'[IndexOf(c)].port)
               ELSE link'[c] = link[c]
        /\ lastPort' = Started(n)[n].port

\* SetParticipants: some participants play somewhere else.
SetParticipants(who, others) ==
    /\ ~over
    /\ agents' = who
    /\ humans' = Len(who) + others
    /\ UNCHANGED <<processes, lastPort, started, ports, launches, over>>

\* SetupPorts, beginning after port.  The mutant increments too late.
Numbered(port) ==
    /\ gamePorts' = <<port + 1, port + 2, port + 3>>
    /\ clientPorts' = clientPorts \o [i \in 1..(2 * (Len(agents) - 1)) |-> port + 3 + i]
SetupPortsLate(port) == IF humans > 1 THEN Numbered(port - 1) ELSE UNCHANGED ports   \* mutant
SetupPorts(port) == IF humans > 1 THEN Numbered(port) ELSE UNCHANGED ports

\* Coordinator::LaunchStarcraft.
LaunchStarcraft ==
    /\ ~over
    /\ launches < MaxLaunches
    /\ agents # <<>>
    /\ IF Len(processInfo) # Len(agents)
       THEN LaunchProcesses(agents)
       ELSE /\ lastPort' = 0
            /\ UNCHANGED processes
    /\ SetupPorts(lastPort')
    /\ started' = TRUE
    /\ launches' = launches + 1
    /\ UNCHANGED <<agents, humans, over>>

\* Where StartReplay starts the processes of all the observers.
StartReplay ==
    /\ ~over
    /\ Observers # <<>>
    /\ IF ~started THEN LaunchProcesses(Observers) ELSE UNCHANGED <<processes, lastPort>>
    /\ started' = TRUE
    /\ UNCHANGED <<agents, humans, ports, launches, over>>

\* The mutant forgets to count on.
SamePort == lastPort                                       \* mutant
NextPort == lastPort + 1

\* Relaunch, for an observer with an error.
Relaunch(o) ==
    LET pid == Len(portOf) + 1
        info == [pid |-> pid, port |-> NextPort]
    IN  /\ ~over
        /\ pi[o] # NoInfo
        /\ pid <= MaxStarts
        /\ processInfo' = Append(processInfo, info)
        /\ portOf' = Append(portOf, NextPort)
        /\ running' = (running \ {pi[o].pid}) \cup {pid}
        /\ pids' = (pids \ {pi[o].pid}) \cup {pid}
        /\ pi' = [pi EXCEPT ![o] = info]
        /\ \E p \in Reached(NextPort) : link' = [link EXCEPT ![o] = p]
        /\ lastPort' = NextPort
        /\ UNCHANGED <<agents, humans, started, ports, launches, over>>

\* A process ends by itself.
Dies(p) ==
    /\ p \in running
    /\ running' = running \ {p}
    /\ UNCHANGED <<agents, humans, processInfo, pi, link, portOf, pids, lastPort, started,
                   ports, launches, over>>

OnlyClients == {pi[c].pid : c \in Clients}                 \* mutant

\* The processes that ~CoordinatorImp terminates.
ToTerminate == {processInfo[i].pid : i \in DOMAIN processInfo}

Destroy ==
    /\ ~over
    /\ over' = TRUE
    /\ running' = running \ ToTerminate
    /\ pids' = pids \ ToTerminate
    /\ UNCHANGED <<agents, humans, processInfo, pi, link, portOf, lastPort, started, ports,
                   launches>>

\* A signal ends the program: KillRunningProcesses.
Signal ==
    /\ ~over
    /\ over' = TRUE
    /\ running' = running \ pids
    /\ pids' = {}
    /\ UNCHANGED <<agents, humans, processInfo, pi, link, portOf, lastPort, started, ports,
                   launches>>

Distinct(s) == \A i, j \in DOMAIN s : i # j => s[i] # s[j]
Participants == {who \in UNION {[1..n -> Agents] : n \in 1..Cardinality(Agents)} : Distinct(who)}

Next ==
    \/ \E who \in Participants, others \in {0, 1} : SetParticipants(who, others)
    \/ LaunchStarcraft
    \/ StartReplay
    \/ \E i \in DOMAIN Observers : Relaunch(Observers[i])
    \/ \E p \in running : Dies(p)
    \/ Destroy
    \/ Signal

Spec == Init /\ [][Next]_vars

-----------------------------------------------------------------------------
(* Properties.                                                             *)

\* How the repository uses a coordinator: it starts processes for agents, once,
\* or for observers, and restarts those.
ForObservers == \E i \in DOMAIN Observers : pi[Observers[i]] # NoInfo
OneUse == launches = 0 \/ (launches = 1 /\ ~ForObservers)

\* Then no port is used twice, by two processes or by a process and the game of
\* several agents: LaunchProcesses counts ports from process_info.size(),
\* Relaunch and SetupPorts count on from last_port_.  (LaunchStarcraft that
\* finds as many processes as agents makes last_port_ zero: from the second
\* time on Relaunch gives ports again that it gave before.)
NoPortTwice == OneUse => Distinct(portOf \o gamePorts \o clientPorts)

\* Then every client is connected to the process that GetProcessInfo names, and
\* that Relaunch kills, though AttachClients takes the port from the list and
\* not from the client.
OwnProcess == OneUse => \A c \in Clients : link[c] \in {None, pi[c].pid}

\* When the coordinator is gone, or the program was ended by a signal, no process
\* it started is left, also of earlier participants: the two lists of processes,
\* process_info and GetPids(), lack none that runs.
NothingIsLeft == over => running = {}
=============================================================================
