----------------------------- MODULE Coordinator -----------------------------
(***************************************************************************)
(* sc2::Coordinator with its agents (src/src/sc2api/sc2_coordinator.cc):   *)
(* StartGame, Update in its threaded, non-threaded and realtime forms,     *)
(* LeaveGame, and the calls of the agents' control interfaces they make    *)
(* (src/src/sc2api/sc2_client.cc), one step per request sent and per       *)
(* response waited for.  What a request and a wait do to one client's      *)
(* session is in module ClientSession.                                     *)
(*                                                                         *)
(* The game applications (external) follow the table of states in          *)
(* sc2api.proto.  Those of a multiplayer game synchronise: a join_game or  *)
(* a step is answered once every player asked for it.                      *)
(***************************************************************************)
EXTENDS Clients, FiniteSets

CONSTANTS MaxAgents,   \* bound on the agents that take part
          MaxGames,    \* bound on the games the program starts
          Settings     \* the settings it may have

\* The number of agents, process_settings_.multi_threaded and .realtime,
\* whether requests may time out and games die, and what the program around
\* the coordinator does: whether it calls LeaveGame, WaitForAllResponses, and
\* Update after an Update returned false, and how many games it starts.
SettingsType == [agents : 1..MaxAgents, multi_threaded : BOOLEAN, realtime : BOOLEAN,
                 failures : BOOLEAN, leaves : BOOLEAN, waits : BOOLEAN,
                 keeps_updating : BOOLEAN, games : 0..MaxGames]

ASSUME CoordinatorAssumption ==
    /\ MaxAgents \in Nat \ {0} /\ MaxGames \in Nat
    /\ Settings \subseteq SettingsType
    /\ {"create_game", "join_game", "leave_game", "step", "observation",
        "action", "query"} \subseteq Types

VARIABLES
    settings,   \* chosen before the game applications are launched
    pc,         \* where the processing of each agent is
    phase,      \* where the program's thread is
    turn,       \* the agent whose turn it is in a sequential loop
    updated,    \* what the last Update (or JoinGame) returned
    games,      \* games started
    ends,       \* calls of OnGameEnd since OnGameStart, per agent (at most 2)
    left        \* whether LeaveGame was called in this game

coordinator == <<settings, phase, turn, updated, games, left>>
clients == <<ses, pc, ends>>
vars == <<coordinator, clients, game>>

N == settings.agents
Agents == 1..N
MultiThreaded == settings.multi_threaded
Realtime == settings.realtime
Failures == settings.failures

\* SetupPorts gives the game ports, which make it a multiplayer game for
\* RequestJoinGame, when there is more than one participant.
Multiplayer == N > 1

Phases == {"idle",      \* not in a call of the coordinator
           "create", "joining", "waitjoin", "joined", "firstlook", "started", "start",
           "parallel",  \* RunParallel, or step_agent for the only agent
           "sequence",  \* the loop over the agents on one thread
           "polling",   \* WaitForAllResponses
           "exited",    \* the program ended or called exit(1)
           "crashed"}   \* a null pointer was dereferenced

Pcs == {"done", "poll", "step", "look", "observe", "call", "recheck", "events", "query",
        "actions", "acting", "feature", "featuring", "endcheck"}

\* No call of the coordinator is being made.
Ended == {"exited", "crashed"}
Outside == {"idle"} \cup Ended

Games == {"launched", "init_game", "in_game", "ended"} \cup Lost

TypeOK ==
    /\ settings \in Settings
    /\ ses \in [Agents -> SessionType]
    /\ pc \in [Agents -> Pcs]
    /\ phase \in Phases
    /\ turn \in 0..N
    /\ updated \in BOOLEAN
    /\ games \in 0..MaxGames
    /\ ends \in [Agents -> 0..2]
    /\ left \in BOOLEAN
    /\ inst \in [Agents -> Games]
    /\ asked \in [Agents -> Types \cup {"none"}]
    /\ ready \in [Agents -> ResponseType \cup {NoResponse}]

\* LaunchStarcraft has started and connected every client.
Init ==
    /\ settings \in Settings
    /\ ses = [a \in Agents |-> [NewSession EXCEPT !.status = "launched",
                                                  !.connected = TRUE]]
    /\ pc = [a \in Agents |-> "done"]
    /\ phase = "idle"
    /\ turn = 0
    /\ updated = FALSE
    /\ games = 0
    /\ ends = [a \in Agents |-> 0]
    /\ left = FALSE
    /\ inst = [a \in Agents |-> "launched"]
    /\ asked = [a \in Agents |-> "none"]
    /\ ready = [a \in Agents |-> NoResponse]

-----------------------------------------------------------------------------
(* The game applications (external).                                       *)

Valid(a, t) ==
    CASE t = "create_game" -> \/ inst[a] = "launched"
                              \/ inst[a] = "ended" /\ ~Multiplayer
      [] t = "join_game" -> \/ inst[a] = "init_game"
                            \/ inst[a] = "launched" /\ Multiplayer
      [] t \in {"step", "action"} -> inst[a] = "in_game"
      [] OTHER -> inst[a] \in {"in_game", "ended"}

StateAfter(a, t) ==
    CASE t = "create_game" -> "init_game"
      [] t = "leave_game" -> "launched"
      [] OTHER -> inst[a]

Synchronous == {"join_game", "step"}

\* What a request of a that is not answered may have done after all: one that
\* waits for the other players has not.
LateEffects(a) ==
    IF asked[a] \notin Synchronous /\ Valid(a, asked[a]) THEN {StateAfter(a, asked[a])}
    ELSE {}

-----------------------------------------------------------------------------
(* Requests and responses of one agent.                                    *)

\* WaitForResponse returns.
Wait(a) == ResponseComes(a) \/ (Failures /\ NoResponseComes(a, LateEffects(a)))

\* Agent a goes on at p.
Goto(a, p) == pc' = [pc EXCEPT ![a] = p]

-----------------------------------------------------------------------------
(* The processing of one agent in Update: step_agent and CallOnStep.       *)

\* The error PollLeaveGame reports on its way.
PollLeaveErrors(s) ==
    IF Multiplayer /\ s.pending \notin {"none", "leave_game"}
    THEN Error(s, "ResponseNotConsumed") ELSE s

\* ControlImp::PollLeaveGame returns true: in a multiplayer game, while the
\* response of leave_game is pending and when the agent is not in a game.
LeaveNotAwaited(a) ==                                      \* mutant
    Multiplayer /\ ses[a].pending # "leave_game" /\ ~IsInGame(ses[a])
LeavesGame(a) ==
    Multiplayer /\ (ses[a].pending # "leave_game" => ~IsInGame(ses[a]))

\* What it does: it consumes the leave_game response, if there is one.
PollLeaveGame(a) ==
    IF ses[a].pending = "leave_game" /\ PollResponse(a)
    THEN ResponseComes(a)
    ELSE /\ ses' = [ses EXCEPT ![a] = PollLeaveErrors(@)]
         /\ UNCHANGED game

\* No early return of step_agent applies to agent a, which is at p; the loop
\* after it goes on to CallOnStep even when the game is finished.
Passes(a, p) ==
    /\ ses[a].app = "normal"
    /\ ~LeavesGame(a)
    /\ p = "poll" => ~IsFinishedGame(ses[a])

SkipAgent(a) ==
    /\ pc[a] \in {"poll", "recheck"}
    /\ ~Passes(a, pc[a])
    /\ IF ses[a].app = "normal" THEN PollLeaveGame(a) ELSE UNCHANGED <<ses, game>>
    /\ Goto(a, "done")
    /\ UNCHANGED <<coordinator, ends>>

\* step_agent: Step; whether the request went out or not, WaitStep follows.
Step(a) ==
    /\ ~Realtime
    /\ pc[a] = "poll" /\ Passes(a, "poll")
    /\ Request(a, PollLeaveErrors(ses[a]), "step")
    /\ Goto(a, "step")
    /\ UNCHANGED <<coordinator, ends>>

\* Where a goes once it has an observation or failed to get one.
CallLater == IF Realtime THEN "events" ELSE "done"         \* mutant
AfterObservation ==
    IF Realtime THEN "events" ELSE IF MultiThreaded THEN "call" ELSE "done"

WaitStep(a) ==
    /\ pc[a] = "step"
    /\ Wait(a)
    /\ Goto(a, IF ready[a].type = "step" /\ ~ready[a].error THEN "look"
               ELSE AfterObservation)
    /\ UNCHANGED <<coordinator, ends>>

\* GetObservation from s; it gives up at next.
Observes(a, s) == s.app = "normal" /\ Outcome(a, s, "observation").sent
GetObservation(a, s, next) ==
    /\ IF s.app = "normal" THEN Request(a, s, "observation")
       ELSE ses' = [ses EXCEPT ![a] = s] /\ UNCHANGED game
    /\ Goto(a, IF Observes(a, s) THEN "observe" ELSE next)

Observe(a) ==
    /\ \/ /\ pc[a] = "look"
          /\ GetObservation(a, ses[a], AfterObservation)
       \/ /\ Realtime
          /\ pc[a] = "poll" /\ Passes(a, "poll")
          /\ GetObservation(a, PollLeaveErrors(ses[a]), AfterObservation)
    /\ UNCHANGED <<coordinator, ends>>

\* To report that there is no response, GetObservation looks at its type, which
\* crashes the program.
WaitObservation(a) ==
    /\ phase # "firstlook"
    /\ pc[a] = "observe"
    /\ Wait(a)
    /\ phase' = IF PollResponse(a) THEN phase ELSE "crashed"
    /\ Goto(a, AfterObservation)
    /\ UNCHANGED <<settings, turn, updated, games, left, ends>>

\* The second loop of StepAgents reaches CallOnStep.
Recheck(a) ==
    /\ pc[a] = "recheck" /\ Passes(a, "recheck")
    /\ ses' = [ses EXCEPT ![a] = PollLeaveErrors(@)]
    /\ Goto(a, "call")
    /\ UNCHANGED <<coordinator, ends, game>>

NeverLeave(a) == UNCHANGED <<ses, game>>                   \* mutant
RequestLeaveGame(a) ==
    IF Multiplayer THEN Request(a, ses[a], "leave_game") ELSE UNCHANGED <<ses, game>>

\* CallOnStep and StepAgentsRealtime: OnGameEnd and RequestLeaveGame.
AfterEnd == "done"

EndGame(a) ==
    /\ pc[a] \in {"call", "endcheck"}
    /\ ~IsInGame(ses[a])
    /\ ends' = [ends EXCEPT ![a] = IF @ = 2 THEN 2 ELSE @ + 1]
    /\ RequestLeaveGame(a)
    /\ Goto(a, AfterEnd)
    /\ UNCHANGED coordinator

StayInGame(a) ==
    /\ pc[a] \in {"call", "endcheck"}
    /\ IsInGame(ses[a])
    /\ Goto(a, IF pc[a] = "call" THEN "events" ELSE "done")
    /\ UNCHANGED <<coordinator, ends, ses, game>>

\* JoinGame issues events too, but sends no actions.
AfterEvents == IF phase = "start" THEN "done" ELSE "actions"

\* IssueEvents: OnStep and the other callbacks, which may query the game.
IssueEvents(a) ==
    /\ pc[a] = "events"
    /\ \/ Goto(a, AfterEvents) /\ UNCHANGED <<ses, game>>
       \/ /\ Request(a, ses[a], "query")
          /\ Goto(a, IF Outcome(a, ses[a], "query").sent THEN "query" ELSE AfterEvents)
    /\ UNCHANGED <<coordinator, ends>>

WaitQuery(a) ==
    /\ pc[a] = "query"
    /\ Wait(a)
    /\ Goto(a, AfterEvents)
    /\ UNCHANGED <<coordinator, ends>>

\* Where a goes after SendActions: to those of its ActionFeatureLayerInterface,
\* which StepAgentsRealtime leaves out.
AfterActions(p) ==
    IF p \in {"feature", "featuring"} THEN "done" ELSE IF Realtime THEN "endcheck" ELSE "feature"

\* SendActions: there may be nothing to send.
SendActions(a) ==
    /\ pc[a] \in {"actions", "feature"}
    /\ \/ Goto(a, AfterActions(pc[a])) /\ UNCHANGED <<ses, game>>
       \/ /\ Request(a, ses[a], "action")
          /\ Goto(a, IF ~Outcome(a, ses[a], "action").sent THEN AfterActions(pc[a])
                     ELSE IF pc[a] = "actions" THEN "acting" ELSE "featuring")
    /\ UNCHANGED <<coordinator, ends>>

WaitActions(a) ==
    /\ pc[a] \in {"acting", "featuring"}
    /\ Wait(a)
    /\ Goto(a, AfterActions(pc[a]))
    /\ UNCHANGED <<coordinator, ends>>

Agent(a) ==
    /\ phase # "crashed"
    /\ \/ SkipAgent(a) \/ Step(a) \/ WaitStep(a) \/ Observe(a) \/ WaitObservation(a)
       \/ Recheck(a) \/ EndGame(a) \/ StayInGame(a)
       \/ IssueEvents(a) \/ WaitQuery(a) \/ SendActions(a) \/ WaitActions(a)

-----------------------------------------------------------------------------
(* Coordinator::StartGame.                                                 *)

\* CreateGame with the first agent; exit(1) when it fails.
CreateGame ==
    /\ phase = "idle"
    /\ games < settings.games
    /\ ~updated
    /\ games' = games + 1
    /\ Request(1, ses[1], "create_game")
    /\ phase' = IF Outcome(1, ses[1], "create_game").sent THEN "create" ELSE "exited"
    /\ UNCHANGED <<settings, turn, updated, left, pc, ends>>

WaitCreateGame ==
    /\ phase = "create"
    /\ Wait(1)
    /\ phase' = IF PollResponse(1) /\ ~ready[1].error THEN "joining" ELSE "exited"
    /\ turn' = 1
    /\ UNCHANGED <<settings, updated, games, left, pc, ends>>

\* The next agent of a loop in phase p, or the first of one in phase q.
HasNext == turn < N
NextTurn(p, q) ==
    IF HasNext THEN turn' = turn + 1 /\ phase' = p ELSE turn' = 1 /\ phase' = q

\* JoinGame requests to join for every agent before it waits for any, and
\* gives up (exit) when a request is refused.
JoinOneByOne(sent) ==                                      \* mutant
    IF sent THEN turn' = turn /\ phase' = "waitjoin"
    ELSE turn' = turn /\ phase' = "exited"
AfterJoinRequest(sent) ==
    IF sent THEN NextTurn("joining", "waitjoin") ELSE turn' = turn /\ phase' = "exited"

RequestJoinGame ==
    /\ phase = "joining"
    /\ Request(turn, ses[turn], "join_game")
    /\ AfterJoinRequest(Outcome(turn, ses[turn], "join_game").sent)
    /\ UNCHANGED <<settings, updated, games, left, pc, ends>>

WaitJoinGame ==
    /\ phase = "waitjoin"
    /\ Wait(turn)
    /\ NextTurn("waitjoin", "joined")
    /\ UNCHANGED <<settings, updated, games, left, pc, ends>>

HasErrors == \E a \in Agents : ses[a].errors # {}

\* "Check if any errors occurred during game start."
CheckJoinErrors ==
    /\ phase = "joined"
    /\ phase' = IF HasErrors THEN "idle" ELSE "firstlook"
    /\ updated' = FALSE
    /\ UNCHANGED <<settings, turn, games, left, clients, game>>

FirstLook ==
    /\ phase = "firstlook"
    /\ pc[turn] = "done"
    /\ GetObservation(turn, ses[turn], "done")
    /\ IF Observes(turn, ses[turn])
       THEN UNCHANGED <<phase, turn>> ELSE NextTurn("firstlook", "started")
    /\ UNCHANGED <<settings, updated, games, left, ends>>

WaitFirstLook ==
    /\ phase = "firstlook"
    /\ pc[turn] = "observe"
    /\ Wait(turn)
    /\ Goto(turn, "done")
    /\ IF PollResponse(turn) THEN NextTurn("firstlook", "started")
       ELSE phase' = "crashed" /\ UNCHANGED turn
    /\ UNCHANGED <<settings, updated, games, left, ends>>

\* OnGameFullStart and OnGameStart of every agent.
OnGameStart ==
    /\ phase = "started"
    /\ phase' = "start"
    /\ turn' = 1
    /\ ends' = [a \in Agents |-> 0]
    /\ left' = FALSE
    /\ Goto(1, "events")
    /\ UNCHANGED <<settings, updated, games, ses, game>>

\* The loop over IssueEvents goes on or StartGame returns true.
NextStart ==
    /\ phase = "start"
    /\ pc[turn] = "done"
    /\ IF turn < N
       THEN turn' = turn + 1 /\ Goto(turn + 1, "events") /\ UNCHANGED <<phase, updated>>
       ELSE phase' = "idle" /\ updated' = TRUE /\ UNCHANGED <<turn, pc>>
    /\ UNCHANGED <<settings, games, left, ses, ends, game>>

StartGame ==
    \/ CreateGame \/ WaitCreateGame \/ RequestJoinGame \/ WaitJoinGame
    \/ CheckJoinErrors \/ FirstLook \/ WaitFirstLook \/ OnGameStart \/ NextStart

-----------------------------------------------------------------------------
(* Coordinator::Update, LeaveGame, and the program around them.            *)

\* StepAgents starts with a thread per agent, StepAgentsRealtime only when
\* multi-threaded.
Sequential == Realtime /\ ~MultiThreaded

Update ==
    /\ phase = "idle"
    /\ games > 0
    /\ updated \/ settings.keeps_updating
    /\ turn' = 1
    /\ IF Sequential
       THEN phase' = "sequence" /\ Goto(1, "poll")
       ELSE phase' = "parallel" /\ pc' = [a \in Agents |-> "poll"]
    /\ UNCHANGED <<settings, updated, games, left, ses, ends, game>>

\* The threads are joined, and the second loop of StepAgents begins.
BeginSecondLoop ==
    /\ phase = "parallel"
    /\ \A a \in Agents : pc[a] = "done"
    /\ ~MultiThreaded
    /\ phase' = "sequence"
    /\ turn' = 1
    /\ Goto(1, "recheck")
    /\ UNCHANGED <<settings, updated, games, left, ses, ends, game>>

NextAgent ==
    /\ phase = "sequence"
    /\ pc[turn] = "done"
    /\ turn < N
    /\ turn' = turn + 1
    /\ Goto(turn + 1, IF Realtime THEN "poll" ELSE "recheck")
    /\ UNCHANGED <<settings, phase, updated, games, left, ses, ends, game>>

AllGamesEnded == \A a \in Agents : ~IsInGame(ses[a]) /\ ~HasResponsePending(ses[a])

UntilEnded == ~AllGamesEnded                               \* mutant
GoesOn == ~HasErrors /\ ~AllGamesEnded

\* Update checks the errors of every agent and returns.
ReturnFromUpdate ==
    /\ \/ phase = "sequence" /\ turn = N /\ pc[N] = "done"
       \/ phase = "parallel" /\ MultiThreaded /\ \A a \in Agents : pc[a] = "done"
    /\ phase' = "idle"
    /\ updated' = GoesOn
    /\ UNCHANGED <<settings, turn, games, left, clients, game>>

\* The program leaves the running game: one request per agent.
LeaveGame ==
    /\ phase = "idle"
    /\ settings.leaves /\ Multiplayer /\ ~left
    /\ \A a \in Agents : IsInGame(ses[a])
    /\ left' = TRUE
    /\ ses' = [a \in Agents |-> Outcome(a, ses[a], "leave_game").session]
    /\ asked' = [a \in Agents |-> IF Outcome(a, ses[a], "leave_game").sent
                                  THEN "leave_game" ELSE asked[a]]
    /\ UNCHANGED <<settings, phase, turn, updated, games, pc, ends, inst, ready>>

\* WaitForAllResponses.  It has nothing to do when no response is pending, or
\* only of games that were given up.
Awaited == {a \in Agents : HasResponsePending(ses[a]) /\ ses[a].app = "normal"}
FirstAwaited == CHOOSE a \in Awaited : \A b \in Awaited : a <= b

WaitForAllResponses ==
    /\ phase = "idle"
    /\ settings.waits
    /\ Awaited # {}
    /\ phase' = "polling"
    /\ UNCHANGED <<settings, turn, updated, games, left, clients, game>>

\* One round of its loop looks at the first agent that waits, and no other.
ConsumeFirst ==
    /\ phase = "polling"
    /\ Awaited # {}
    /\ ResponseComes(FirstAwaited)
    /\ UNCHANGED <<coordinator, pc, ends>>

\* It is done, or timeout_ms have passed: assert(0), or false for nobody.
EndOfWait ==
    /\ phase = "polling"
    /\ IF Awaited = {} THEN phase' = "idle"
       ELSE /\ Failures
            /\ ~PollResponse(FirstAwaited)
            /\ phase' \in {"idle", "exited"}
    /\ UNCHANGED <<settings, turn, updated, games, left, clients, game>>

\* The program ends when it likes, and then stays so.
Exit ==
    /\ phase \in Outside
    /\ phase' = IF phase = "crashed" THEN phase ELSE "exited"
    /\ UNCHANGED <<settings, turn, updated, games, left, clients, game>>

Run == StartGame \/ Update \/ BeginSecondLoop \/ NextAgent \/ ReturnFromUpdate
       \/ ConsumeFirst \/ EndOfWait

-----------------------------------------------------------------------------
(* The game applications answer.                                           *)

\* Every player of a join_game or a step has to ask for it.
Players(t) ==
    IF t = "step" THEN {a \in Agents : inst[a] = "in_game"}
    ELSE {a \in Agents : inst[a] \notin Lost}

\* The response of agent a's game to t in the state i.
Response(t, i, e) == [type |-> t, status |-> i, error |-> e]

\* A request that is not valid gets error strings; an action may be too late.
AnswerOne(a) ==
    LET t == asked[a] IN
    /\ t # "none" /\ inst[a] \notin Lost
    /\ t \in Synchronous => ~Valid(a, t)
    /\ asked' = [asked EXCEPT ![a] = "none"]
    /\ IF Valid(a, t)
       THEN /\ inst' = [inst EXCEPT ![a] = StateAfter(a, t)]
            /\ ready' = [ready EXCEPT ![a] = Response(t, inst'[a], FALSE)]
       ELSE /\ \E e \in IF t = "action" THEN BOOLEAN ELSE {TRUE} :
                   ready' = [ready EXCEPT ![a] = Response(t, inst[a], e)]
            /\ UNCHANGED inst
    /\ UNCHANGED <<coordinator, clients>>

\* A step may end the game for everybody.
AnswerAll(t) ==
    /\ Players(t) # {}
    /\ \A a \in Players(t) : asked[a] = t /\ Valid(a, t)
    /\ \E after \in IF t = "step" THEN {"in_game", "ended"} ELSE {"in_game"} :
        /\ inst' = [a \in Agents |-> IF a \in Players(t) THEN after ELSE inst[a]]
        /\ ready' = [a \in Agents |-> IF a \in Players(t) THEN Response(t, after, FALSE)
                                      ELSE ready[a]]
    /\ asked' = [a \in Agents |-> IF a \in Players(t) THEN "none" ELSE asked[a]]
    /\ UNCHANGED <<coordinator, clients>>

\* In realtime the game goes on by itself.
GameOver ==
    /\ Realtime
    /\ "in_game" \in {inst[a] : a \in Agents}
    /\ inst' = [a \in Agents |-> IF inst[a] = "in_game" THEN "ended" ELSE inst[a]]
    /\ UNCHANGED <<coordinator, clients, asked, ready>>

Game == (\E a \in Agents : AnswerOne(a)) \/ (\E t \in Synchronous : AnswerAll(t))

Next == Run \/ LeaveGame \/ WaitForAllResponses \/ Exit \/ (\E a \in Agents : Agent(a)) \/ Game \/ GameOver

Spec == Init /\ [][Next]_vars

\* The threads of the program run, the program calls Update or StartGame again,
\* and the game answers what it can answer.
Fairness ==
    /\ WF_vars(Run)
    /\ \A a \in 1..MaxAgents : /\ WF_vars(a \in Agents /\ Agent(a))
                               /\ WF_vars(a \in Agents /\ AnswerOne(a))
    /\ \A t \in Synchronous : WF_vars(AnswerAll(t))

FairSpec == Spec /\ Fairness
-----------------------------------------------------------------------------
(* Properties.                                                             *)

\* The loop `while (coordinator.Update())` ended, without errors.
LoopEnded == phase = "idle" /\ games > 0 /\ ~updated /\ ~HasErrors

\* "Called when a game has ended" (OnGameEnd): when the loop is over, every
\* agent was told, unless the program left the game.
EndIsReported == LoopEnded /\ ~left => \A a \in Agents : ends[a] > 0

\* It holds where the thread that sees the end of a step also reports it.
SteppedEndIsReported ==
    ~Realtime /\ (MultiThreaded \/ ~Multiplayer) => EndIsReported

\* Nobody is told twice that the same game has ended, unless the program calls Update
\* after Update returned false: then a game whose start failed may end, which tells
\* again without an OnGameStart in between, and without threads a lone agent is told
\* of the same end by each Update.
EndIsReportedOnce ==
    (settings.keeps_updating => MultiThreaded /\ ~Realtime /\ ~Failures) =>
        \A a \in Agents : ends[a] <= 1

\* assert(app_state_ == AppState::normal) in ControlImp::WaitForResponse: no
\* call that follows a failure in the same Update waits for the failed game.
WaitingPcs == {"step", "observe", "query", "acting", "featuring"}
NoWaitAfterFailure ==
    \A a \in Agents : pc[a] \in WaitingPcs => ses[a].app = "normal"

\* No response is abandoned by the library's own calls: that a request is
\* refused because of one is never the first thing to go wrong.
NothingRefused ==
    (\E a \in Agents : "ResponseNotConsumed" \in ses[a].errors) =>
        \E a \in Agents : ses[a].errors \ {"ResponseNotConsumed"} # {}

\* A game that nobody left, as its end was not reported, cannot be created again.
Restartable == MultiThreaded \/ ~Multiplayer \/ games <= 1

\* The game is asked for nothing it cannot do in its state, unless it failed
\* before; in realtime it may end while the request is on its way.
NoProtocolErrors ==
    ~Realtime /\ Restartable /\ (\E a \in Agents : "SC2ProtocolError" \in ses[a].errors) =>
        \E a \in Agents : ses[a].errors \ {"SC2ProtocolError", "ResponseNotConsumed"} # {}

\* A call of the coordinator returns: nobody waits for a player that does not
\* come.
CallsReturn == phase # "idle" ~> phase \in Outside

\* The program's loop notices the end of the game.
LoopEnds ==
    phase = "idle" /\ (\E a \in Agents : inst[a] \in Lost \cup {"ended"})
        ~> phase \in Ended \/ (phase = "idle" /\ ~updated)
=============================================================================
