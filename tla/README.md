# A formal model of StarCraftBot

StarCraftBot is a set of StarCraft II bots on top of Blizzard's `s2client-api`,
the C++ library under `src/src` and `src/include`. A bot is an `Agent`: a
`Coordinator` launches a game application for each agent, talks to it over a
websocket in protobuf requests and responses, steps it and calls the agent back
with what happened.

This directory holds TLA+ modules of the library, configurations that check
them with TLC, and proofs checked with TLAPS. `PROJECT.json` lists the runs, the
theorems, the lines each definition models, the hazards and what each covers.

To check: `tlc -config X.cfg M` for the module and configuration of a run;
`tlapm M.tla` for each module whose name ends in `Proofs`.

## 1. The system

| component | files | state | operations |
|---|---|---|---|
| websocket connection | `sc2_connection.cc` | `queue_`, `has_response_`, `mutex_`, `condition_`, the civetweb connection and its thread | `Connect`, `Send`, `Receive`, `PopResponse`, `PollResponse`, `Disconnect`; the callbacks `DataHandler` -> `PushResponse`, `ConnectionClosedHandler` |
| protocol interface | `sc2_proto_interface.cc` | `response_pending_`, `latest_status_`, address | `SendRequest`, `WaitForResponseInternal`, `PingGame`, `ConnectToGame`, `Quit` |
| client and its recovery | `sc2_client.cc` (`ControlImp`) | `app_state_`, `client_errors_`, `protocol_errors_`, `pi_` | `Connect`, `WaitForResponse` with its ping and kill loop, one request and wait for each message |
| process management | `sc2_manage_process.cc` | the processes of the game | `StartProcess`, `IsProcessRunning`, `TerminateProcess` for three platforms |
| coordinator: agents | `sc2_coordinator.cc` | `agents_`, settings | `StartGame` (`CreateGame`, `JoinGame`), `Update` (`StepAgents`, `StepAgentsRealtime`), `LeaveGame`, `WaitForAllResponses`, `AllGamesEnded` |
| coordinator: replays | `sc2_coordinator.cc`, `sc2_replay_observer.cc` | the list of replays, observers | `StartReplay`, `StepReplayObservers` and its realtime form, `Relaunch` |
| coordinator: launch | `sc2_coordinator.cc`, `sc2_manage_process.cc` | `process_info`, `GetPids()`, ports, `last_port_`, `starcraft_started_` | `LaunchStarcraft`, `LaunchProcesses`, `AttachClients`, `SetupPorts`, `Relaunch`, the destructor, the handler of signals |
| observation and events | `sc2_client.cc` (`ObservationImp`, `Issue...Events`) | two game loops, `units_previous_map_`, `upgrades_`, caches of static data | `GetObservation`, `UpdateObservation`, `IssueEvents`, `GetGameInfo` and the other cached getters |
| unit pool | `sc2_unit.cc` | pages of `Unit`, `tag_to_unit_`, `tag_to_existing_unit_`, `available_index_` | `CreateUnit`, `GetUnit`, `GetExistingUnit`, `MarkDead`, `ClearExisting` |
| actions | `sc2_agent.cc` | `request_actions_`, `commands_` | `UnitCommand`, `SendActions`, the spatial interfaces |
| queries, debug | `sc2_client.cc` | the debug batch | a request and a response each |
| server, proxy | `sc2_server.cc`, `proxy.cc` | queues and connections of a proxy | `QueueRequest`, `QueueResponse`, `SendRequest`, `SendResponse` |
| bots | `bot_nate.cc`, `bot_examples.cc` and others | what the observation shows, and a few flags | `OnStep`, `BuildOrder`, `TryBuild...`, `ManageWorkers`, `OnUnitIdle` |
| conversions, data, settings, search, renderer, tests | see `PROJECT.json` | - | - |

### How they interact

The program's thread calls the coordinator, the coordinator each agent's
`ControlImp` (on a thread per agent in `RunParallel`), `ControlImp` its
`ProtoInterface`, that its `Connection`. A websocket thread of civetweb calls
back into `Connection` only (`PushResponse`) and, when a socket closes, into
`ControlImp` through the handler that records `ConnectionClosed`. Everything
else is shared by the order of the calls: one request is pending at a time,
`response_pending_` says which, and a response is matched to it by order alone.
What `GetObservation` left in `ObservationImp` and `UnitPool` is read by
`IssueEvents`, by the bot's callbacks, and, one `Update` later, by the next
`UpdateObservation`. A bot reads the observation in `OnStep` and gives commands,
which `SendActions` sends as one request once `OnStep` returned: it sees the effect
of an order some game loops later. The proxy has a thread of its own between the
worker threads of its server and a `Connection` to the game.

### What is hard in it, and what makes it correct

* **Two threads on one queue.** `Receive` waits, times out, disconnects and
  clears; a response may arrive at any of these. Correct: no response of an
  earlier websocket is handed out, the clear races with nobody, a call returns.
* **Timeouts and crashes.** A wait that times out pings the game, then kills it.
  Correct: `app_state_` is true of the process, a response is never taken for
  another one's, `response_pending_` is what is expected, no failure is silent, no
  later call waits for a game that was given up.
* **The order of the calls in an Update.** A game may end in the middle of a
  step, by itself or because the program leaves, in one or two loops, on one
  thread or several. Correct: `OnGameEnd` is called once, nothing is called after
  it, nothing is refused for a response nobody consumed, the loop ends, the next
  game starts.
* **Waiting on each other.** Two players' games answer `join_game` and `step`
  when both asked. Correct: no call waits for a player that was not asked.
* **Several observers, one list.** Observers take replays from one list, each with
  a game of its own version, and are relaunched when that is the wrong one or
  fails. Correct: a replay is left out for a reason only and runs in its version;
  its start and its end are told once; a failed game ends the loop or is replaced;
  no game is relaunched for ever.
* **Pointers a bot keeps.** A `const Unit*` is used over frames, deaths and games.
  Correct: it points to the same unit.
* **What changed since the last callback.** Events come from comparing an
  observation with a saved one; the game may not have moved in between, or more
  than once. Correct: the bot is told what changed since it looked last.
* **Processes in two lists.** The game's processes are in `process_info`, in
  `GetPids()` and in each client, by index, by pid and by port; observers are
  restarted, processes die. Correct: a port is given once, a client talks to the
  process it would kill, and none is left in the end.
* **Orders that are not seen yet.** A bot keeps no list of what it ordered; between
  an order and the observation that shows it, only the throttle of `OnStep` keeps
  it from ordering again. Correct: one SCV is sent to a structure, and the bot
  does not wait for ever for one that is coming.
* **Bots that come and go at the proxy.** Worker threads change the vector of
  connections while another thread writes to its front; the two queues are matched
  by order. Correct: a bot that is alone gets its answers, in order, once.

## 2. The modules

| module | models | correspondence |
|---|---|---|
| `ResponseBox` | what `Connection` promises: a box of responses of the open socket | abstract; refined by `Connection` |
| `Connection` | `sc2_connection.cc` | `queue`, `has_response` and the lock are the members of the class; `client` and `worker` say where the client thread and each websocket's thread are between critical sections; `ReadFrame`, `LeaveLoop`, `Joined` are those of civetweb (`read_websocket`, `mg_close_connection`) |
| `ClientSession` | the fields a `ProtoInterface` and a `ControlImp` share, as a record, and the effect of each call on it | operators without variables; `WaitOutcomes` and `ConnectOutcomes` are the summaries of a whole `WaitForResponse` and `Connect` |
| `Clients` | the clients of a coordinator and their games: what a request and a wait do to both | `ses` holds a `ClientSession` record each, `inst` the state of each game, `asked` and `ready` its request and response; extended by the next two |
| `Session` (`MCSession`) | one client and its game: `Connect`, `SendRequest`, `WaitForResponse` in all its steps, `Ping`, `Quit`, on a host | `session` is the `ClientSession` record; the game answers, hangs, resumes or crashes; `host` is chosen in `Init` |
| `Coordinator` (`MCCoordinator`) | `StartGame`, `Update`, `LeaveGame` over one or two agents | `pc[a]` is where `step_agent`/`CallOnStep` of agent `a` is, `phase` and `turn` where the program's thread is; each game follows the table of states of `sc2api.proto`; `settings` is chosen in `Init` |
| `Replays` (`MCReplays`) | `Update` over replay observers: `StepReplayObservers`, its realtime form, `StartReplay`, `Relaunch` | `pc[r]` is where `run_replay` or `StartReplay` is with observer `r`; `replays` counts the files left in `replay_file`, `info[r]` is the file `replay_info_` describes, `version` that of `process_path`, `build[r]` that of the game; `fate` and `told` record what became of a file and what an observer was told |
| `EventStream` | what the callbacks of `ClientEvents` let a bot rely on, as the code calls them | abstract; refined by `Observation`; where the comments of `sc2_client.h` say otherwise (section 5) it leaves both ways open |
| `Observation` | `UpdateObservation`, `IssueEvents`, `SendActions` of one agent in one game, stepped and in realtime | variables named as the members; `stage` is the place in `JoinGame` and `Update`; a unit is what the events look at: under construction, idle, busy, or an enemy's display type |
| `UnitPool` | `sc2_unit.cc` and the calls the observation makes of it | a pointer is a page and an index; `unit_pool`, `available_index` and the two maps are the members |
| `Launch` (`MCLaunch`) | the start, restart and end of the game's processes | `processInfo`, `lastPort`, `pids` are the members, `pi` the copy in each client, `link` the process its websocket leads to; a process is its number in the order of the starts, which stands for the pid |
| `Server` | `sc2_server.cc` under the worker threads of civetweb | `connections`, `requests`, `responses` are the members; a worker that is in the connect or the close handler is in the vector; two there are a race, whose outcome is chosen |
| `Proxy` | `proxy.cc` over `Server`, with what `ResponseBox` promises of its `Connection` | `main` is where the loop is: in `Receive`, before `SendResponse`, and between its argument `connections_.front()` and the write |
| `NateBot` (`MCNateBot`) | which SCV `NateBot::OnStep` sends to build what | `job` is the first order of each SCV, as observations show it, `sent` the requests that are not executed; a decision is the SCV that a helper commands, or none; a command later in the same `OnStep` replaces an earlier one |
| `ConnectionProofs`, `ObservationProofs` (with `UnitPool`), `LaunchProofs`, `NateBotProofs`, `ProxyProofs`, `SessionProofs`, `CoordinatorProofs`, `ReplaysProofs` | the theorems | - |

`Coordinator` and `Replays` do not step through `WaitForResponse` and `Connect`:
they take one of `WaitOutcomes` and `ConnectOutcomes`. That these are what the
calls do is the property `CallSummaries` of `Session`: each call, in all its
steps and against every game, ends in one of the outcomes of its summary. A game
may do what an unanswered request asked after the wait for it was given up.

What is abstracted: the contents of messages (only their type, their status and
whether they hold an error), buffers and fragments, logging, the sleep times, the
coordinates and attributes of units, which unit a command goes to besides its
tag. In `Coordinator` the callbacks of a bot are a query it may or may not make
and an action it may or may not send; in `Replays` a query and a camera action in
`OnStep`, where the settings allow them.

### Assumptions

* civetweb is vendored (`src/contrib/civetweb/src/civetweb.c`), and what the modules
  have of it is mapped to its lines: one thread per websocket of a client
  (`websocket_client_thread`), which `mg_close_connection` joins and which may run a
  callback until then (`Connection`); a worker thread that serves one websocket at
  a time, with the same `mg_connection` each time (`Server`). Sockets, frames and
  handshakes are left out.
* A `Connection` is asked to `Connect` only while it has no websocket. The code
  does not check that: it would overwrite `connection_`, and the old websocket and
  its thread would go on pushing. `SendRequest` asks `HasConnection` first; in
  `ControlImp::Connect` an attempt that failed had no websocket or disconnected by
  its timeout, as a game answers a ping with a ping; a process is attached to once.
  A second `LaunchStarcraft` with the same agents would not keep to it.
* The game: answers each request with the response of its type, or never; a
  multiplayer game answers `join_game` and `step` once every player asked; it
  refuses what the table of states in `sc2api.proto` does not allow.
* Observations: a tag is unique in a game; two observations of the same game
  loop show the same; a unit in a transport is not among the raw units; a dead
  unit does not return.
* Replays: a file may fail to load; a step may end a replay, and some step does.
  A file is its version and whether it is too short for `IgnoreReplay`, which the
  observers do not override; `FindBaseExe` finds the versions in `Installed`.
* The program: calls `StartGame` when no game is running and then
  `Update` in a loop, as the examples under `src/examples` do. With replay
  observers it has no agents. In `Launch` it may do anything in any order; what is
  claimed of one launch only says so (`OneUse`).
* Processes (`Launch`): a process that is started listens on its port; connecting
  may fail all the same; a process may end at any time.
* Bots (`NateBot`): an order shows in the observation within `MaxLag` game loops, an
  SCV that constructs obeys no other order, any attempt to build may fail. The
  commands of `OnUnitIdle` come with those of the same `OnStep`.

## 3. The runs

| run | question | result and size |
|---|---|---|
| `connection` | all interleavings of a client with the threads of three sockets | holds, 27 thousand states |
| `session` | a client and a game that fails at any point, on two hosts | holds, 30 thousand states |
| `coordinator` | the four ways to step; games that end by themselves, by `LeaveGame`, or fail; `WaitForAllResponses` | holds, 108 thousand states |
| `replays` | one and two observers, replays of three versions, stepped and in realtime, recovery, failing games | holds, 159 thousand states |
| `unit_pool` | five units in pages of two | holds, 81 thousand states |
| `observation` | all histories of two units, an upgrade, three loops | holds, 604 thousand states |
| `proxy` | two worker threads, three websockets, two requests, a game that may never answer | holds, 265 thousand states |
| `nate_bot` | every decision about two SCVs that are trained, die and fail, orders that show two loops late, structures that are destroyed | holds, 1.4 million states |
| `nate_supply` | food used up to the cap | holds, 189 thousand states |
| `launch` | two agents, two observers, five processes, two launches, restarts, deaths, signals | holds, 206 thousand states |
| `coordinator_unreported`, `replays_lost` | one sentence each of a comment or a header | violated, see section 5 |

### Properties

`TypeOK` of a module tells the reader what its variables hold. It is proved where
there are theorems, as a part of `IInv`, and is not a property of a run.

* `Connection`: `QueueIsCurrent` (nothing of an earlier socket can be
  received), `OneWriter` (the unlocked clear is exclusive), `FlagRaised` (the
  flag does not hide a response), `ImplementsBox`, `CallsReturn`.
* `Session`: `NoMismatch` (a response answers the request that waits for it),
  `AppStateTruthful` (`crashed`, `timeout` only of a process that ended),
  `NoSilentLoss` (a lost game has an error), `PendingIsExpected`,
  `PollIsTruthful`, `CallSummaries`, `WaitReturns`.
* `Coordinator`: `SteppedEndIsReported` (each agent is told of the end, where the
  thread that sees it also tells), `EndIsReportedOnce` (not of every
  program that goes on calling `Update` after it returned false: a single-player,
  single-threaded one is told again, because the second loop of `StepAgents` does not
  ask `IsFinishedGame`), `NothingRefused`,
  `NoProtocolErrors` (where `Restartable`: a multiplayer game without threads is left
  by nobody, section 5, and so cannot be created a second time), `NoWaitAfterFailure`, `CallsReturn` (`WaitForAllResponses`
  included: it consumes or gives up, though it looks at one agent only),
  `LoopEnds`.
* `Replays`: `IgnoredAreShort` (a replay that is left out is one that
  `IgnoreReplay` rejects by its own info), `RecoveredReplaysStart` (the others
  start, unless they fail to load), `RunsInItsVersion`, `EndsAreReported`,
  `NothingRefused`, `GoesOnWithEveryObserver` (the loop goes on with working games
  only), `LoopEnds`. Each says in its definition where it is claimed: most need
  games that do not fail, the reasons are in section 5.
* `UnitPool`: `NoAliasing`, `ExistingAreAlive`, `PointersStable`. `WithinPages` (the
  page of a unit was allocated, also after one is just full) follows from `IInv` and
  is proved (`PagesSuffice`).
* `Observation`: `ImplementsStream` (the callbacks are about the difference between
  two `OnStep`, although the code compares two observations: creations,
  completions and upgrades exactly, no unit that becomes idle or appears is left
  out, and nothing is told without a cause),
  `FailedOrdersAreReissuedWhenStepped`. That a unit is
  reported dead once is a theorem (`UnitsDieOnce`). Both differ from comments of
  `sc2_client.h`: section 5, 3. and 4.
* `Launch`: `NoPortTwice` (processes and games share the ports that three places
  count), `OwnProcess` (a client is connected to the process it knows by pid),
  `NothingIsLeft`.
* `Proxy`: `AnswersInOrder` (no answer twice, none out of order, over all the bots),
  `LoneBotIsServed` (a bot that was alone since it came gets the answers to its
  requests, whoever came before it), `RequestsAreAnswered`.
* `NateBot`: `OneBuilder` (one SCV at most builds, is on the way, or is in a request
  to build a kind of structure), `OneFusionCore`, `SupplyBlockEnds`.

### Bounds, and why they are enough

* `MaxEpoch = 3`, `MaxRequests = 4`: a socket that is being closed, one that is
  open, and one more; a late response of each. More sockets repeat the
  same pairs, as the proof for any number of them confirms.
* `MaxRequests = 3` in `Session`: the request that fails, the probe, and one
  after the recovery. `KillAttempts = 2` stands for the ten of the code: the first
  that does not help and the last. `ConnectAttempts = 2` likewise.
* Two agents, three games: the second agent is the other player that is waited
  for; the second game is the one after an end, the third repeats it. A realtime
  run has one game: an end nobody noticed (section 5) leaves an application in the
  ended state, which a second game runs into.
* Two observers, two to four replays, versions `v1` to `v3` of which `v3` is not
  installed: replays of both observers' versions and of none, one that is too
  short, and a list that outlasts a relaunch of each observer. With more of them
  the same pairs repeat. Failing games have two replays.
* `ends` counts to two: enough to see a second report.
* Five tags in pages of two: two full pages and a third that is begun.
* `MaxLoop = 3`: a unit that is seen, missing and seen again; an order, its loss
  and its report. The proof holds for any bound.
* Two workers, three websockets, two requests in `Proxy`: two handlers that race, one
  socket after both, an answer after another one or after a timeout.
* In `NateBot` two SCVs, one who builds and one who could be sent too; steps of one
  loop and a lag of two, so that two steps lie between an order and its sight.
  The numbers of food are small ones in the proportions of the game's. The proof
  holds for any SCVs and numbers, with a lag of at most two loops. The throttle is
  of no more use than that: it acts at loops 4 and 6 when the food reaches the cap
  between them.
* Two agents and two observers, five processes: both are launched, and one is started
  again after that. The proof holds for any numbers.

Deadlock is checked in the runs of `Coordinator`, `Replays` and `UnitPool`. It is
not checked in the others: a session or a connection may be done, an observation
comes to the last game loop of the bound, a
proxy or a coordinator ends, and a bot may have nobody left.

### Fairness

* `Connection`: the client's thread goes on inside of a call, and the wait in
  `Receive` ends by its deadline (`wait_for`). A websocket thread goes on, except
  that the game need not send a frame.
* `Session`: as above for the client. Nothing is assumed of the game: all
  answers, hangs and crashes may or may not happen.
* `Coordinator`: each agent's thread and the program's thread go on
  inside of a call; the game answers what it can answer, or, with failures, a
  wait ends by its deadline. `LoopEnds` concerns a game that
  ends; the game's end itself is not assumed to come before it is asked for.
* `Replays`: the same, and a replay has an end (strong fairness of the answer to a
  step that ends it, `LastStep`): without it a replay is stepped for ever. The
  lifetime of a failing game is not assumed, so `LoopEnds` is stated for games
  that do not fail: a game that fails under each relaunch is relaunched for ever.
* `Proxy`: the main thread goes on, and its `Receive` reaches its deadline. Nothing is
  assumed of the game and of the bots.
* `NateBot`: the game goes on and executes what it was sent (weak fairness);
  minerals, places and the random choices of the bot are not against a supply
  depot for ever, an SCV that was sent arrives at one, and what is begun is finished,
  again and again (strong fairness: each may be impossible in between). This is
  of the environment, with no structure destroyed: without it no bot gets out of
  a block.
* `Observation`, `UnitPool` and `Launch` state no liveness.

## 4. The proofs

TLAPS proves, for every value of the constants:

* **`ConnectionProofs`**: `Spec => []IInv` (`Invariance`), and from it
  `TypeCorrectness`, `NoStaleResponse`, `ClearIsExclusive`, `PollMissesNothing` and
  that `Connection` implements `ResponseBox` (`Refinement`), for any number of
  sockets and requests. `QueueIsCurrent` is not inductive: that a websocket thread
  pushes only into the queue of its own epoch follows from where that thread and
  the client are. `IInv` says so: `EpochInv` (which sockets can be alive at each
  place of the client), `LockInv` (who holds the mutex), `ViaInv` (what came by
  which socket) and `OrderInv` (responses in the order of the requests), with
  `TypeOK`.
* **`SessionProofs`**: `NoMismatch`, `NoSilentLoss`, `PendingIsExpected`, `PollIsTruthful`,
  `CallSummaries`, and, where Windows terminates the processes it is told to
  (`Terminates`, of every host), `AppStateTruthful`; for any request types, statuses,
  hosts and numbers of requests and tries. `Sequential` is the reason for most of them:
  one request is out at most, or its response in the queue, and it is the one that is
  pending; `Quiet` says that none is where a wait timed out, `LossIsSeen` that each way
  to lose one leaves an error. `InCall` gives the session at each place of a call as what
  `WaitForResponse` made of the session it began with; so each call ends in its summary,
  which is what `Coordinator` and `Replays` rest on.
* **`ObservationProofs`**: `Invariance`, `Refinement` (to `EventStream`),
  `UnitsDieOnce` and `FailedOrdersAreNoticed` for any units, upgrades and any
  bound of the game loops. The strengthening: `SeenInv` says that what the bot
  looked at last is what exists, or what the saved map holds once a new
  observation came; `SameLoopInv` that observing a loop twice shows nothing new;
  `DeadInv` that a dead unit is listed and reported once; `OrderInv` and
  `StepInv` tie `commands_` to the orders since the last `OnStep`. The same module has
  the theorems about `UnitPool`, which the observation gets its pointers from:
  `PoolInvariance`, `UnitsDoNotShare`, `PagesSuffice`, `PointersAreStable` and
  `ExistingUnitsAreAlive` for any set of tags and any page size above zero. `PoolInv` is
  the strengthening: every place handed out lies before `available_index_`, which lies
  in the pages or at the start of the next.
* **`LaunchProofs`**: `NoPortTwiceAlways`, `OwnProcessAlways`, `NothingIsLeftAlways`
  for any agents, observers, ports and numbers of launches. Ports are distinct
  because they are consecutive: `Counted` says that the ports of the processes and then
  of the game begin with `port_start - 1` and leave none out, `Last`, `NoGame` and
  `ForAgents` which of the three counters goes on from where. `Aligned` and `Known`
  relate `process_info`, `pi` and the processes; that none is left rests on `Listed`.
* **`NateBotProofs`**: `OneBuilderAlways` and `OneFusionCoreAlways` for any number of
  SCVs, any food, and any step sizes, under `ShortLag` (`MaxLag <= 2`). Neither is
  inductive: what makes them true is that a request of the last decision is
  executed before the next one. `Fresh` says that an order to build that is on its way
  was given at an even game loop and is at most one loop old, `Alone` that it is the
  only one for its kind and then no SCV builds that, `Absent` that dead and untrained
  SCVs have no part in it.
* **`ProxyProofs`**: `AnswersInOrderAlways` and `LoneBotIsServedAlways` for any number of
  workers, websockets and requests. The proxy never pairs a response with a request, so
  order rests on the main loop alone: `Stage` says that one message is on its way
  at most, and where it is, `InOrder` that it is newer than what any bot got and older than
  what waits. That a lone bot gets its answer rests on the vector: without a race
  it lists the workers that serve, once (`Listed`), no two of them serve a websocket
  (`Senders`), a lone bot has the only one (`Alone`), and the connection
  that was read before the write is still that one (`Targeted`).

* **`CoordinatorProofs`**: `TypeOK` and every invariant of the run `coordinator`, for any
  number of agents and games and whatever the settings. The layers build on each other;
  each was checked with TLC before it was proved. `IInv` gives `NoWaitAfterFailure`: which agent may be anywhere but at rest
  follows from the phase of the program's thread (`AtRest`); a failure leaves an agent only
  where nothing waits any more, or where the pending response makes `SendRequest`
  refuse (`Working`); a game that failed shows in the errors, so `StartGame` does not go on
  with it (`FailureShows`, `NoneFailed`). `NothingRefused` needs to know what is pending
  as long as nothing went wrong (`Refusals`: `Clean => Orderly`): who is about to ask has
  consumed its last response (`Consumed`), the requests to join are sent and consumed
  in turn (`JoinedInTurn`), a response of leave_game is pending only between calls of
  `Update`, in a multiplayer game, and of an agent that is out of its game or that
  `LeaveGame` asked once (`LeftOnce`), and when `Update` returned false nothing is
  pending at all (`AllOver`), so that the next `StartGame` may ask. That any wait which leaves
  no error has consumed the response (`WaitIsOver`) does not depend on what the games
  answer, so this theorem holds for games that answer anything.

  The other three need what the games are at. `Owed`: the response that is pending is
  the one the game was asked for or has ready. While nothing else went wrong, `Protocol`
  relates, for every agent, the session, the request on its way and the state of the
  game: the client knows that state or the waiting response tells it, and the game can do
  what it is asked for (`KnownAt`); `CreateGame` and `JoinGame` find the games launched and
  leave them running (`StartedAt`); each place of an agent's processing waits for the
  response of its own request (`AwaitsAt`) and finds the game in a state it can go on in
  (`PlayedAt`). This gives `NoProtocolErrorsAlways`. `UntoldAt` says that an agent that was not
  told of the end is in its game, unless the step that may have ended it is still
  processed: `SteppedEndIsReportedAlways`. For `EndIsReportedOnceAlways`, which holds
  in realtime and with failures too, `Once` says that a game known to be over is over
  (`GoneAt`) and that an agent that was told stays where `PollLeaveGame` or `IsFinishedGame`
  turns it away until the next `OnGameStart` (`ToldAt`); `Ongoing` has what that needs
  of all games, whatever went wrong. A single agent that is updated after the end is
  turned away only as nothing is pending, which `Protocol` says.
* **`ReplaysProofs`**: every invariant of the run `replays`, for any number of observers and
  replays and whatever the settings. They build on each other. `IInv` says where
  each observer can be in each phase (`PlaceOf`), that a game owes the response that is
  pending or has it ready (`AnswerOf`), and that a game that was given up shows in the
  errors (`Sane`), which gives `GoesOnWithEveryObserver`. `Refusals` (`NothingRefused`) says
  who has consumed its last response: `Quiet`. Where games do not fail, `Ordered`
  adds which request is pending at each place, so that `replay_info_` is that of the
  replay at the back of the list when `ShouldIgnore` looks (`IgnoredAreShort`,
  `RunsInItsVersion`). `Known` says that the status the client has is that of the game, or
  one behind in realtime. `Told` (`EndsAreReported`) says that a replay that was
  announced runs, unless the observer is past the step that may have ended it and
  not yet at its look at the end (`Ending`). `InPeace` (`RecoveredReplaysStart`) follows each file:
  what was taken off the list went to an observer that loads it (`Loading`), and one
  stays in the list only while every observer is busy (`Busy`) - the one error there can
  be is that of the version, which clears in the next `Relaunch`. These layers
  were first checked with TLC on small instances.

The assumptions are those the modules name (`BoundsAssumption`,
`ObservationAssumption` and so on): constants are of their kind, own
and enemy tags differ, a page is not empty.

Only model-checked: the liveness properties (liveness under fairness is out of reach of
the prover): `CallsReturn` of `Connection` and `Coordinator`, `WaitReturns`, `LoopEnds`,
`RequestsAreAnswered`, `SupplyBlockEnds`.

## 5. Where the code and its texts disagree

The first two have a run, the next two decide what properties say:

1. `coordinator_unreported`: without `multi_threaded`, in a multiplayer game,
   `OnGameEnd` is never called when a step ends the game: the second loop of
   `StepAgents` asks `PollLeaveGame` first, which is true of a game that is over.
2. `replays_lost`: `Update` takes the next replay off the list before it looks at
   the errors; when the observer that took it is relaunched, the replay is lost.
   The camera action that follows the last step of a replay is such an error.
3. Out of the fog: `sc2_client.h:90` says of `OnUnitEnterVision` "Called when an
   enemy unit enters vision from out of fog of war." `IssueUnitAddedEvents` skips
   every unit the last observation had (`sc2_client.cc:2042`), and a unit in the fog
   of war is there as a snapshot (`sc2_unit.h:74`): when it becomes visible, nobody is
   told, and likewise of a hidden unit. Only an enemy's unit that the last
   observation lacked is reported. `EventStream` requires the report of that one
   (`Appeared`) and allows one, without requiring it, of any that `BecameVisible`:
   `ImplementsStream` neither asserts the header's sentence, which is false, nor its
   contrary. The proof has what the code does: `entered` is `Appeared`.
4. Idle twice: `sc2_client.h:69` says that `OnUnitIdle` "will only be called when
   the unit becomes idle and not a second time"; `IssueIdleEvent` calls it again
   for a unit whose order failed, and its comment (`sc2_client.cc:2083`) says so: the
   two texts exclude each other where a unit had no orders at the last `OnStep`, got
   one, and has none now. `FailedOrdersAreReissuedWhenStepped` is the comment of
   `IssueIdleEvent`; that it holds is to say that the header's sentence does not.
   `EventStream` allows the second call and does not require it. The header goes on
   to define idle as "having orders in the previous step and not currently having
   orders or if it did not exist in the previous step and now does": besides, the
   code reports a unit that was under construction and is complete (as `docs/tutorial2.md:17` says,
   "each time a unit has been built and has no orders"), and does not report a new
   unit that is still under construction. `BecameIdle` of `EventStream` is the code's.

The others, met while modelling, are what the models do and no property excludes:

* Client: a wait for an observation that fails ends the program on a null pointer
  before `OnError` can be called (`sc2_client.cc:1951`). On Linux and macOS a killed
  game still counts as running, as nobody reaps the child, and becomes a zombie in
  `app_state_`. `PollResponse` stays true after a response was dropped by a
  timeout, until a response is popped; `Ping` with a response pending takes that
  response; a `Ping` that times out leaves `ping` pending, and every later request
  is refused; `Quit` is refused while a response is pending; on Windows a process that
  survives `TerminateProcess` is reported as terminated.
* Events (besides 3. and 4.): in realtime `OnUnitIdle` is not reissued for an order that failed when the
  same game loop was observed in between. A unit that returns from a transport is
  created again, as `EventStream` says. `OnUnitDestroyed` is called for enemies
  too, though its comment says "the player's units". A bot that asks for the game
  info in `OnGameFullStart` loses the enemy start locations, which `OnGameStart`
  clears.
* Agents: in realtime a game whose end is first seen by a request other than those of
  the `Update` (`JoinGame`'s observation, a query) is never reported;
  `AllGamesEnded` is false for ever once a game failed; after a multiplayer game whose end
  was not reported (1. above) nobody asks to leave it, and the game refuses the
  `create_game` of the next `StartGame`; the timeout of
  `WaitForAllResponses` is an `assert(0)`, which ends the program or is not there,
  according to the build.
* Replays: without `multi_threaded`, `OnStep` is called for an observer whose replay
  is loading, as its two game loops still differ, and `OnGameEnd` comes before the
  last `OnStep`. When the game fails while `GatherReplayInfo` waits, `replay_info_`
  is still that of another replay and the loop of line 263 goes on with a game that
  is gone, so the rest of the list is popped without being run; a replay whose
  request cannot be sent is popped too; the relaunch of an observer resets
  `error_occurred` of an earlier one (813); nobody asks what `AttachClients`
  returned; `ObserverActionImp` keeps a reference to the `ControlImp` that
  `Relaunch` deleted (`DanglingActions` is that undefined behaviour: it crashes, or
  happens to work).
* Launch: the first process gets the port before `port_start`, of which
  `sc2_coordinator.h:66` says "Sets the first port number to use". A second
  `LaunchStarcraft` with as many processes as agents sets `last_port_` to zero, after
  which `Relaunch` counts from one; `AttachClients` takes the first entries of
  `process_info`, so after a launch of other participants, or of agents and
  observers, clients share a process, and a client that is connected opens a second
  websocket and forgets the first, which goes on pushing; `client_ports` is appended to by each
  `SetupPorts`, as `Launch` shows when `OneUse` is dropped from its properties.
* Proxy: with two bots every answer goes to the one that connected first, though
  `proxy.cc:47` says "Send the response back to the client."; two handlers that race
  on `connections_` may leave a connection at its front for ever; a timeout of
  `Receive` makes `SendResponse` use a null pointer, as does an empty
  `connections_`.
* Bots: `BuildOrder` and `OnStep` may each send an SCV to build a command center in
  one call (`bot_nate.cc:293` and `:897`), though `bot_examples.cc:323` says "Check to
  see if there is already a worker heading out to build it": that order is not in
  the observation yet. A supply depot or a fusion core whose builder died is
  never resumed; a small bot then stays supply blocked. The random SCV
  (`bot_examples.cc:333`) may be one that is on its way to build something else,
  which is then not built.

## 6. What is not modelled

* Conversions of protobuf fields and tables of data (no state), the renderer, reading
  of arguments and files (pure I/O), the clustering of `sc2_search.cc` (geometry in
  floating point), queries and debug commands beyond a request and its response,
  vendored code.
* `Observation` is one game: a failing step, the end of a game and the next game with
  what `unit_pool_`, `units_previous_map_` and `upgrades_` still hold of the last one
  are not in it, nor are the caches of game info and data that `ClearFlags` drops.
* A refused action request is kept and goes out again with the next actions
  (`sc2_agent.cc:65`): the modules have the refusal, not the contents of a batch.
* The data race of `GetClientErrors` with a closing socket is not a state of any
  module.
* `Launch`: `Coordinator::Connect` to a game that is running already, whose entry has
  the pid 0, which the destructor passes to `kill`; a `StartProcess` that fails;
  a signal between `fork` and `AddPid`, which leaves a process.
* Bots: of about twenty structures `BuildOrder` may ask for, the fusion core stands for
  those with a target of one; upgrades, add-ons, the army, nukes and the Zerg and
  Protoss bots are left out. Their tactics are thresholds and distances. Reading
  them showed defects that are arithmetic, not behaviour: the counts of larvae in
  `bot_goose.cc:493` (`++viper_count < 1`), a loop with a second `++i` in
  `TryInjectLarva`, `switch` cases of `OnUpgradeCompleted` that fall through.

The map covers a small share of the repository, as nearly all of it is vendored:
civetweb, protobuf, SDL, and generated tables. Of the code that keeps state
(`sc2_connection.cc`, `sc2_proto_interface.cc`, `sc2_coordinator.cc`, `sc2_unit.cc`,
`sc2_server.cc` and the control part of `sc2_client.cc`) it covers nearly all.

## 7. The plan

Done: connection, session, coordinator, unit pool, observation, replays, server and
proxy, launch, the building part of a bot; proofs for the connection, the unit
pool, the observation, the launch, the bot, the proxy, the session, the coordinator and the
replays.

Next:

1. **Observation**, extended: a failing step, the end of a game and a next game with
   reused tags; the caches and `ClearFlags`.
2. **Registry**: a map from tags to units that `UnitPool` implements and that
   `Observation` uses for `existing` and `known`, so that the two compose.

Where runs answer the same question, the deeper one replaces the weaker.
