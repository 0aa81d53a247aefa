------------------------------- MODULE Replays -------------------------------
(***************************************************************************)
(* sc2::Coordinator with replay observers and no agents                    *)
(* (src/src/sc2api/sc2_coordinator.cc): Update with StepReplayObservers,   *)
(* StepReplayObserversRealtime, StartReplay and Relaunch, and the calls of *)
(* the observers' control interfaces they make (sc2_replay_observer.cc),   *)
(* one step per request sent and per response waited for.                  *)
(*                                                                         *)
(* An observer may query the game and move the camera in OnStep only, and  *)
(* does not override IgnoreReplay.  The game applications are external.    *)
(***************************************************************************)
EXTENDS Clients, Sequences

CONSTANTS MaxObservers,   \* bound on the replay observers
          Versions,       \* versions of the game, base_build with data_version
          Installed,      \* those FindBaseExe finds
          Settings        \* the settings the coordinator may have

\* A replay file: whether it lasts less than MinimumReplayDuration, and the
\* version of the game that recorded it.
FileType == [short : BOOLEAN, version : Versions]

\* The number of observers, process_settings_.multi_threaded and .realtime,
\* replay_recovery_, whether requests may time out and games die, what the
\* observers ask for in OnStep, the replays (the last one is taken first) and the
\* version of process_path.
SettingsType == [observers : 1..MaxObservers, multi_threaded : BOOLEAN,
                 realtime : BOOLEAN, recovery : BOOLEAN, failures : BOOLEAN,
                 asks : SUBSET {"query", "obs_action"}, files : Seq(FileType),
                 version : Versions]

ASSUME ReplaysAssumption ==
    /\ MaxObservers \in Nat \ {0}
    /\ Installed \subseteq Versions
    /\ Settings \subseteq SettingsType
    /\ {"replay_info", "start_replay", "step", "observation", "query",
        "obs_action"} \subseteq Types

VARIABLES
    settings,   \* chosen before the first Update
    pc,         \* where the processing of each observer is
    phase,      \* where the program's thread is
    turn,       \* the observer whose turn it is in a sequential loop
    updated,    \* what the last Update returned
    started,    \* starcraft_started_
    replays,    \* how many of settings.files are left in replay_file
    version,    \* of process_path and data_version
    build,      \* the version of each observer's game, from its ping
    info,       \* the file replay_info_ of each observer describes, 0 for none
    news,       \* what the game loops in each ObservationImp say to IssueEvents
    moved,      \* whether Relaunch replaced the ControlImp of each observer
    camera,     \* whether there is a request_ in each ObserverActionImp
    replay,     \* the file each observer plays or loads, 0 for none
    told,       \* the last of OnGameStart ("start") and OnGameEnd ("end")
    fate        \* what became of each file

coordinator == <<settings, turn, updated, started, version>>
list == <<replays, fate>>
observer == <<build, info, moved, camera>>
playing == <<news, replay, told>>
vars == <<coordinator, phase, pc, list, observer, playing, ses, game>>

N == settings.observers
Observers == 1..N
Files == 1..Len(settings.files)
MultiThreaded == settings.multi_threaded
Realtime == settings.realtime
Failures == settings.failures
Recovery == settings.recovery
Asks == settings.asks

Phases == {"idle",       \* not in Update
           "parallel",   \* the threads that run run_replay, or it is called once
           "sequence",   \* "Do everyones OnStep, if not multi threaded"
           "available", "start", "errors",
           "exited",     \* the loop around Update is over
           "crashed"}    \* a null or a dangling pointer was dereferenced

Pcs == {"done", "poll", "loading", "firstlook", "looking", "starting", "play",
        "step", "look", "observe", "events", "query", "actions", "acting",
        "endcheck", "ready", "gather", "gathering", "gathered"}

\* The loops are equal; they differ; they still do after OnStep was called.
News == {"none", "new", "issued"}

Fates == {"listed",    \* not taken yet
          "ignored",   \* "pruned based on replay info"
          "refused",   \* the request to load it could not be sent
          "sent",      \* the observer waits for it to load
          "failed",    \* WaitForReplay returned false
          "started", "ended"}

Games == {"none", "launched", "in_replay", "ended"} \cup Lost

TypeOK ==
    /\ settings \in Settings
    /\ ses \in [Observers -> SessionType]
    /\ pc \in [Observers -> Pcs]
    /\ phase \in Phases
    /\ turn \in Observers
    /\ updated \in BOOLEAN
    /\ started \in BOOLEAN
    /\ replays \in {0} \cup Files
    /\ version \in Versions
    /\ build \in [Observers -> Versions \cup {"none"}]
    /\ info \in [Observers -> {0} \cup Files]
    /\ news \in [Observers -> News]
    /\ moved \in [Observers -> BOOLEAN]
    /\ camera \in [Observers -> BOOLEAN]
    /\ replay \in [Observers -> {0} \cup Files]
    /\ told \in [Observers -> {"start", "end"}]
    /\ fate \in [Files -> Fates]
    /\ inst \in [Observers -> Games]
    /\ asked \in [Observers -> Types \cup {"none"}]
    /\ ready \in [Observers -> ResponseType \cup {NoResponse}]

Init ==
    /\ settings \in Settings
    /\ ses = [r \in Observers |-> NewSession]
    /\ pc = [r \in Observers |-> "done"]
    /\ phase = "idle"
    /\ turn = 1
    /\ updated = TRUE
    /\ started = FALSE
    /\ replays = Len(settings.files)
    /\ version = settings.version
    /\ build = [r \in Observers |-> "none"]
    /\ info = [r \in Observers |-> 0]
    /\ news = [r \in Observers |-> "none"]
    /\ moved = [r \in Observers |-> FALSE]
    /\ camera = [r \in Observers |-> FALSE]
    /\ replay = [r \in Observers |-> 0]
    /\ told = [r \in Observers |-> "end"]
    /\ fate = [f \in Files |-> "listed"]
    /\ inst = [r \in Observers |-> "none"]
    /\ asked = [r \in Observers |-> "none"]
    /\ ready = [r \in Observers |-> NoResponse]

-----------------------------------------------------------------------------
(* The game applications (external), as sc2api.proto describes them.       *)

Valid(r, t) ==
    CASE t = "start_replay" -> inst[r] \in {"launched", "ended"}
      [] t \in {"step", "obs_action"} -> inst[r] = "in_replay"
      [] t = "replay_info" -> TRUE
      [] OTHER -> inst[r] \in {"in_replay", "ended"}

\* A replay may fail to load; a step may end it.
StatesAfter(r, t) ==
    CASE t = "start_replay" -> {inst[r], "in_replay"}
      [] t = "step" -> {"in_replay", "ended"}
      [] OTHER -> {inst[r]}

\* What the request of r may come to, answered or not.
Effects(r) == IF Valid(r, asked[r]) THEN StatesAfter(r, asked[r]) ELSE {inst[r]}

-----------------------------------------------------------------------------
(* Requests and responses of one observer.                                 *)

\* WaitForResponse returns.
Wait(r) == ResponseComes(r) \/ (Failures /\ NoResponseComes(r, Effects(r)))

\* It returns the response to a request of type t, without errors.
Gets(r, t) == ready[r].type = t /\ ~ready[r].error

\* Observer r goes on at p.
Goto(r, p) == pc' = [pc EXCEPT ![r] = p]

\* Observer r sends a request of type t and goes on at p, or at q if it cannot.
Ask(r, t, p, q) ==
    /\ Request(r, ses[r], t)
    /\ Goto(r, IF Outcome(r, ses[r], t).sent THEN p ELSE q)

\* GetObservation.
GetObservation(r, p, q) ==
    IF ses[r].app = "normal" THEN Ask(r, "observation", p, q)
    ELSE Goto(r, q) /\ UNCHANGED <<ses, game>>

\* What became of file f is c (f = 0: of none).
Becomes(f, c) == fate' = [g \in Files |-> IF g = f THEN c ELSE fate[g]]

-----------------------------------------------------------------------------
(* run_replay: the processing of one observer in Update.                   *)

\* "Don't consume a response if there isn't one in the queue."
Skips(r) ==
    \/ ses[r].app # "normal"
    \/ HasResponsePending(ses[r]) /\ N > 1 /\ ~PollResponse(r)

Poll(r) ==
    /\ pc[r] = "poll"
    /\ Goto(r, IF Skips(r) THEN "done"
               ELSE IF HasResponsePending(ses[r]) THEN "loading" ELSE "play")
    /\ UNCHANGED <<coordinator, phase, list, observer, playing, ses, game>>

\* The replay that observer r waits for is loaded.
Loaded(r) == Gets(r, "start_replay") /\ ready[r].status = "in_replay" /\ info[r] # 0

WaitForReplay(r) ==
    /\ pc[r] = "loading"
    /\ Wait(r)
    /\ Goto(r, IF Loaded(r) THEN "firstlook" ELSE "play")
    /\ IF Loaded(r) THEN UNCHANGED fate ELSE Becomes(replay[r], "failed")
    /\ UNCHANGED <<coordinator, phase, replays, observer, playing>>

\* ControlImp::OnGameStart and that of the client.
OnGameStart(r) ==
    /\ pc[r] = "starting"
    /\ told' = [told EXCEPT ![r] = "start"]
    /\ Becomes(replay[r], "started")
    /\ Goto(r, "play")
    /\ UNCHANGED <<coordinator, phase, replays, observer, news, replay, ses, game>>

\* run_replay looks whether the replay has ended only after it went on with it.
NotPlaying == "done"

\* Step, or GetObservation in realtime; whether the step went out or not,
\* WaitStep follows.
AfterObservation == IF MultiThreaded THEN "events" ELSE "endcheck"

Play(r) ==
    /\ pc[r] = "play"
    /\ IF ~IsInGame(ses[r]) THEN Goto(r, NotPlaying) /\ UNCHANGED <<ses, game>>
       ELSE IF Realtime THEN GetObservation(r, "observe", AfterObservation)
       ELSE Ask(r, "step", "step", "step")
    /\ UNCHANGED <<coordinator, phase, list, observer, playing>>

WaitStep(r) ==
    /\ pc[r] = "step"
    /\ Wait(r)
    /\ Goto(r, IF Gets(r, "step") THEN "look" ELSE AfterObservation)
    /\ UNCHANGED <<coordinator, phase, list, observer, playing>>

Look(r) ==
    /\ \/ pc[r] = "look" /\ GetObservation(r, "observe", AfterObservation)
       \/ pc[r] = "firstlook" /\ GetObservation(r, "looking", "starting")
    /\ UNCHANGED <<coordinator, phase, list, observer, playing>>

\* UpdateObservation after the pc p: a step advances the game loop; otherwise it
\* may be the one seen before.
NewsAfter(p) == IF Realtime \/ p = "looking" THEN {"none", "new"} ELSE {"new"}

\* The wait of GetObservation.  To report that there is no response, it looks at
\* its type, which crashes the program.
WaitObservation(r) ==
    /\ pc[r] \in {"looking", "observe"}
    /\ Wait(r)
    /\ phase' = IF PollResponse(r) THEN phase ELSE "crashed"
    /\ \E n \in IF Gets(r, "observation") THEN NewsAfter(pc[r]) ELSE {news[r]} :
           news' = [news EXCEPT ![r] = n]
    /\ Goto(r, IF pc[r] = "looking" THEN "starting" ELSE AfterObservation)
    /\ UNCHANGED <<coordinator, list, observer, replay, told>>

AfterActions == IF MultiThreaded THEN "endcheck" ELSE "done"
AfterEvents == IF Realtime THEN AfterActions ELSE "actions"

\* IssueEvents calls OnStep while the loops differ.
CallsOnStep(r) == news[r] # "none"

\* OnStep may query the game, and it may move the camera.
IssueEvents(r) ==
    /\ pc[r] = "events"
    /\ \/ Goto(r, AfterEvents) /\ UNCHANGED <<ses, game>>
       \/ CallsOnStep(r) /\ "query" \in Asks /\ Ask(r, "query", "query", AfterEvents)
    /\ \/ UNCHANGED camera
       \/ CallsOnStep(r) /\ "obs_action" \in Asks /\ camera' = [camera EXCEPT ![r] = TRUE]
    /\ news' = [news EXCEPT ![r] = IF @ = "none" THEN @ ELSE "issued"]
    /\ UNCHANGED <<coordinator, phase, list, build, info, moved, replay, told>>

WaitQuery(r) ==
    /\ pc[r] = "query"
    /\ Wait(r)
    /\ Goto(r, AfterEvents)
    /\ UNCHANGED <<coordinator, phase, list, observer, playing>>

\* ObserverActionImp::SendActions; a request that is refused is kept.
SendActions(r) ==
    /\ pc[r] = "actions"
    /\ IF camera[r] THEN Ask(r, "obs_action", "acting", AfterActions)
       ELSE Goto(r, AfterActions) /\ UNCHANGED <<ses, game>>
    /\ camera' = [camera EXCEPT ![r] = @ /\ ~Outcome(r, ses[r], "obs_action").sent]
    /\ UNCHANGED <<coordinator, phase, list, build, info, moved, playing>>

\* The reference of ObserverActionImp to the ControlImp, which CameraMove and
\* SendActions use, dangles after a Relaunch; the new ControlImp may be at the same
\* place.
DanglingActions(r) ==
    /\ moved[r]
    /\ \/ pc[r] = "events" /\ CallsOnStep(r) /\ ~camera[r] /\ "obs_action" \in Asks
       \/ pc[r] = "actions" /\ camera[r]
    /\ phase' = "crashed"
    /\ UNCHANGED <<coordinator, pc, list, observer, playing, ses, game>>

WaitActions(r) ==
    /\ pc[r] = "acting"
    /\ Wait(r)
    /\ Goto(r, AfterActions)
    /\ UNCHANGED <<coordinator, phase, list, observer, playing>>

OnGameEnd(r) ==
    /\ told' = [told EXCEPT ![r] = "end"]
    /\ Becomes(replay[r], "ended")

StillToldLater(r) == UNCHANGED <<told, fate>>              \* mutant
EndReplay(r) == IF IsInGame(ses[r]) THEN UNCHANGED <<told, fate>> ELSE OnGameEnd(r)

EndCheck(r) ==
    /\ pc[r] = "endcheck"
    /\ EndReplay(r)
    /\ Goto(r, "done")
    /\ UNCHANGED <<coordinator, phase, replays, observer, news, replay, ses, game>>

Observer(r) ==
    /\ phase # "crashed"
    /\ \/ Poll(r) \/ WaitForReplay(r) \/ OnGameStart(r) \/ Play(r) \/ WaitStep(r)
       \/ Look(r) \/ WaitObservation(r) \/ IssueEvents(r) \/ WaitQuery(r)
       \/ SendActions(r) \/ DanglingActions(r) \/ WaitActions(r) \/ EndCheck(r)

-----------------------------------------------------------------------------
(* Coordinator::Update and its loops over the observers.                   *)

Update ==
    /\ phase = "idle"
    /\ updated
    /\ IF started
       THEN phase' = "parallel" /\ pc' = [r \in Observers |-> "poll"]
       ELSE phase' = "available" /\ UNCHANGED pc
    /\ UNCHANGED <<coordinator, list, observer, playing, ses, game>>

AllDone == \A r \in Observers : pc[r] = "done"

HasLater == turn < N

HasSecondLoop == ~MultiThreaded

\* The second loop leaves out an observer whose game was given up.
Visit(r) == Goto(r, IF ses[r].app = "normal" THEN "events" ELSE "done")

BeginSecondLoop ==
    /\ phase = "parallel" /\ AllDone
    /\ HasSecondLoop
    /\ phase' = "sequence"
    /\ turn' = 1
    /\ Visit(1)
    /\ UNCHANGED <<settings, updated, started, version, list, observer, playing, ses, game>>

NextObserver ==
    /\ phase = "sequence" /\ pc[turn] = "done"
    /\ HasLater
    /\ turn' = turn + 1
    /\ Visit(turn + 1)
    /\ UNCHANGED <<settings, phase, updated, started, version, list, observer, playing,
                   ses, game>>

EndStepping ==
    /\ \/ phase = "parallel" /\ AllDone /\ ~HasSecondLoop
       \/ phase = "sequence" /\ pc[turn] = "done" /\ ~HasLater
    /\ phase' = "available"
    /\ UNCHANGED <<coordinator, pc, list, observer, playing, ses, game>>

AnyObserverAvailable == \E r \in Observers : ~IsInGame(ses[r])

\* ControlImp::Connect of a new ControlImp to a new process.
Connects ==
    {s \in ConnectOutcomes({"launched"}) : Failures \/ (s.connected /\ s.errors = {})}

\* LaunchProcesses, which ignores whether AttachClients could connect.  (StartReplay
\* sets starcraft_started_ at its end, before anything reads it.)
LaunchProcesses ==
    /\ \E s \in [Observers -> Connects] : ses' = s
    /\ inst' = [r \in Observers |-> "launched"]
    /\ build' = [r \in Observers |-> version]
    /\ started' = TRUE

\* "Run a replay with each available replay observer."
BeginStartReplay ==
    /\ phase = "available"
    /\ IF AnyObserverAvailable /\ replays # 0
       THEN /\ IF started THEN UNCHANGED <<ses, inst, build, started>> ELSE LaunchProcesses
            /\ phase' = "start"
            /\ turn' = 1
            /\ Goto(1, "ready")
       ELSE phase' = "errors" /\ UNCHANGED <<turn, pc, ses, inst, build, started>>
    /\ UNCHANGED <<settings, updated, version, list, info, moved, camera, playing, asked, ready>>

-----------------------------------------------------------------------------
(* StartReplay.                                                            *)

\* The replay that replay_file.back() names.
File == settings.files[replays]

\* What replay_info_ of observer r describes.
Described(r) == settings.files[info[r]]

\* The loop over the observers goes on.
NextAvailable ==
    IF HasLater
    THEN turn' = turn + 1 /\ pc' = [pc EXCEPT ![turn] = "done", ![turn + 1] = "ready"]
         /\ UNCHANGED phase
    ELSE phase' = "errors" /\ Goto(turn, "done") /\ UNCHANGED turn

\* ControlImp::IsReadyForCreateGame.
ReadyWhilePending(s) == s.app = "normal"                   \* mutant
    /\ (s.status \in {"launched", "ended"} \/ HasResponsePending(s))
IsReadyForCreateGame(s) ==
    /\ s.app = "normal"
    /\ ~HasResponsePending(s)
    /\ s.status \in {"launched", "ended"}

\* The observer that is next in the loop takes a replay, or is left out.
TakeObserver ==
    /\ pc[turn] = "ready"
    /\ IF IsReadyForCreateGame(ses[turn])
       THEN Goto(turn, "gather") /\ UNCHANGED <<phase, turn>>
       ELSE NextAvailable
    /\ UNCHANGED <<settings, updated, started, version, list, observer, playing, ses, game>>

\* No replays are left for it.
NoReplays ==
    /\ pc[turn] = "gather" /\ replays = 0
    /\ NextAvailable
    /\ UNCHANGED <<settings, updated, started, version, list, observer, playing, ses, game>>

GatherReplayInfo ==
    /\ pc[turn] = "gather" /\ replays # 0
    /\ Ask(turn, "replay_info", "gathering", "gathered")
    /\ UNCHANGED <<coordinator, phase, list, observer, playing>>

\* A wait that fails leaves the replay_info_ of another replay.
KeepsInfo(r) == IF info[r] = 0 THEN replays ELSE info[r]   \* mutant
Gathered(r) == replays

WaitReplayInfo ==
    /\ pc[turn] = "gathering"
    /\ Wait(turn)
    /\ info' = IF Gets(turn, "replay_info") THEN [info EXCEPT ![turn] = Gathered(turn)]
               ELSE info
    /\ Goto(turn, "gathered")
    /\ UNCHANGED <<coordinator, phase, list, build, moved, camera, playing>>

\* IgnoreReplay; the duration in a ReplayInfo that was never filled in is 0.
Ignored == info[turn] # 0 => Described(turn).short

IgnoreReplay ==
    /\ pc[turn] = "gathered"
    /\ Ignored
    /\ replays' = replays - 1
    /\ Becomes(replays, "ignored")
    /\ Goto(turn, "gather")
    /\ UNCHANGED <<coordinator, phase, observer, playing, ses, game>>

\* ShouldRelaunch: the game has another version than the replay, and that one is
\* installed.
MatchesPath == Described(turn).version = version           \* mutant
VersionMatch == Described(turn).version = build[turn]
ShouldRelaunch == ~VersionMatch /\ Described(turn).version \in Installed

\* FindBaseExe changes process_path.
SamePath == version                                        \* mutant
FindBaseExe == Described(turn).version

PopsFirst == replays - 1                                   \* mutant
StaysListed == replays

WrongGameVersion ==
    /\ pc[turn] = "gathered"
    /\ ~Ignored /\ ShouldRelaunch
    /\ version' = FindBaseExe
    /\ ses' = [ses EXCEPT ![turn] = Error(@, "WrongGameVersion")]
    /\ replays' = StaysListed
    /\ NextAvailable
    /\ UNCHANGED <<settings, updated, started, fate, observer, playing, game>>

\* The replay is taken off the list whether the request went out or not.
LoadReplay ==
    /\ pc[turn] = "gathered"
    /\ ~Ignored /\ ~ShouldRelaunch
    /\ Request(turn, ses[turn], "start_replay")
    /\ replays' = replays - 1
    /\ IF Outcome(turn, ses[turn], "start_replay").sent
       THEN /\ Becomes(replays, "sent")
            /\ replay' = [replay EXCEPT ![turn] = replays]
            /\ NextAvailable
       ELSE /\ Becomes(replays, "refused")
            /\ Goto(turn, "gather")
            /\ UNCHANGED <<replay, phase, turn>>
    /\ UNCHANGED <<settings, updated, started, version, observer, news, told>>

StartReplay ==
    /\ phase = "start"
    /\ \/ TakeObserver \/ NoReplays \/ GatherReplayInfo \/ WaitReplayInfo
       \/ IgnoreReplay \/ WrongGameVersion \/ LoadReplay

-----------------------------------------------------------------------------
(* Errors, Relaunch, and the program around Update.                        *)

Failed == {r \in Observers : ses[r].errors # {}}

\* What is left in s of the observers of R, or before in old.
Instead(R, new, old) == [r \in Observers |-> IF r \in R THEN new ELSE old[r]]

\* Relaunch of the observers of R: their ControlImps become s.
Relaunch(R, s) ==
    /\ ses' = s
    /\ inst' = Instead(R, "launched", inst)
    /\ asked' = Instead(R, "none", asked)
    /\ ready' = Instead(R, NoResponse, ready)
    /\ build' = Instead(R, version, build)
    /\ moved' = Instead(R, TRUE, moved)
    /\ news' = Instead(R, "none", news)
    /\ replay' = Instead(R, 0, replay)

AllGamesEnded(s) == \A r \in Observers : ~IsInGame(s[r]) /\ ~HasResponsePending(s[r])

\* An observer that failed for good is forgotten when a later one is relaunched:
\* error_occurred is one flag for all of them.
ForgottenErrors(relaunched) == FALSE                       \* mutant
ErrorOccurred(relaunched) ==
    \E r \in Failed \ relaunched : \A later \in relaunched : later < r

\* Update calls OnError for each observer with errors and relaunches it.
CheckErrors ==
    /\ phase = "errors"
    /\ LET R == IF Recovery THEN Failed ELSE {} IN
       \E new \in [R -> Connects] :
           LET s == [r \in Observers |-> IF r \in R THEN new[r] ELSE ses[r]]
               relaunched == {r \in R : s[r].connected}
           IN  /\ Relaunch(R, s)
               /\ updated' = (/\ ~ErrorOccurred(relaunched)
                              /\ ~AllGamesEnded(s) \/ relaunched # {})
    /\ phase' = "idle"
    /\ UNCHANGED <<settings, turn, started, version, pc, list, info, camera, told>>

\* while (coordinator.Update());
Exit ==
    /\ \/ phase \in {"exited", "crashed"}
       \/ phase = "idle" /\ ~updated
    /\ phase' = IF phase = "crashed" THEN phase ELSE "exited"
    /\ UNCHANGED <<coordinator, pc, list, observer, playing, ses, game>>

Run ==
    Update \/ BeginSecondLoop \/ NextObserver \/ EndStepping \/ BeginStartReplay
    \/ StartReplay \/ CheckErrors

-----------------------------------------------------------------------------
(* The game applications answer.                                           *)

Answer(r) ==
    LET t == asked[r] IN
    /\ t # "none" /\ inst[r] \notin Lost
    /\ asked' = [asked EXCEPT ![r] = "none"]
    /\ \E after \in Effects(r) :
        /\ inst' = [inst EXCEPT ![r] = after]
        /\ ready' = [ready EXCEPT ![r] =
                         [type |-> t, status |-> after, error |-> ~Valid(r, t)]]
    /\ UNCHANGED <<coordinator, phase, pc, list, observer, playing, ses>>

\* In realtime the replay goes on by itself.
ReplayOver(r) ==
    /\ Realtime
    /\ inst[r] = "in_replay"
    /\ inst' = [inst EXCEPT ![r] = "ended"]
    /\ UNCHANGED <<coordinator, phase, pc, list, observer, playing, ses, asked, ready>>

LastStep(r) == Answer(r) /\ inst'[r] = "ended"

Next == Run \/ Exit \/ \E r \in Observers : Observer(r) \/ Answer(r) \/ ReplayOver(r)

Spec == Init /\ [][Next]_vars

\* The threads of the program run, the games answer, and a replay has an end.
Fairness ==
    /\ WF_vars(Run)
    /\ \A r \in 1..MaxObservers : /\ WF_vars(r \in Observers /\ Observer(r))
                                  /\ WF_vars(r \in Observers /\ Answer(r))
                                  /\ WF_vars(r \in Observers /\ ReplayOver(r))
                                  /\ SF_vars(r \in Observers /\ LastStep(r))

FairSpec == Spec /\ Fairness
-----------------------------------------------------------------------------
(* Properties.                                                             *)

\* The loop `while (coordinator.Update())` has come to its end.
LoopEnded == phase \in {"idle", "exited"} /\ ~updated

\* OnStep asks for nothing that a game cannot answer: the second loop of
\* StepReplayObservers calls it for observers without a replay, or whose replay
\* is loading; with threads, it is called once after the replay has ended.
ThreadedOrQuiet == MultiThreaded \/ Asks = {}
NothingTooLate == ThreadedOrQuiet /\ "obs_action" \notin Asks

\* "If the replay isn't being pruned based on replay info start it" (ShouldIgnore):
\* a replay that is left out is one whose own info says so, unless a game fails
\* while the info is gathered.
IgnoredAreShort ==
    ~Failures => \A f \in Files : fate[f] = "ignored" => settings.files[f].short

\* ... and the others are started, unless they fail to load.
OthersAreStarted ==
    LoopEnded => \A f \in Files :
        ~settings.files[f].short => fate[f] \in {"failed", "started", "ended"}

\* They are, where no error relaunches an observer that has taken a replay.
RecoveredReplaysStart == ~Failures /\ Recovery /\ NothingTooLate => OthersAreStarted

\* "Called when a game has ended" (OnGameEnd): after an Update, a replay that was
\* started and not reported to have ended is still running.
EndsAreReported ==
    phase = "idle" /\ ~Realtime /\ ~Failures =>
        \A r \in Observers : told[r] = "start" => IsInGame(ses[r])

\* No response is abandoned: that a request is refused because of one is never
\* the first thing to go wrong.
NothingRefused ==
    ThreadedOrQuiet \/ N = 1 => \A r \in Observers :
        "ResponseNotConsumed" \in ses[r].errors => ses[r].errors # {"ResponseNotConsumed"}

\* A replay runs in the version of the game that recorded it, when that is
\* installed, whatever the other observers are relaunched for.
RunsInItsVersion ==
    ~Failures => \A r \in Observers :
        replay[r] # 0 /\ settings.files[replay[r]].version \in Installed =>
            build[r] = settings.files[replay[r]].version

\* Update returns true only when every observer can go on: a game that was given
\* up ends the loop or is replaced by one that is connected.  Several observers
\* need not be connected (AttachClients tells nobody), nor, when they are
\* relaunched, work at all (see ErrorOccurred).
GoesOnWithEveryObserver ==
    phase = "idle" /\ updated /\ started /\ (N = 1 \/ ~Recovery) =>
        \A r \in Observers : /\ ses[r].app = "normal"
                              /\ N = 1 => ses[r].connected

\* The loop around Update ends when the replays are done: no game is relaunched
\* for ever.
LoopEnds == settings.failures \/ <>(LoopEnded \/ phase = "crashed")
=============================================================================
