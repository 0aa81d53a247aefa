----------------------------- MODULE Observation -----------------------------
(***************************************************************************)
(* One agent in one game: the observations it gets, the events it is told  *)
(* and the orders it gives (ObservationImp::UpdateObservation and          *)
(* ControlImp::IssueEvents in src/src/sc2api/sc2_client.cc, ActionImp in   *)
(* src/src/sc2api/sc2_agent.cc), in the order in which JoinGame,           *)
(* StepAgents and StepAgentsRealtime of src/src/sc2api/sc2_coordinator.cc  *)
(* call them.  What happens when a game fails is in module Coordinator;    *)
(* the places of the units are in module UnitPool.                         *)
(*                                                                         *)
(* The game (external) moves on by one step of the agent, or by itself in  *)
(* realtime.  What an observation shows of a unit is the part of it that   *)
(* the events depend on.                                                   *)
(***************************************************************************)
EXTENDS Integers

CONSTANTS OwnTags, EnemyTags, Upgrades,
          MaxLoop,    \* bound on the game loops
          Modes       \* the values process_settings_.realtime may have

ASSUME ObservationAssumption ==
    /\ OwnTags \cap EnemyTags = {}
    /\ MaxLoop \in Nat
    /\ Modes \subseteq BOOLEAN

VARIABLES
    realtime,              \* process_settings_.realtime
    loop, units, upgrades, \* the game: its loop, units and finished upgrades
    died,                  \* the dead_units its observation lists
    current_game_loop_,
    previous_game_loop,
    existing,              \* the data of the existing units in unit_pool_
    known,                 \* the units GetUnit of unit_pool_ finds
    units_previous_map_,
    upgrades_,
    upgrades_previous_,
    dead_units,            \* of the event in observation_
    request_actions_,      \* units with a command in the request to be sent
    commands_,
    stage,                 \* where the agent's processing is
    seen, learned, ordered, news,   \* those of EventStream
    destroyed              \* the units of all OnUnitDestroyed (history)

game == <<loop, units, upgrades, died>>
observation == <<current_game_loop_, previous_game_loop, existing, known,
                 units_previous_map_, upgrades_, upgrades_previous_, dead_units>>
actions == <<request_actions_, commands_>>
bot == <<seen, learned, ordered, news, destroyed>>
vars == <<realtime, game, observation, actions, stage, bot>>

Stream == INSTANCE EventStream

Tags == Stream!Tags
Views == Stream!Views

\* What the game knows of a unit: not there yet, in a transport or out of
\* sight, dead, or shown.
Truths == {"unborn", "away", "dead"} \cup Stream!OwnViews \cup Stream!EnemyViews

\* numeric_limits<uint32_t>::max() of the first observation.
NoLoop == -1
Loops == Nat \cup {NoLoop}

Stages == {"first_look", "first_events", "update", "look", "events", "actions"}

TypeOK ==
    /\ realtime \in BOOLEAN
    /\ loop \in Nat
    /\ units \in [Tags -> Truths]
    /\ upgrades \in SUBSET Upgrades
    /\ died \in SUBSET Tags
    /\ current_game_loop_ \in Loops /\ previous_game_loop \in Loops
    /\ existing \in [Tags -> Views]
    /\ known \in SUBSET Tags
    /\ units_previous_map_ \in [Tags -> Views]
    /\ upgrades_ \in SUBSET Upgrades /\ upgrades_previous_ \in SUBSET Upgrades
    /\ dead_units \in SUBSET Tags
    /\ request_actions_ \in SUBSET OwnTags /\ commands_ \in SUBSET OwnTags
    /\ stage \in Stages
    /\ seen \in [Tags -> Views]
    /\ learned \in SUBSET Upgrades
    /\ ordered \in SUBSET OwnTags
    /\ news \in Stream!News
    /\ destroyed \in SUBSET Tags

NoUnits == [t \in Tags |-> "none"]

Init ==
    /\ realtime \in Modes
    /\ loop = 0
    /\ units \in [Tags -> Truths]
    /\ \A t \in OwnTags : units[t] \in {"unborn", "idle"}
    /\ \A t \in EnemyTags : units[t] \in {"away", "visible"}
    /\ upgrades = {}
    /\ died = {}
    /\ current_game_loop_ = NoLoop /\ previous_game_loop = NoLoop
    /\ existing = NoUnits
    /\ known = {}
    /\ units_previous_map_ = NoUnits
    /\ upgrades_ = {} /\ upgrades_previous_ = {}
    /\ dead_units = {}
    /\ request_actions_ = {} /\ commands_ = {}
    /\ stage = "first_look"
    /\ Stream!StreamInit
    /\ destroyed = {}

-----------------------------------------------------------------------------
(* The game (external).                                                    *)

\* What becomes of a unit of which the game knows v.
Becomes(t, v) ==
    CASE v = "dead" -> {"dead"}
      [] v # "dead" /\ t \in EnemyTags -> {"away", "dead"} \cup Stream!EnemyViews
      [] v = "unborn" -> {"unborn"} \cup Stream!OwnViews
      [] v = "building" -> {"dead"} \cup Stream!OwnViews
      [] OTHER -> {"idle", "busy", "away", "dead"}

\* The game moves on.  Its next observation lists the units that died since
\* the last.
GameAdvances ==
    /\ loop < MaxLoop
    /\ loop' = loop + 1
    /\ \E next \in [Tags -> Truths] :
        /\ \A t \in Tags : next[t] \in Becomes(t, units[t])
        /\ units' = next
        /\ died' = (IF loop = current_game_loop_ THEN {} ELSE died)
                     \cup {t \in Tags : next[t] = "dead" /\ units[t] # "dead"}
    /\ upgrades' \in {u \in SUBSET Upgrades : upgrades \subseteq u}

\* In realtime it does so at any time.
GameRuns ==
    /\ realtime
    /\ GameAdvances
    /\ UNCHANGED <<realtime, observation, actions, stage, bot>>

\* What an observation shows of the units.
Shown(t) == IF units[t] \in Views THEN units[t] ELSE "none"

-----------------------------------------------------------------------------
(* An Update of the agent.                                                 *)

\* Step and WaitStep up to the observation.
Step ==
    /\ ~realtime
    /\ stage = "update"
    /\ GameAdvances
    /\ stage' = "look"
    /\ UNCHANGED <<realtime, observation, actions, bot>>

PreviousMapAfterClear == NoUnits                           \* mutant

\* units_previous_map_ once an observation came: a copy of the existing units.
PreviousMap == existing

\* GetObservation and UpdateObservation, in JoinGame, after a step, or at the
\* beginning of an Update in realtime.
GetObservation ==
    /\ stage \in {"first_look", "look"} \/ (realtime /\ stage = "update")
    /\ previous_game_loop' = current_game_loop_
    /\ current_game_loop_' = loop
    /\ units_previous_map_' = PreviousMap
    /\ existing' = [t \in Tags |-> Shown(t)]
    /\ known' = known \cup {t \in Tags : Shown(t) # "none"}
    /\ upgrades_previous_' = upgrades_
    /\ upgrades_' = upgrades
    /\ dead_units' = died
    /\ stage' = IF stage = "first_look" THEN "first_events" ELSE "events"
    /\ UNCHANGED <<realtime, game, actions, bot>>


\* IssueEvents goes on only when there is a new game loop.
IsNewFrame == current_game_loop_ # previous_game_loop

\* IssueUnitDestroyedEvents skips the units it does not know.
Destroyed == dead_units \cap known

\* What exists once MarkDead was called for them.
Remaining == [t \in Tags |-> IF t \in Destroyed THEN "none" ELSE existing[t]]

WasThere(t) == units_previous_map_[t] # "none"

\* IssueUnitAddedEvents.
EnteredVision == {t \in EnemyTags : ~WasThere(t) /\ Remaining[t] = "visible"}
Created == {t \in OwnTags : ~WasThere(t) /\ Remaining[t] # "none"}

IgnoresCommands(t) == units_previous_map_[t] # "idle"      \* mutant

\* IssueIdleEvent: a unit without orders is new, had orders, was incomplete, or
\* got an order that must have failed.
IsIdleNews(t) ==
    \/ ~WasThere(t)
    \/ units_previous_map_[t] \in {"busy", "building"}
    \/ t \in commands_
BecomesIdle == {t \in OwnTags : Remaining[t] = "idle" /\ IsIdleNews(t)}

\* IssueBuildingCompletedEvent.
Completed == {t \in OwnTags : /\ Remaining[t] \in {"idle", "busy"}
                              /\ units_previous_map_[t] = "building"}

\* IssueUpgradeEvents.
Upgraded == upgrades_ \ upgrades_previous_

\* After JoinGame's IssueEvents no actions are sent.
AfterEvents == IF stage = "first_events" THEN "update" ELSE "actions"

\* IssueEvents: the callbacks and OnStep, in which the bot may command units.
IssueEvents ==
    /\ stage \in {"first_events", "events"}
    /\ IsNewFrame
    /\ existing' = Remaining
    /\ news' = [destroyed |-> Destroyed, entered |-> EnteredVision, created |-> Created,
                idle |-> BecomesIdle, completed |-> Completed, upgraded |-> Upgraded]
    /\ destroyed' = destroyed \cup Destroyed
    /\ \E commanded \in SUBSET {t \in OwnTags : Remaining[t] # "none"} :
           request_actions_' = request_actions_ \cup commanded
    /\ seen' = Remaining
    /\ learned' = upgrades_
    /\ ordered' = {}
    /\ stage' = AfterEvents
    /\ UNCHANGED <<realtime, game, current_game_loop_, previous_game_loop, known,
                   units_previous_map_, upgrades_, upgrades_previous_, dead_units,
                   commands_>>

IssueNothing ==
    /\ stage \in {"first_events", "events"}
    /\ ~IsNewFrame
    /\ stage' = AfterEvents
    /\ UNCHANGED <<realtime, game, observation, actions, bot>>

\* ActionImp::SendActions.
SendActions ==
    /\ stage = "actions"
    /\ commands_' = request_actions_
    /\ request_actions_' = {}
    /\ ordered' = ordered \cup request_actions_
    /\ stage' = "update"
    /\ UNCHANGED <<realtime, game, observation, seen, learned, news, destroyed>>

Next == GameRuns \/ Step \/ GetObservation \/ IssueEvents \/ IssueNothing \/ SendActions

Spec == Init /\ [][Next]_vars

-----------------------------------------------------------------------------
(* Properties.                                                             *)

\* The callbacks IssueEvents makes are about the differences between the units
\* the bot looks at now and those it looked at in its last OnStep, whatever
\* observations came in between: what EventStream says of each.
ImplementsStream == Stream!StreamSpec

\* "the order must have failed. Reissue the OnUnitIdle event in that case"
\* (the comment in IssueIdleEvent, sc2_client.cc:2083): a unit that was given an
\* order and has none at the next OnStep is reported idle again, when the agent
\* steps the game itself.  (In realtime SendActions may have forgotten the
\* order.)  The two texts of the code disagree here: sc2_client.h:69-72 says of
\* OnUnitIdle "and not a second time" and defines idle by the orders of the
\* previous step, which a unit whose order failed did not have.  The code does
\* what IssueIdleEvent says, and so this property is not the header's.
FailedOrdersAreReissuedWhenStepped ==
    [][IssueEvents /\ ~realtime =>
           \A t \in ordered : seen'[t] = "idle" => t \in news'.idle]_vars

-----------------------------------------------------------------------------
(* The inductive invariant.                                                *)

Observed == {"first_events", "events"}

\* What the bot looked at last is what exists now, or what existed before the
\* observation whose events are to be issued.
SeenInv ==
    IF stage \in Observed /\ IsNewFrame
    THEN units_previous_map_ = seen /\ upgrades_previous_ = learned
    ELSE existing = seen /\ upgrades_ = learned

\* An observation of the game loop that was observed before shows nothing new.
SameLoopInv ==
    /\ current_game_loop_ <= loop
    /\ loop = current_game_loop_ =>
           /\ existing = [t \in Tags |-> Shown(t)]
           /\ upgrades_ = upgrades
           /\ stage \in Observed => dead_units = died

\* The dead stay dead, and each is listed and reported once.
DeadInv ==
    /\ \A t \in died \cup dead_units \cup destroyed : units[t] = "dead"
    /\ loop # current_game_loop_ => died \cap (dead_units \cup destroyed) = {}
    /\ stage \in Observed /\ IsNewFrame => dead_units \cap destroyed = {}

\* commands_ are among the orders sent since the last OnStep, ...
OrderInv ==
    /\ stage # "actions" => commands_ \subseteq ordered
    /\ stage \in {"first_look", "first_events"} => commands_ = {}

\* ... and all of them when every observation is one of a new game loop.
StepInv ==
    ~realtime =>
        /\ stage = "actions" => ordered = {}
        /\ stage # "actions" => commands_ = ordered
        /\ stage \in {"first_look", "look"} => current_game_loop_ # loop
        /\ stage \in Observed => IsNewFrame

\* An own unit has no view of an enemy's.
OwnInv ==
    \A t \in OwnTags :
        Stream!EnemyViews \cap {units[t], existing[t], seen[t]} = {}

IInv == TypeOK /\ OwnInv /\ SeenInv /\ SameLoopInv /\ DeadInv /\ OrderInv /\ StepInv
=============================================================================
