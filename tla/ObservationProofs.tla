-------------------------- MODULE ObservationProofs --------------------------
(***************************************************************************)
(* Proofs about Observation, for any units, upgrades and number of game    *)
(* loops: the events a bot gets are those EventStream allows, a unit is    *)
(* destroyed once, and failed orders are reported when the agent steps     *)
(* the game.  Then about UnitPool, which holds the units of these events,  *)
(* for any tags and any size of a page: the pages never overlap or run     *)
(* out, and the pointer to a unit is stable.                               *)
(***************************************************************************)
EXTENDS Observation, UnitPool, TLAPS

\* What is needed to know of the views of a unit.
LEMMA ViewFacts ==
    /\ "none" \in Views /\ "dead" \notin Views
    /\ \A t \in Tags : Shown(t) \in Views /\ (units[t] = "dead" => Shown(t) = "none")
  BY DEF Views, Stream!Views, Stream!OwnViews, Stream!EnemyViews, Shown

LEMMA TagFacts == OwnTags \subseteq Tags /\ EnemyTags \subseteq Tags
  BY DEF Tags, Stream!Tags

\* The events are about known units, and about own and enemy ones.
LEMMA EventTypes ==
    ASSUME TypeOK
    PROVE  /\ Destroyed \in SUBSET Tags
           /\ EnteredVision \in SUBSET EnemyTags
           /\ Created \in SUBSET OwnTags
           /\ BecomesIdle \in SUBSET OwnTags
           /\ Completed \in SUBSET OwnTags
           /\ Upgraded \in SUBSET Upgrades
           /\ Remaining \in [Tags -> Views]
  BY ViewFacts DEF TypeOK, Destroyed, EnteredVision, Created, BecomesIdle, Completed,
                   Upgraded, Remaining

\* The game only moves forward, and its dead stay dead.
LEMMA GameFacts ==
    ASSUME TypeOK, GameAdvances
    PROVE  /\ loop' = loop + 1
           /\ units' \in [Tags -> Truths]
           /\ upgrades' \in SUBSET Upgrades
           /\ died' = (IF loop = current_game_loop_ THEN {} ELSE died)
                        \cup {t \in Tags : units'[t] = "dead" /\ units[t] # "dead"}
           /\ \A t \in Tags : units[t] = "dead" => units'[t] = "dead"
  <1>1. PICK next \in [Tags -> Truths] :
            /\ \A t \in Tags : next[t] \in Becomes(t, units[t])
            /\ units' = next
            /\ died' = (IF loop = current_game_loop_ THEN {} ELSE died)
                         \cup {t \in Tags : next[t] = "dead" /\ units[t] # "dead"}
    BY DEF GameAdvances
  <1>2. \A t \in Tags : units[t] = "dead" => Becomes(t, units[t]) = {"dead"}
    BY DEF Becomes
  <1>3. \A t \in Tags : units[t] = "dead" => units'[t] = "dead"
    BY <1>1, <1>2
  <1>4. loop' = loop + 1 /\ upgrades' \in SUBSET Upgrades
    BY DEF GameAdvances
  <1>. QED  BY <1>1, <1>3, <1>4

-----------------------------------------------------------------------------

LEMMA InitIInv == Init => IInv
  <1> SUFFICES ASSUME Init PROVE IInv
    OBVIOUS
  <1> USE DEF Init
  <1>1. TypeOK
    <2>1. Stream!NoNews \in Stream!News
      BY DEF Stream!NoNews, Stream!News
    <2>2. seen \in [Tags -> Views] /\ learned = {} /\ ordered = {} /\ news = Stream!NoNews
      BY ViewFacts DEF Stream!StreamInit, Tags
    <2>3. NoUnits \in [Tags -> Views]
      BY ViewFacts DEF NoUnits
    <2>4. realtime \in BOOLEAN
      BY ObservationAssumption
    <2>. QED  BY <2>1, <2>2, <2>3, <2>4 DEF TypeOK, Loops, NoLoop, Stages
  <1>5. OwnInv
    BY TagFacts DEF OwnInv, NoUnits, Stream!EnemyViews, Stream!StreamInit, Tags
  <1>2. SeenInv
    BY DEF SeenInv, Observed, Stream!StreamInit, NoUnits, Tags
  <1>3. SameLoopInv /\ DeadInv
    BY DEF SameLoopInv, DeadInv, NoLoop, Observed
  <1>4. OrderInv /\ StepInv
    BY DEF OrderInv, StepInv, NoLoop, Observed, Stream!StreamInit
  <1>. QED  BY <1>1, <1>2, <1>3, <1>4, <1>5 DEF IInv

LEMMA NextTypeOK == TypeOK /\ [Next]_vars => TypeOK'
  <1> SUFFICES ASSUME TypeOK, [Next]_vars PROVE TypeOK'
    OBVIOUS
  <1>1. CASE GameRuns
    <2>1. died' \in SUBSET Tags /\ loop' \in Nat
      BY <1>1, GameFacts DEF GameRuns, TypeOK
    <2>. QED  BY <1>1, <2>1, GameFacts DEF GameRuns, TypeOK, observation, actions, bot
  <1>2. CASE Step
    <2>1. died' \in SUBSET Tags /\ loop' \in Nat
      BY <1>2, GameFacts DEF Step, TypeOK
    <2>2. stage' \in Stages
      BY <1>2 DEF Step, Stages
    <2>. QED  BY <1>2, <2>1, <2>2, GameFacts DEF Step, TypeOK, observation, actions, bot
  <1>3. CASE GetObservation
    <2>1. stage' \in Stages
      BY <1>3 DEF GetObservation, Stages
    <2>2. existing' \in [Tags -> Views] /\ known' \in SUBSET Tags
      BY <1>3, ViewFacts DEF GetObservation, TypeOK
    <2>. QED
      BY <1>3, <2>1, <2>2 DEF GetObservation, PreviousMap, TypeOK, Loops, game, actions, bot
  <1>4. CASE IssueEvents
    <2>1. stage' \in Stages
      BY <1>4 DEF IssueEvents, AfterEvents, Stages
    <2>2. news' \in Stream!News
      BY <1>4, EventTypes DEF IssueEvents, Stream!News, Tags
    <2>3. request_actions_' \in SUBSET OwnTags
      BY <1>4 DEF IssueEvents, TypeOK
    <2>. QED
      BY <1>4, <2>1, <2>2, <2>3, EventTypes DEF IssueEvents, TypeOK, game
  <1>5. CASE IssueNothing
    BY <1>5 DEF IssueNothing, AfterEvents, Stages, TypeOK, game, observation, actions, bot
  <1>6. CASE SendActions
    BY <1>6 DEF SendActions, Stages, TypeOK, game, observation
  <1>7. CASE UNCHANGED vars
    BY <1>7 DEF vars, TypeOK, game, observation, actions, bot
  <1>. QED  BY <1>1, <1>2, <1>3, <1>4, <1>5, <1>6, <1>7 DEF Next

\* An own unit never gets a view of an enemy's.
LEMMA NextOwnInv == IInv /\ [Next]_vars => OwnInv'
  <1> SUFFICES ASSUME IInv, [Next]_vars, NEW t \in OwnTags
               PROVE  Stream!EnemyViews \cap {units'[t], existing'[t], seen'[t]} = {}
    BY DEF OwnInv, Stream!EnemyViews
  <1>0. /\ t \in Tags /\ t \notin EnemyTags /\ TypeOK
        /\ Stream!EnemyViews \cap {units[t], existing[t], seen[t]} = {}
    BY TagFacts, ObservationAssumption DEF IInv, OwnInv
  <1>1. ASSUME GameAdvances, UNCHANGED <<existing, seen>>
        PROVE  Stream!EnemyViews \cap {units'[t], existing'[t], seen'[t]} = {}
    <2>1. units'[t] \in Becomes(t, units[t])
      BY <1>0, <1>1 DEF GameAdvances
    <2>2. units'[t] \notin Stream!EnemyViews
      BY <1>0, <2>1 DEF Becomes, Stream!OwnViews, Stream!EnemyViews
    <2>. QED  BY <1>0, <1>1, <2>2
  <1>2. CASE GetObservation
    <2>1. existing'[t] \notin Stream!EnemyViews
      BY <1>0, <1>2 DEF GetObservation, Shown, Stream!EnemyViews
    <2>. QED  BY <1>0, <1>2, <2>1 DEF GetObservation, game, bot
  <1>3. CASE IssueEvents
    <2>1. existing'[t] \notin Stream!EnemyViews /\ seen'[t] = existing'[t]
      BY <1>0, <1>3 DEF IssueEvents, Remaining, Stream!EnemyViews
    <2>. QED  BY <1>0, <1>3, <2>1 DEF IssueEvents, game
  <1>4. CASE UNCHANGED <<units, existing, seen>>
    BY <1>0, <1>4
  <1>. QED
    BY <1>1, <1>2, <1>3, <1>4
    DEF Next, GameRuns, Step, IssueNothing, SendActions, vars, game, observation, bot

\* When the events are issued, units_previous_map_ is what the bot saw last.
LEMMA NextSeenInv == IInv /\ [Next]_vars => SeenInv'
  <1> SUFFICES ASSUME IInv, [Next]_vars PROVE SeenInv'
    OBVIOUS
  <1> USE DEF SeenInv, Observed, IsNewFrame
  <1>1. CASE GameRuns
    BY <1>1 DEF IInv, GameRuns, observation, bot
  <1>2. CASE Step
    BY <1>2 DEF IInv, Step, observation, bot
  <1>3. CASE GetObservation
    <2>1. existing = seen /\ upgrades_ = learned
      BY <1>3 DEF IInv, GetObservation
    <2>2. CASE loop = current_game_loop_
      <3>1. existing' = existing /\ upgrades_' = upgrades_
        BY <1>3, <2>2 DEF IInv, SameLoopInv, GetObservation
      <3>. QED  BY <1>3, <2>1, <2>2, <3>1 DEF GetObservation, bot
    <2>3. CASE loop # current_game_loop_
      BY <1>3, <2>1, <2>3 DEF GetObservation, PreviousMap, bot
    <2>. QED  BY <2>2, <2>3
  <1>4. CASE IssueEvents
    BY <1>4 DEF IssueEvents, AfterEvents
  <1>5. CASE IssueNothing
    BY <1>5 DEF IInv, IssueNothing, AfterEvents, observation, bot
  <1>6. CASE SendActions
    BY <1>6 DEF IInv, SendActions, observation
  <1>7. CASE UNCHANGED vars
    BY <1>7 DEF IInv, vars, observation, bot
  <1>. QED  BY <1>1, <1>2, <1>3, <1>4, <1>5, <1>6, <1>7 DEF Next

\* MarkDead takes nothing away that an observation of the same game loop shows.
LEMMA NextSameLoopInv == IInv /\ [Next]_vars => SameLoopInv'
  <1> SUFFICES ASSUME IInv, [Next]_vars PROVE SameLoopInv'
    OBVIOUS
  <1>0. TypeOK /\ current_game_loop_ \in Loops /\ loop \in Nat
    BY DEF IInv, TypeOK
  <1> USE DEF Observed
  <1>1. ASSUME GameAdvances, UNCHANGED observation
        PROVE  SameLoopInv'
    <2>1. loop' = loop + 1
      BY <1>0, <1>1, GameFacts
    <2>. QED  BY <1>0, <1>1, <2>1 DEF IInv, SameLoopInv, Loops, NoLoop, observation
  <1>2. CASE GetObservation
    <2>1. existing' = [t \in Tags |-> Shown(t)'] /\ upgrades_' = upgrades'
      BY <1>2 DEF GetObservation, game, Shown
    <2>2. current_game_loop_' = loop' /\ dead_units' = died'
      BY <1>2 DEF GetObservation, game
    <2>. QED  BY <1>0, <1>2, <2>1, <2>2 DEF SameLoopInv, GetObservation, game
  <1>3. CASE IssueEvents
    <2>1. ASSUME loop = current_game_loop_
          PROVE  Remaining = [t \in Tags |-> Shown(t)]
      <3>1. \A t \in Destroyed : t \in Tags /\ units[t] = "dead"
        BY <1>0, EventTypes DEF IInv, DeadInv, Destroyed
      <3>2. existing = [t \in Tags |-> Shown(t)]
        BY <2>1 DEF IInv, SameLoopInv
      <3>3. \A t \in Tags : (IF t \in Destroyed THEN "none" ELSE existing[t]) = Shown(t)
        BY <3>1, <3>2, ViewFacts
      <3>. QED  BY <3>3 DEF Remaining
    <2>2. [t \in Tags |-> Shown(t)'] = [t \in Tags |-> Shown(t)]
      BY <1>3 DEF IssueEvents, game, Shown
    <2>. QED  BY <1>3, <2>1, <2>2 DEF IInv, SameLoopInv, IssueEvents, AfterEvents, game
  <1>4. ASSUME UNCHANGED <<game, observation>>, stage' \in Observed => stage \in Observed
        PROVE  SameLoopInv'
    <2>1. [t \in Tags |-> Shown(t)'] = [t \in Tags |-> Shown(t)]
      BY <1>4 DEF game, Shown
    <2>. QED  BY <1>4, <2>1 DEF IInv, SameLoopInv, game, observation
  <1>. QED
    BY <1>1, <1>2, <1>3, <1>4
    DEF Next, GameRuns, Step, IssueNothing, AfterEvents, SendActions, vars

\* A death is listed until it was observed, and no longer.
LEMMA NextDeadInv == IInv /\ [Next]_vars => DeadInv'
  <1> SUFFICES ASSUME IInv, [Next]_vars PROVE DeadInv'
    OBVIOUS
  <1>0. TypeOK /\ current_game_loop_ \in Loops /\ loop \in Nat
    BY DEF IInv, TypeOK
  <1> USE DEF Observed, IsNewFrame
  <1>1. ASSUME GameAdvances, UNCHANGED <<observation, destroyed>>,
               stage' \in Observed => stage \in Observed
        PROVE  DeadInv'
    <2>1. \A t \in died \cup dead_units \cup destroyed : t \in Tags /\ units[t] = "dead"
      BY <1>0 DEF IInv, DeadInv, TypeOK
    <2>2. \A t \in died' : t \in Tags /\ units'[t] = "dead" /\ (units[t] = "dead" => t \in died)
      BY <1>0, <1>1, <2>1, GameFacts
    <2>3. \A t \in died' : units[t] = "dead" => loop # current_game_loop_
      BY <1>0, <1>1, <2>1, GameFacts
    <2>4. died' \cap (dead_units \cup destroyed) = {}
      BY <2>1, <2>2, <2>3 DEF IInv, DeadInv
    <2>5. \A t \in dead_units \cup destroyed : units'[t] = "dead"
      BY <1>0, <1>1, <2>1, GameFacts
    <2>. QED  BY <1>1, <2>2, <2>4, <2>5 DEF IInv, DeadInv, observation
  <1>2. CASE GetObservation
    <2>1. /\ dead_units' = died /\ died' = died /\ units' = units
          /\ destroyed' = destroyed /\ loop' = current_game_loop_'
          /\ previous_game_loop' = current_game_loop_ /\ loop' = loop
      BY <1>2 DEF GetObservation, game, bot
    <2>. QED  BY <2>1 DEF IInv, DeadInv
  <1>3. CASE IssueEvents
    <2>1. /\ dead_units' = dead_units /\ died' = died /\ units' = units
          /\ loop' = loop /\ current_game_loop_' = current_game_loop_
          /\ destroyed' = destroyed \cup Destroyed /\ stage' \notin Observed
      BY <1>3 DEF IssueEvents, AfterEvents, game
    <2>2. Destroyed \subseteq dead_units
      BY DEF Destroyed
    <2>. QED  BY <2>1, <2>2 DEF IInv, DeadInv
  <1>4. ASSUME UNCHANGED <<game, observation, destroyed>>,
               stage' \in Observed => stage \in Observed
        PROVE  DeadInv'
    BY <1>4 DEF IInv, DeadInv, game, observation
  <1>. QED
    BY <1>1, <1>2, <1>3, <1>4
    DEF Next, GameRuns, Step, IssueNothing, AfterEvents, SendActions, vars, bot

LEMMA NextOrderInv == IInv /\ [Next]_vars => OrderInv'
  <1> SUFFICES ASSUME IInv, [Next]_vars PROVE OrderInv'
    OBVIOUS
  <1> USE DEF OrderInv
  <1>1. CASE GameRuns
    BY <1>1 DEF IInv, GameRuns, actions, bot
  <1>2. CASE Step
    BY <1>2 DEF IInv, Step, actions, bot
  <1>3. CASE GetObservation
    BY <1>3 DEF IInv, GetObservation, actions, bot
  <1>4. CASE IssueEvents
    BY <1>4 DEF IInv, IssueEvents, AfterEvents
  <1>5. CASE IssueNothing
    BY <1>5 DEF IInv, IssueNothing, AfterEvents, actions, bot
  <1>6. CASE SendActions
    BY <1>6 DEF SendActions
  <1>7. CASE UNCHANGED vars
    BY <1>7 DEF IInv, vars, actions, bot
  <1>. QED  BY <1>1, <1>2, <1>3, <1>4, <1>5, <1>6, <1>7 DEF Next

\* An agent that steps its game never observes a game loop twice.
LEMMA NextStepInv == IInv /\ [Next]_vars => StepInv'
  <1> SUFFICES ASSUME IInv, [Next]_vars PROVE StepInv'
    OBVIOUS
  <1>8. realtime' = realtime
    BY DEF Next, GameRuns, Step, GetObservation, IssueEvents, IssueNothing, SendActions,
           vars
  <1> SUFFICES ASSUME ~realtime PROVE StepInv'
    BY <1>8 DEF StepInv
  <1>0. /\ TypeOK /\ current_game_loop_ \in Loops /\ loop \in Nat
        /\ current_game_loop_ <= loop
    BY DEF IInv, TypeOK, SameLoopInv
  <1> USE DEF StepInv, Observed, IsNewFrame
  <1>1. CASE GameRuns
    BY <1>1 DEF GameRuns
  <1>2. CASE Step
    <2>1. loop' = loop + 1
      BY <1>0, <1>2, GameFacts DEF Step
    <2>. QED  BY <1>0, <1>2, <2>1 DEF IInv, Step, Loops, NoLoop, observation, actions, bot
  <1>3. CASE GetObservation
    BY <1>3 DEF IInv, GetObservation, actions, bot
  <1>4. CASE IssueEvents
    BY <1>4 DEF IInv, OrderInv, IssueEvents, AfterEvents
  <1>5. CASE IssueNothing
    BY <1>5 DEF IInv, IssueNothing
  <1>6. CASE SendActions
    BY <1>6 DEF IInv, SendActions
  <1>7. CASE UNCHANGED vars
    BY <1>7 DEF IInv, vars, game, observation, actions, bot
  <1>. QED  BY <1>1, <1>2, <1>3, <1>4, <1>5, <1>6, <1>7 DEF Next

LEMMA NextIInv == IInv /\ [Next]_vars => IInv'
  BY NextTypeOK, NextOwnInv, NextSeenInv, NextSameLoopInv, NextDeadInv, NextOrderInv, NextStepInv
  DEF IInv

\* What the client remembers of the last observation, of the deaths and of the
\* orders is in keeping with what the bot saw, learned and did: the invariant
\* of Observation, for any units and any number of game loops.
THEOREM Invariance == Spec => []IInv
  <1>. QED  BY InitIInv, NextIInv, PTL DEF Spec

-----------------------------------------------------------------------------

LEMMA InitStream == Init => Stream!StreamInit
  BY DEF Init

\* Only IssueEvents and SendActions are steps of the stream.
LEMMA NextStream == IInv /\ [Next]_vars => [Stream!StreamNext]_(Stream!streamVars)
  <1> SUFFICES ASSUME IInv, [Next]_vars PROVE [Stream!StreamNext]_(Stream!streamVars)
    OBVIOUS
  <1>1. CASE IssueEvents
    <2>1. /\ units_previous_map_ = seen /\ upgrades_previous_ = learned
          /\ commands_ \subseteq ordered
      BY <1>1 DEF IInv, SeenInv, OrderInv, IssueEvents, Observed
    <2>2. /\ seen' = Remaining /\ learned' = upgrades_ /\ ordered' = {}
          /\ news'.created = Created /\ news'.entered = EnteredVision
          /\ news'.completed = Completed /\ news'.idle = BecomesIdle
          /\ news'.destroyed = Destroyed /\ news'.upgraded = Upgraded
      BY <1>1 DEF IssueEvents
    <2>3. \A t \in OwnTags : seen[t] \in {"none", "idle", "busy", "building"}
      BY TagFacts
      DEF IInv, TypeOK, OwnInv, Views, Stream!Views, Stream!OwnViews, Stream!EnemyViews
    <2>4. /\ news'.created = {t \in OwnTags : seen[t] = "none" /\ seen'[t] # "none"}
          /\ news'.completed = {t \in OwnTags : seen[t] = "building" /\ seen'[t] \in {"idle", "busy"}}
      BY <2>1, <2>2 DEF Created, Completed, WasThere
    <2>5. Stream!Appeared = news'.entered /\ news'.entered \subseteq Stream!BecameVisible
      BY <2>1, <2>2 DEF EnteredVision, WasThere, Stream!Appeared, Stream!BecameVisible
    <2>6. Stream!BecameIdle \subseteq news'.idle
      BY <2>1, <2>2, <2>3 DEF Stream!BecameIdle, BecomesIdle, IsIdleNews, WasThere
    <2>7. news'.idle \subseteq Stream!BecameIdle \cup Stream!StillIdle
      BY <2>1, <2>2
      DEF Stream!BecameIdle, Stream!StillIdle, BecomesIdle, IsIdleNews, WasThere
    <2>8. \A t \in news'.destroyed : seen'[t] = "none"
      BY <2>2, EventTypes DEF IInv, Remaining
    <2>9. news'.upgraded = learned' \ learned
      BY <2>1, <2>2 DEF Upgraded
    <2>. QED
      BY <2>2, <2>4, <2>5, <2>6, <2>7, <2>8, <2>9 DEF Stream!StreamNext, Stream!Deliver
  <1>2. CASE SendActions
    BY <1>2 DEF SendActions, Stream!StreamNext, Stream!Order
  <1>3. CASE UNCHANGED <<seen, learned, ordered, news>>
    BY <1>3 DEF Stream!streamVars
  <1>. QED
    BY <1>1, <1>2, <1>3
    DEF Next, GameRuns, Step, GetObservation, IssueNothing, vars, bot

\* Observation implements EventStream: whatever observations came in between, the
\* callbacks before an OnStep compare with what the bot saw at the last OnStep.
\* Creations, completions and upgrades are told exactly; no unit that becomes idle
\* or appears from nowhere is left out; any other call of OnUnitIdle is for a unit
\* that got an order, of OnUnitEnterVision for one that became visible.
THEOREM Refinement == Spec => ImplementsStream
  <1>1. IInv /\ [Next]_vars => [Stream!StreamNext]_(Stream!streamVars)
    BY NextStream
  <1>. QED
    BY <1>1, InitStream, Invariance, PTL DEF Spec, ImplementsStream, Stream!StreamSpec

\* OnUnitDestroyed is called once for each unit.
THEOREM UnitsDieOnce == Spec => [][IssueEvents => news'.destroyed \cap destroyed = {}]_vars
  <1>1. IInv /\ [Next]_vars =>
            [IssueEvents => news'.destroyed \cap destroyed = {}]_vars
    BY DEF IInv, DeadInv, Observed, IssueEvents, Destroyed
  <1>. QED  BY <1>1, Invariance, PTL DEF Spec

\* When the agent steps the game, a unit whose order failed is reported idle.
THEOREM FailedOrdersAreNoticed == Spec => FailedOrdersAreReissuedWhenStepped
  <1>1. ASSUME IInv, IssueEvents, ~realtime, NEW t \in ordered, seen'[t] = "idle"
        PROVE  t \in news'.idle
    <2>1. commands_ = ordered /\ ordered \subseteq OwnTags
      BY <1>1 DEF IInv, TypeOK, StepInv, IssueEvents
    <2>. QED  BY <1>1, <2>1 DEF IssueEvents, BecomesIdle, IsIdleNews
  <1>2. IInv /\ [Next]_vars =>
            [IssueEvents /\ ~realtime =>
                \A t \in ordered : seen'[t] = "idle" => t \in news'.idle]_vars
    BY <1>1
  <1>. QED  BY <1>2, Invariance, PTL DEF Spec, FailedOrdersAreReissuedWhenStepped

-----------------------------------------------------------------------------
(* The pool of the units, a state of its own next to that of Observation.   *)

\* The place after an available one is a place, it is not a null pointer, and
\* everything before or at the old one is before it.
LEMMA IncrementIndexAdvances ==
    ASSUME NEW i \in Pointer
    PROVE  /\ IncrementIndex(i) \in Pointer
           /\ Before(i, IncrementIndex(i))
           /\ \A p \in Pointer : Before(p, i) => Before(p, IncrementIndex(i))
           /\ \/ IncrementIndex(i).page = i.page /\ IncrementIndex(i).offset # 0
              \/ IncrementIndex(i).page = i.page + 1 /\ IncrementIndex(i).offset = 0
  BY EntrySizeAssumption DEF Pointer, IncrementIndex, Before

\* Every step keeps the type invariant of the pool.
LEMMA PoolTypeKept ==
    ASSUME PoolTypeOK, [PoolNext]_poolVars
    PROVE  PoolTypeOK'
<1>1. CASE ClearExisting
  BY <1>1 DEF PoolTypeOK, ClearExisting
<1>2. CASE FinishUpdate
  BY <1>2 DEF PoolTypeOK, FinishUpdate
<1>3. ASSUME NEW tag \in UnitTags, ConvertKnownUnit(tag)
      PROVE  PoolTypeOK'
  <2>1. GetUnit(tag) \in Pointer
    BY <1>3 DEF PoolTypeOK, ConvertKnownUnit, GetUnit
  <2>. QED  BY <1>3, <2>1 DEF PoolTypeOK, ConvertKnownUnit
<1>4. ASSUME NEW tag \in UnitTags, ConvertNewUnit(tag)
      PROVE  PoolTypeOK'
  <2>1. PagesAfter \in Nat
    BY DEF PoolTypeOK, PagesAfter
  <2>2. IncrementIndex(available_index) \in Pointer
    BY IncrementIndexAdvances DEF PoolTypeOK
  <2>. QED  BY <1>4, <2>1, <2>2 DEF PoolTypeOK, ConvertNewUnit
<1>5. ASSUME NEW tag \in UnitTags, MarkDead(tag)
      PROVE  PoolTypeOK'
  BY <1>5 DEF PoolTypeOK, MarkDead, Erased
<1>6. CASE UNCHANGED poolVars
  BY <1>6 DEF PoolTypeOK, poolVars
<1>. QED  BY <1>1, <1>2, <1>3, <1>4, <1>5, <1>6 DEF PoolNext

\* A step that hands out a unit puts it after all the others, in a page that
\* is there; the other steps hand out none.
LEMMA PoolInvKept ==
    ASSUME PoolTypeOK, PoolInv, [PoolNext]_poolVars
    PROVE  PoolInv'
<1>1. ASSUME UNCHANGED <<unit_pool, available_index, tag_to_unit>>
      PROVE  PoolInv'
  BY <1>1 DEF PoolInv
<1>2. ASSUME NEW tag \in UnitTags, ConvertNewUnit(tag)
      PROVE  PoolInv'
  <2>1. /\ available_index \in Pointer
        /\ available_index' = IncrementIndex(available_index)
    BY <1>2 DEF PoolTypeOK, ConvertNewUnit
  <2>2. ASSUME NEW t \in UnitTags, tag_to_unit'[t] # Nullptr
        PROVE  Before(tag_to_unit'[t], available_index')
    <3>1. CASE t = tag
      BY <1>2, <2>1, <3>1, IncrementIndexAdvances DEF PoolTypeOK, ConvertNewUnit
    <3>2. CASE t # tag
      <4>1. tag_to_unit'[t] = tag_to_unit[t] /\ tag_to_unit[t] \in Pointer
        BY <1>2, <2>2, <3>2 DEF PoolTypeOK, ConvertNewUnit
      <4>. QED  BY <2>1, <2>2, <4>1, IncrementIndexAdvances DEF PoolInv
    <3>. QED  BY <3>1, <3>2
  <2>3. unit_pool' = available_index.page + 1
    BY <1>2, <2>1 DEF PoolTypeOK, PoolInv, ConvertNewUnit, PagesAfter, Pointer
  <2>4. \/ available_index'.page = available_index.page
        \/ available_index'.page = available_index.page + 1 /\ available_index'.offset = 0
    BY <2>1, IncrementIndexAdvances
  <2>. QED  BY <2>1, <2>2, <2>3, <2>4 DEF PoolInv, Pointer
<1>. QED
  BY <1>1, <1>2 DEF PoolNext, ClearExisting, FinishUpdate, ConvertKnownUnit, MarkDead,
                    poolVars

\* A new unit gets a place that no other has, which is what the order of the
\* pool is for.
LEMMA NoAliasingKept ==
    ASSUME PoolTypeOK, PoolInv, NoAliasing, [PoolNext]_poolVars
    PROVE  NoAliasing'
<1>1. ASSUME UNCHANGED tag_to_unit
      PROVE  NoAliasing'
  BY <1>1 DEF NoAliasing
<1>2. ASSUME NEW tag \in UnitTags, ConvertNewUnit(tag)
      PROVE  NoAliasing'
  <2>1. \A t \in UnitTags : tag_to_unit[t] # available_index
    BY EntrySizeAssumption DEF PoolTypeOK, PoolInv, Before, Pointer, Nullptr
  <2>2. \A t \in UnitTags : tag_to_unit'[t] = IF t = tag THEN available_index ELSE tag_to_unit[t]
    BY <1>2 DEF PoolTypeOK, ConvertNewUnit
  <2>. QED  BY <2>1, <2>2 DEF NoAliasing
<1>. QED
  BY <1>1, <1>2 DEF PoolNext, ClearExisting, FinishUpdate, ConvertKnownUnit, MarkDead,
                    poolVars

\* What exists was converted since the last ClearExisting and was not killed
\* since: a unit that dies takes only its own place with it.
LEMMA ExistingAreAliveKept ==
    ASSUME PoolTypeOK, PoolInv, NoAliasing, ExistingAreAlive, [PoolNext]_poolVars
    PROVE  ExistingAreAlive'
<1>1. CASE ClearExisting
  BY <1>1 DEF ExistingAreAlive, ClearExisting
<1>2. CASE FinishUpdate
  BY <1>2 DEF ExistingAreAlive, FinishUpdate
<1>3. ASSUME NEW tag \in UnitTags, ConvertKnownUnit(tag)
      PROVE  ExistingAreAlive'
  BY <1>3 DEF PoolTypeOK, ExistingAreAlive, ConvertKnownUnit, GetUnit
<1>4. ASSUME NEW tag \in UnitTags, ConvertNewUnit(tag)
      PROVE  ExistingAreAlive'
  BY <1>4 DEF PoolTypeOK, ExistingAreAlive, ConvertNewUnit
<1>5. ASSUME NEW tag \in UnitTags, MarkDead(tag)
      PROVE  ExistingAreAlive'
  <2>1. tag_to_unit' = tag_to_unit /\ alive' = alive \ {tag_to_unit[tag]}
    BY <1>5 DEF MarkDead, GetUnit
  <2>2. ASSUME NEW t \in UnitTags, tag_to_existing_unit'[t] # Nullptr
        PROVE  t # tag /\ tag_to_existing_unit'[t] = tag_to_existing_unit[t]
    BY <1>5, <2>2 DEF PoolTypeOK, MarkDead, Erased
  <2>3. \A t \in UnitTags : t # tag /\ tag_to_unit[t] # Nullptr => tag_to_unit[t] # tag_to_unit[tag]
    BY DEF NoAliasing
  <2>. QED  BY <2>1, <2>2, <2>3 DEF ExistingAreAlive
<1>6. CASE UNCHANGED poolVars
  BY <1>6 DEF ExistingAreAlive, poolVars
<1>. QED  BY <1>1, <1>2, <1>3, <1>4, <1>5, <1>6 DEF PoolNext

\* The inductive invariant of the pool holds in every reachable state: units
\* are handed out in the order of their places, none shares the place of
\* another, and those that exist are alive.
THEOREM PoolInvariance == PoolSpec => []PoolIInv
<1>1. PoolInit => PoolIInv
  <2>. SUFFICES ASSUME PoolInit PROVE PoolIInv
    OBVIOUS
  <2>1. PoolTypeOK
    <3>1. available_index \in Pointer
      BY EntrySizeAssumption DEF PoolInit, Pointer
    <3>. QED  BY <3>1 DEF PoolInit, PoolTypeOK
  <2>2. PoolInv /\ NoAliasing /\ ExistingAreAlive
    BY DEF PoolInit, PoolInv, NoAliasing, ExistingAreAlive
  <2>. QED  BY <2>1, <2>2 DEF PoolIInv
<1>2. PoolIInv /\ [PoolNext]_poolVars => PoolIInv'
  BY PoolTypeKept, PoolInvKept, NoAliasingKept, ExistingAreAliveKept DEF PoolIInv
<1>. QED  BY <1>1, <1>2, PTL DEF PoolSpec

\* A bot that keeps a `const Unit*` never finds another unit there.
THEOREM UnitsDoNotShare == PoolSpec => []NoAliasing
<1>1. PoolIInv => NoAliasing
  BY DEF PoolIInv
<1>. QED  BY <1>1, PoolInvariance, PTL

\* Every unit that was handed out lies in a page that was allocated: a full
\* page never makes CreateUnit write past the end of unit_pool_.
THEOREM PagesSuffice == PoolSpec => []WithinPages
<1>1. PoolIInv => WithinPages
  <2>. SUFFICES ASSUME PoolIInv, NEW t \in UnitTags, tag_to_unit[t] # Nullptr
                PROVE  tag_to_unit[t].page < unit_pool
    BY DEF WithinPages
  <2>1. tag_to_unit[t] \in Pointer /\ available_index \in Pointer /\ unit_pool \in Nat
    BY DEF PoolIInv, PoolTypeOK
  <2>2. Before(tag_to_unit[t], available_index)
    BY DEF PoolIInv, PoolInv
  <2>. QED  BY <2>1, <2>2 DEF PoolIInv, PoolInv, Before, Pointer
<1>. QED  BY <1>1, PoolInvariance, PTL

\* The pointer to a unit survives its disappearance, its death and its return.
THEOREM PointersAreStable == PoolSpec => PointersStable
<1>1. PoolIInv /\ [PoolNext]_poolVars =>
        [\A t \in UnitTags : tag_to_unit[t] # Nullptr => tag_to_unit'[t] = tag_to_unit[t]]_poolVars
  BY DEF PoolIInv, PoolTypeOK, PoolNext, ClearExisting, FinishUpdate, ConvertKnownUnit,
         ConvertNewUnit, MarkDead, GetUnit
<1>. QED  BY <1>1, PoolInvariance, PTL DEF PoolSpec, PointersStable

\* Existing units are alive.
THEOREM ExistingUnitsAreAlive == PoolSpec => []ExistingAreAlive
<1>1. PoolIInv => ExistingAreAlive
  BY DEF PoolIInv
<1>. QED  BY <1>1, PoolInvariance, PTL
=============================================================================
