-------------------------------- MODULE NateBot --------------------------------
(***************************************************************************)
(* How a bot of this repository builds: NateBot::OnStep                    *)
(* (src/examples/common/bot_nate.cc) with the helpers of MultiplayerBot    *)
(* (src/examples/common/bot_examples.cc) that send SCVs to build.  The bot *)
(* keeps no list of what it ordered: every decision is taken from the      *)
(* observation, which shows an order only some game loops after it was     *)
(* given.  GooseBot and FervillerBot decide in the same way.               *)
(*                                                                         *)
(* Of the structures of BuildOrder one is modelled, the fusion core, whose *)
(* target is one and which the expansions wait for.  Minerals, places and  *)
(* paths are nondeterministic: any attempt to build may fail.  Upgrades,   *)
(* add-ons and the army are left out: they command no SCV.                 *)
(***************************************************************************)
EXTENDS Integers, Sequences, FiniteSets

CONSTANTS
    Workers,      \* the SCVs there may be
    StepSizes,    \* game loops from one observation to the next
    MaxLag,       \* game loops after which an observation shows an order
    BaseFood, DepotFood,   \* what a town hall and a supply depot provide, 15 and 8
    Margin,       \* the 6 of TryBuildSupplyDepot
    SlowFood,     \* its 40
    Foods,        \* the food the units may use
    MaxBuilt,     \* bound on the structures of each kind
    MaxLost       \* bound on the structures the enemy destroys

Kinds == {"supply depot", "fusion core", "refinery", "command center"}
Jobs == Kinds \cup {"mine", "idle"}

NateBotAssumption ==
    /\ StepSizes \subseteq Nat \ {0}
    /\ MaxLag \in Nat
    /\ {BaseFood, DepotFood, Margin, SlowFood} \subseteq Nat
    /\ Foods \subseteq Nat
    /\ MaxBuilt \in [Kinds -> Nat]
    /\ MaxLost \in Nat
    /\ IsFiniteSet(Workers)
    /\ "none" \notin Workers
ASSUME NateBotAssumption

VARIABLES
    loop,     \* the game loop of the observation; OnStep looks at it modulo 4 and 6
    unborn,   \* the SCVs that are not trained yet
    alive,    \* the SCVs
    job,      \* the first of unit->orders of each SCV, as observations show it
    onSite,   \* the SCVs that construct: the order stays until they are done
    built,    \* finished structures
    halted,   \* structures whose builder died: nobody resumes them
    lost,     \* structures the enemy destroyed
    used,     \* GetFoodUsed
    sent      \* requests the game has not executed, oldest first

vars == <<loop, unborn, alive, job, onSite, built, halted, lost, used, sent>>
scvs == <<unborn, alive, job, onSite>>
structures == <<built, halted, lost>>

\* What a request orders each SCV to do, if anything, and its age in game loops.
Request == [order : [Workers -> Jobs \cup {"none"}], age : Nat]

TypeOK ==
    /\ loop \in 0..11
    /\ unborn \subseteq Workers
    /\ alive \subseteq Workers \ unborn
    /\ job \in [Workers -> Jobs]
    /\ onSite \subseteq alive
    /\ built \in [Kinds -> Nat]
    /\ halted \in [Kinds -> Nat]
    /\ lost \in Nat
    /\ used \in Foods
    /\ sent \in Seq(Request)

Init ==
    /\ loop = 0
    /\ unborn \in SUBSET Workers
    /\ alive = Workers \ unborn
    /\ job = [w \in Workers |-> "mine"]
    /\ onSite = {}
    /\ built = [k \in Kinds |-> IF k = "command center" THEN 1 ELSE 0]
    /\ halted = [k \in Kinds |-> 0]
    /\ lost = 0
    /\ used \in Foods
    /\ sent = <<>>

OnSite(k) == {w \in onSite : job[w] = k}
Unfinished(k) == halted[k] + Cardinality(OnSite(k))
Count(k) == built[k] + Unfinished(k)                       \* CountUnitType

FoodCap == BaseFood * built["command center"] + DepotFood * built["supply depot"]

-----------------------------------------------------------------------------
(* The game.                                                               *)

\* It executes the oldest request.  An SCV that constructs obeys no other order.
Execute ==
    /\ sent # <<>>
    /\ job' = [w \in Workers |->
                  IF /\ Head(sent).order[w] # "none"
                     /\ w \in alive \ onSite
                  THEN Head(sent).order[w] ELSE job[w]]
    /\ sent' = Tail(sent)
    /\ UNCHANGED <<loop, unborn, alive, onSite, structures, used>>

\* The SCV arrives, and pays.
Arrive(w) ==
    /\ w \in alive \ onSite
    /\ job[w] \in Kinds
    /\ Count(job[w]) < MaxBuilt[job[w]]
    /\ onSite' = onSite \cup {w}
    /\ UNCHANGED <<loop, unborn, alive, job, structures, used, sent>>

\* It cannot build there, or not any more.
Fail(w) ==
    /\ w \in alive \ onSite
    /\ job[w] \in Kinds
    /\ job' = [job EXCEPT ![w] = "idle"]
    /\ UNCHANGED <<loop, unborn, alive, onSite, structures, used, sent>>

Finish(w) ==
    /\ w \in onSite
    /\ onSite' = onSite \ {w}
    /\ built' = [built EXCEPT ![job[w]] = @ + 1]
    /\ job' = [job EXCEPT ![w] = "idle"]
    /\ UNCHANGED <<loop, unborn, alive, halted, lost, used, sent>>

Die(w) ==
    /\ w \in alive
    /\ alive' = alive \ {w}
    /\ onSite' = onSite \ {w}
    /\ halted' = IF w \in onSite THEN [halted EXCEPT ![job[w]] = @ + 1] ELSE halted
    /\ job' = [job EXCEPT ![w] = "idle"]
    /\ UNCHANGED <<loop, unborn, built, lost, used, sent>>

Trained(w) ==
    /\ w \in unborn
    /\ unborn' = unborn \ {w}
    /\ alive' = alive \cup {w}
    /\ UNCHANGED <<loop, job, onSite, structures, used, sent>>

\* The enemy destroys a structure; the town halls stay, without one the game is lost.
Destroyed(k) ==
    /\ k # "command center"
    /\ lost < MaxLost
    /\ lost' = lost + 1
    /\ \/ built[k] > 0 /\ built' = [built EXCEPT ![k] = @ - 1] /\ UNCHANGED halted
       \/ halted[k] > 0 /\ halted' = [halted EXCEPT ![k] = @ - 1] /\ UNCHANGED built
    /\ UNCHANGED <<loop, scvs, used, sent>>

\* Units are trained, below the cap, or die.
Food ==
    /\ used' \in Foods
    /\ used' <= FoodCap \/ used' < used
    /\ UNCHANGED <<loop, scvs, structures, sent>>

Game ==
    \/ Execute
    \/ Food
    \/ \E w \in Workers : Arrive(w) \/ Fail(w) \/ Finish(w) \/ Die(w) \/ Trained(w)
    \/ \E k \in Kinds : Destroyed(k)

-----------------------------------------------------------------------------
(* The bot.  What one attempt to build does is the SCV it chooses, "none"  *)
(* if it gives no order.                                                   *)

NeverOrdered(k) == FALSE                                   \* mutant

\* Whether a worker is heading out to build it already, or builds it.
IsOrdered(k) == \E w \in alive : job[w] = k

\* TryBuildStructure: the worker is random, whatever it does.
TryBuildStructure(k) == {"none"} \cup (IF IsOrdered(k) THEN {} ELSE alive)

\* BuildOrder expands before anything else once there is a fusion core.
ExpandsFirst == Count("command center") < 3 /\ Count("fusion core") > 0

BuildOrderBase == IF ExpandsFirst THEN TryBuildStructure("command center") ELSE {"none"}

BuildOrderCore ==
    IF ~ExpandsFirst /\ Count("fusion core") < 1
    THEN TryBuildStructure("fusion core") ELSE {"none"}

\* ManageWorkers moves one worker that mines to another mine, or one that is on
\* its way to a geyser to build a refinery.
ManageWorkers == {"none"} \cup {w \in alive : job[w] \in {"mine", "refinery"}}

\* TryBuildSCV: whether it trains one, and OnStep returns.
TryBuildSCV == IF used >= FoodCap THEN {FALSE} ELSE BOOLEAN

\* The depots under construction that keep TryBuildSupplyDepot from another one.
AlwaysSlow == Unfinished("supply depot") > 0               \* mutant
DepotComes == used < SlowFood /\ Unfinished("supply depot") > 0

TryBuildSupplyDepot ==
    IF used < FoodCap - Margin \/ DepotComes THEN {"none"}
    ELSE TryBuildStructure("supply depot")

BuildRefinery ==
    IF Count("refinery") >= 2 * Count("command center")
    THEN {"none"} ELSE TryBuildStructure("refinery")

ActsAlways(l) == TRUE                                      \* mutant

\* Whether OnStep does anything at game loop l.
Acts(l) == l % (IF used >= FoodCap THEN 6 ELSE 4) = 0

\* SendActions, s game loops after the step before.
Send(order, s) ==
    LET older == [i \in DOMAIN sent |-> [sent[i] EXCEPT !.age = @ + s]]
    IN  sent' = IF \A w \in Workers : order[w] = "none" THEN older
                ELSE Append(older, [order |-> order, age |-> 0])

\* OnUnitIdle, of the SCVs of which the observation says that they became idle.
Idle == {w \in alive : job[w] = "idle"}
ToMine(idle) == [w \in Workers |-> IF w \in idle THEN "mine" ELSE "none"]

\* The commands of OnStep in their order: a later one to an SCV replaces an
\* earlier one, also one of OnUnitIdle.
Commands(idle, base, core, moved, depot, refinery, late) ==
    [w \in Workers |->
        IF w = late THEN "command center"
        ELSE IF w = refinery THEN "refinery"
        ELSE IF w = depot THEN "supply depot"
        ELSE IF w = moved THEN "mine"
        ELSE IF w = core THEN "fusion core"
        ELSE IF w = base THEN "command center"
        ELSE ToMine(idle)[w]]

Throttled(idle, s) == ~Acts(loop') /\ Send(ToMine(idle), s)

Decides(idle, s) ==
    /\ Acts(loop')
    /\ \E base \in BuildOrderBase, core \in BuildOrderCore, moved \in ManageWorkers,
          scv \in TryBuildSCV, depot \in TryBuildSupplyDepot, refinery \in BuildRefinery,
          late \in TryBuildStructure("command center") :
          /\ scv => depot = "none"
          /\ scv \/ depot # "none" => refinery = "none"
          /\ scv \/ depot # "none" \/ refinery # "none" => late = "none"
          /\ Send(Commands(idle, base, core, moved, depot, refinery, late), s)

\* The next observation, which shows what was sent MaxLag game loops before,
\* and what the bot does about it while the game waits for it.
OnStep(s) ==
    /\ \A i \in DOMAIN sent : sent[i].age + s < MaxLag
    /\ loop' = (loop + s) % 12
    /\ \E idle \in SUBSET Idle : Throttled(idle, s) \/ Decides(idle, s)
    /\ UNCHANGED <<scvs, structures, used>>

Step == \E s \in StepSizes : OnStep(s)

Next == Game \/ Step

Spec == Init /\ [][Next]_vars

OrdersDepot ==
    /\ Step
    /\ sent' # <<>>
    /\ sent'[Len(sent')].age = 0
    /\ \E w \in Workers : sent'[Len(sent')].order[w] = "supply depot"

\* The game goes on, and with it the bot: it executes the requests in time.
\* Minerals, places and the random choices of the bot are not against a supply
\* depot for ever, and what is begun is finished.
Fairness ==
    /\ WF_vars(Step \/ Execute)
    /\ SF_vars(OrdersDepot)
    /\ SF_vars(\E w \in Workers : job[w] = "supply depot" /\ Arrive(w))
    /\ SF_vars(\E w \in Workers : Finish(w))

FairSpec == Spec /\ Fairness

-----------------------------------------------------------------------------
(* Properties.                                                             *)

\* The SCVs that build a structure, are on the way, or will be when the
\* requests are executed.
Builders(k) ==
    {w \in alive : job[w] = k \/ \E i \in DOMAIN sent : sent[i].order[w] = k}

AtMostOne(S) == \A v, w \in S : v = w

\* Though an order is not seen at once, the bot never sends a second SCV to
\* build what one is sent for or builds already: the throttle of OnStep covers
\* the time until an order shows, also where it changes between 4 and 6 loops.
\* Of command centers this is not true: BuildOrder and OnStep may order one each
\* in the same call, before either order shows.
OneBuilder == \A k \in Kinds \ {"command center"} : AtMostOne(Builders(k))

\* There is never more than the one fusion core BuildOrder asks for, counting
\* the one that is ordered and the one an SCV left unfinished.
OneFusionCore ==
    /\ built["fusion core"] + halted["fusion core"] <= 1
    /\ built["fusion core"] + halted["fusion core"] = 1 => Builders("fusion core") = {}

\* When the food is used up it grows, or units died, unless no SCV is left, or
\* one died at a supply depot while the bot was small: then the bot waits for
\* that depot, which nobody finishes.
SupplyBlockEnds ==
    used >= FoodCap ~> \/ used < FoodCap
                       \/ alive = {}
                       \/ halted["supply depot"] > 0 /\ used < SlowFood
=============================================================================
