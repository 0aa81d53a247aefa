----------------------------- MODULE EventStream -----------------------------
(***************************************************************************)
(* What the callbacks of sc2::ClientEvents let a bot rely on, stated over  *)
(* what it looks at itself: each time OnStep is called, the callbacks      *)
(* before it are the differences between the units and upgrades it can     *)
(* look at and those at the last OnStep.  How observations and events      *)
(* bring that about is in module Observation.                              *)
(*                                                                         *)
(* It is what IssueEvents of src/src/sc2api/sc2_client.cc does, not all of *)
(* what the comments of src/include/sc2api/sc2_client.h say.  Where the    *)
(* two differ, a bot may not rely on either side: an enemy's unit that     *)
(* leaves the fog of war may be reported or not, a unit whose order failed *)
(* may be reported idle again or not.                                      *)
(***************************************************************************)
CONSTANTS OwnTags,      \* the units of the player
          EnemyTags,    \* the units of the enemy
          Upgrades

VARIABLES seen,       \* what Observation() showed of each unit at the last OnStep
          learned,    \* and which upgrades
          ordered,    \* units that got an order since
          news        \* the callbacks before the last OnStep

streamVars == <<seen, learned, ordered, news>>

Tags == OwnTags \cup EnemyTags

\* An own unit is under construction (build_progress < 1), or has orders or not.
OwnViews == {"building", "idle", "busy"}

\* The display type of an enemy's unit.
EnemyViews == {"visible", "snapshot", "hidden"}

\* Not among the existing units.
Views == OwnViews \cup EnemyViews \cup {"none"}

News == [destroyed : SUBSET Tags, entered : SUBSET EnemyTags,
         created : SUBSET OwnTags, idle : SUBSET OwnTags,
         completed : SUBSET OwnTags, upgraded : SUBSET Upgrades]

NoNews == [destroyed |-> {}, entered |-> {}, created |-> {}, idle |-> {},
           completed |-> {}, upgraded |-> {}]

StreamInit ==
    /\ seen = [t \in Tags |-> "none"]
    /\ learned = {}
    /\ ordered = {}
    /\ news = NoNews

\* The own units that are complete and have no orders, and had some, or were
\* not complete, or not there.
BecameIdle == {t \in OwnTags : seen'[t] = "idle" /\ seen[t] # "idle"}

\* An order that failed leaves a unit idle.
StillIdle == {t \in OwnTags : seen'[t] = "idle" /\ t \in ordered}

\* The enemy's units that came into sight of nothing the bot knew of, ...
Appeared == {t \in EnemyTags : seen[t] = "none" /\ seen'[t] = "visible"}

\* ... and those too that were a snapshot in the fog of war, or hidden.
BecameVisible == {t \in EnemyTags : seen[t] # "visible" /\ seen'[t] = "visible"}

\* One OnStep and the callbacks before it.  A unit that is back from where the
\* bot could not see it, as from a transport, counts as created; units of the
\* enemy are destroyed too.
Deliver ==
    /\ news'.created = {t \in OwnTags : seen[t] = "none" /\ seen'[t] # "none"}
    /\ Appeared \subseteq news'.entered
    /\ news'.entered \subseteq BecameVisible
    /\ news'.completed = {t \in OwnTags : seen[t] = "building" /\ seen'[t] \in {"idle", "busy"}}
    /\ BecameIdle \subseteq news'.idle
    /\ news'.idle \subseteq BecameIdle \cup StillIdle
    /\ \A t \in news'.destroyed : seen'[t] = "none"
    /\ news'.upgraded = learned' \ learned
    /\ ordered' = {}

\* The bot's orders are sent.
Order ==
    /\ ordered \subseteq ordered'
    /\ UNCHANGED <<seen, learned, news>>

StreamNext == Deliver \/ Order

StreamSpec == StreamInit /\ [][StreamNext]_streamVars
=============================================================================
