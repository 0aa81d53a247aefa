------------------------------- MODULE UnitPool -------------------------------
(***************************************************************************)
(* sc2::UnitPool (src/src/sc2api/sc2_unit.cc): the units a client has ever *)
(* seen, in pages that never move, so that a bot may keep a `const Unit*`  *)
(* for as long as it likes; and the calls that ObservationImp and          *)
(* ControlImp make of it (src/src/sc2api/sc2_client.cc): an observation    *)
(* forgets which units exist and converts those it shows, and the events   *)
(* that follow mark the dead ones.  The pool is never emptied, and lives   *)
(* as long as the client, over several games.                              *)
(***************************************************************************)
EXTENDS Integers

CONSTANTS UnitTags,        \* the tags of units, in the order of their arrival or not
          EntrySize    \* ENTRY_SIZE, units in a page

ASSUME EntrySizeAssumption == EntrySize \in Nat \ {0}

VARIABLES
    unit_pool,               \* the number of pages of unit_pool_
    available_index,         \* available_index_: the next unit to hand out
    tag_to_unit,             \* tag_to_unit_
    tag_to_existing_unit,    \* tag_to_existing_unit_
    alive,                   \* the units whose is_alive is true
    updating                 \* inside UpdateObservation, after ClearExisting

poolVars == <<unit_pool, available_index, tag_to_unit, tag_to_existing_unit, alive,
              updating>>

\* A Unit* is the place of the unit in the pool.
Pointer == [page : Nat, offset : 0..(EntrySize - 1)]

\* What a lookup of an unknown tag returns.
Nullptr == [page |-> 0, offset |-> EntrySize]

PoolTypeOK ==
    /\ unit_pool \in Nat
    /\ available_index \in Pointer
    /\ tag_to_unit \in [UnitTags -> Pointer \cup {Nullptr}]
    /\ tag_to_existing_unit \in [UnitTags -> Pointer \cup {Nullptr}]
    /\ alive \in SUBSET Pointer
    /\ updating \in BOOLEAN

PoolInit ==
    /\ unit_pool = 0
    /\ available_index = [page |-> 0, offset |-> 0]
    /\ tag_to_unit = [t \in UnitTags |-> Nullptr]
    /\ tag_to_existing_unit = [t \in UnitTags |-> Nullptr]
    /\ alive = {}
    /\ updating = FALSE

-----------------------------------------------------------------------------

\* CreateUnit knows the tag already.
GetExistingUnit(tag) == tag_to_existing_unit[tag]          \* mutant
GetUnit(tag) == tag_to_unit[tag]

\* The pages there are once a unit was handed out.
PagesAfter ==
    IF unit_pool = 0 \/ unit_pool = available_index.page THEN unit_pool + 1
    ELSE unit_pool

\* IncrementIndex.
SamePage(i) == [page |-> i.page, offset |-> (i.offset + 1) % EntrySize]   \* mutant
IncrementIndex(i) ==
    IF i.offset + 1 = EntrySize THEN [page |-> i.page + 1, offset |-> 0]
    ELSE [page |-> i.page, offset |-> i.offset + 1]

\* Convert: CreateUnit of a unit the observation shows, which is then alive.
ConvertKnownUnit(tag) ==
    /\ updating
    /\ GetUnit(tag) # Nullptr
    /\ tag_to_existing_unit' = [tag_to_existing_unit EXCEPT ![tag] = GetUnit(tag)]
    /\ alive' = alive \cup {GetUnit(tag)}
    /\ UNCHANGED <<unit_pool, available_index, tag_to_unit, updating>>

ConvertNewUnit(tag) ==
    /\ updating
    /\ GetUnit(tag) = Nullptr
    /\ unit_pool' = PagesAfter
    /\ tag_to_unit' = [tag_to_unit EXCEPT ![tag] = available_index]
    /\ tag_to_existing_unit' = [tag_to_existing_unit EXCEPT ![tag] = available_index]
    /\ alive' = alive \cup {available_index}
    /\ available_index' = IncrementIndex(available_index)
    /\ UNCHANGED updating

\* UpdateObservation: ClearExisting, ...
ClearExisting ==
    /\ ~updating
    /\ updating' = TRUE
    /\ tag_to_existing_unit' = [t \in UnitTags |-> Nullptr]
    /\ UNCHANGED <<unit_pool, available_index, tag_to_unit, alive>>

\* ... the conversions, and the rest of it.
FinishUpdate ==
    /\ updating
    /\ updating' = FALSE
    /\ UNCHANGED <<unit_pool, available_index, tag_to_unit, tag_to_existing_unit, alive>>

\* MarkDead erases the unit.
StillExisting(tag) == tag_to_existing_unit                 \* mutant
Erased(tag) == [tag_to_existing_unit EXCEPT ![tag] = Nullptr]

\* IssueUnitDestroyedEvents: a tag of dead_units that was never seen is skipped.
MarkDead(tag) ==
    /\ ~updating
    /\ GetUnit(tag) # Nullptr
    /\ alive' = alive \ {GetUnit(tag)}
    /\ tag_to_existing_unit' = Erased(tag)
    /\ UNCHANGED <<unit_pool, available_index, tag_to_unit, updating>>

PoolNext ==
    \/ ClearExisting
    \/ FinishUpdate
    \/ \E tag \in UnitTags : ConvertKnownUnit(tag) \/ ConvertNewUnit(tag) \/ MarkDead(tag)

PoolSpec == PoolInit /\ [][PoolNext]_poolVars

-----------------------------------------------------------------------------
(* Properties.                                                             *)

\* Two units never share their place: what a bot reads through a `const Unit*`
\* it kept is the unit it got.
NoAliasing ==
    \A s, t \in UnitTags :
        s # t /\ tag_to_unit[s] # Nullptr => tag_to_unit[s] # tag_to_unit[t]

\* A place that was handed out lies in a page that was allocated: the unit that
\* fills a page moves available_index_ past the pages, and the CreateUnit after
\* it, in this observation or in a later one, adds the page it takes.
WithinPages == \A t \in UnitTags : tag_to_unit[t] # Nullptr => tag_to_unit[t].page < unit_pool

\* The pointer to a unit stays the same when the unit disappears from the
\* observations and comes back.
PointersStable ==
    [][\A t \in UnitTags : tag_to_unit[t] # Nullptr => tag_to_unit'[t] = tag_to_unit[t]]_poolVars

\* GetUnits and GetUnit(tag) of ObservationInterface, which return existing
\* units, never return one that is dead.
ExistingAreAlive ==
    \A t \in UnitTags : tag_to_existing_unit[t] # Nullptr =>
        tag_to_existing_unit[t] = tag_to_unit[t] /\ tag_to_existing_unit[t] \in alive

-----------------------------------------------------------------------------
(* The inductive invariant.                                                *)

Before(p, q) == p.page < q.page \/ (p.page = q.page /\ p.offset < q.offset)

\* Units are handed out in the order of their places, and there is a page for
\* the next one or it is the first of the page to come.
PoolInv ==
    /\ \A t \in UnitTags : tag_to_unit[t] # Nullptr => Before(tag_to_unit[t], available_index)
    /\ \/ unit_pool = available_index.page + 1
       \/ (unit_pool = available_index.page /\ available_index.offset = 0)

PoolIInv == PoolTypeOK /\ PoolInv /\ NoAliasing /\ ExistingAreAlive
=============================================================================
