------------------------------- MODULE MCNateBot -------------------------------
\* Small numbers in the place of the food of the game: a base feeds 2, a depot 1.
EXTENDS NateBot

MCMaxBuilt == [k \in Kinds |-> IF k = "command center" THEN 2 ELSE 1]
SupplyMaxBuilt ==
    [k \in Kinds |-> CASE k = "supply depot" -> 2 [] k = "refinery" -> 0 [] OTHER -> 1]
==============================================================================
