------------------------------ MODULE MCReplays ------------------------------
(***************************************************************************)
(* The settings for the model checking of module Replays.  Version "v3" is *)
(* not installed.                                                          *)
(***************************************************************************)
EXTENDS Replays

File1 == [short |-> FALSE, version |-> "v1"]
File2 == [short |-> FALSE, version |-> "v2"]
File3 == [short |-> FALSE, version |-> "v3"]
Short == [short |-> TRUE, version |-> "v2"]

\* Two observers in threads that compete for replays of several versions.
Threaded ==
    [observers |-> 2, multi_threaded |-> TRUE, realtime |-> FALSE, recovery |-> TRUE,
     failures |-> FALSE, asks |-> {"query"},
     files |-> <<File1, Short, File2, File3>>, version |-> "v1"]

\* One observer whose callbacks run on the program's thread.
Solo ==
    [observers |-> 1, multi_threaded |-> FALSE, realtime |-> FALSE, recovery |-> TRUE,
     failures |-> FALSE, asks |-> {},
     files |-> <<File3, File1, Short, File2>>, version |-> "v1"]

\* Realtime replays in threads, and on the program's thread without recovery.
RealtimeThreaded ==
    [observers |-> 2, multi_threaded |-> TRUE, realtime |-> TRUE, recovery |-> TRUE,
     failures |-> FALSE, asks |-> {"query"},
     files |-> <<File2, Short, File1>>, version |-> "v1"]

RealtimeSequential ==
    [observers |-> 2, multi_threaded |-> FALSE, realtime |-> TRUE, recovery |-> FALSE,
     failures |-> FALSE, asks |-> {"query"},
     files |-> <<File1, File1>>, version |-> "v1"]

\* Two observers whose callbacks run on the program's thread.
Sequential ==
    [observers |-> 2, multi_threaded |-> FALSE, realtime |-> FALSE, recovery |-> TRUE,
     failures |-> FALSE, asks |-> {"query", "obs_action"},
     files |-> <<File1, File1, File1>>, version |-> "v1"]

\* A game that may fail at any time, and two of them.
FailingSolo ==
    [observers |-> 1, multi_threaded |-> TRUE, realtime |-> FALSE, recovery |-> TRUE,
     failures |-> TRUE, asks |-> {"query", "obs_action"},
     files |-> <<File2, File1>>, version |-> "v1"]

Failing ==
    [observers |-> 2, multi_threaded |-> TRUE, realtime |-> FALSE, recovery |-> FALSE,
     failures |-> TRUE, asks |-> {"query"},
     files |-> <<File1, File1>>, version |-> "v1"]

MCSettings == {Threaded, Solo, RealtimeThreaded, RealtimeSequential, Sequential,
               FailingSolo, Failing}

\* The settings of the run of OthersAreStarted.
LostSettings == {[Threaded EXCEPT !.asks = {"obs_action"}]}
=============================================================================
