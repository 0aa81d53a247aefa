---------------------------- MODULE MCCoordinator ----------------------------
(***************************************************************************)
(* The settings for the model checking of module Coordinator.              *)
(***************************************************************************)
EXTENDS Coordinator

\* Two agents in threads; the program leaves games and keeps calling Update.
Threaded ==
    [agents |-> 2, multi_threaded |-> TRUE, realtime |-> FALSE,
     failures |-> FALSE, leaves |-> TRUE, waits |-> TRUE, keeps_updating |-> TRUE, games |-> 2]

\* One agent, whose three games the program plays one after the other.
Solo ==
    [agents |-> 1, multi_threaded |-> FALSE, realtime |-> FALSE,
     failures |-> FALSE, leaves |-> FALSE, waits |-> FALSE, keeps_updating |-> FALSE, games |-> 3]

\* Two agents whose callbacks run on the program's thread.  The second game is refused
\* when nobody left the first.
Sequential2 ==
    [agents |-> 2, multi_threaded |-> FALSE, realtime |-> FALSE,
     failures |-> FALSE, leaves |-> TRUE, waits |-> TRUE, keeps_updating |-> FALSE, games |-> 2]

\* Two agents in a realtime game, stepped one after the other.  It is one game:
\* JoinGame would hang in a second one if the end of the first went unnoticed.
Realtime2 ==
    [agents |-> 2, multi_threaded |-> FALSE, realtime |-> TRUE,
     failures |-> FALSE, leaves |-> TRUE, waits |-> TRUE, keeps_updating |-> FALSE, games |-> 1]

\* Two agents in a realtime game, in threads.
RealtimeThreaded ==
    [agents |-> 2, multi_threaded |-> TRUE, realtime |-> TRUE,
     failures |-> FALSE, leaves |-> TRUE, waits |-> TRUE, keeps_updating |-> FALSE, games |-> 1]

\* Two agents in threads, whose games may fail at any time.
Failing ==
    [agents |-> 2, multi_threaded |-> TRUE, realtime |-> FALSE,
     failures |-> TRUE, leaves |-> TRUE, waits |-> TRUE, keeps_updating |-> FALSE, games |-> 2]

MCSettings == {Threaded, Solo, Sequential2, Realtime2, RealtimeThreaded, Failing}

\* The settings of the run of EndIsReported.
UnreportedSettings == {Sequential2}
=============================================================================
