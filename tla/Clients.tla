------------------------------- MODULE Clients -------------------------------
(***************************************************************************)
(* The clients of a coordinator: the session of each (ControlImp and       *)
(* ProtoInterface, module ClientSession), the state of its game            *)
(* application (external), and what a request and a wait do to both.       *)
(* Modules Coordinator and Replays are about what is asked in which order. *)
(***************************************************************************)
EXTENDS ClientSession

VARIABLES
    ses,        \* the ControlImp and ProtoInterface of each client
    inst,       \* the state of each game application
    asked,      \* the request it has not answered
    ready       \* its response, in queue_

game == <<inst, asked, ready>>

NoResponse == [type |-> "none", status |-> "unknown", error |-> FALSE]

\* A zombie survived TerminateProcess: it accepts websockets, and no more.
Lost == {"dead", "zombie"}

\* SendRequest of type t from the session s of client a.
Outcome(a, s, t) == SendRequest(s, t, FALSE, inst[a] # "dead")

\* s is what the calls before it left of ses[a].
Request(a, s, t) ==
    LET o == Outcome(a, s, t) IN
    /\ ses' = [ses EXCEPT ![a] = o.session]
    /\ asked' = IF o.sent THEN [asked EXCEPT ![a] = t] ELSE asked
    /\ UNCHANGED <<inst, ready>>

\* The response of client a is in queue_ (PollIsTruthful of module Session).
PollResponse(a) == ready[a] # NoResponse

\* ControlImp::WaitForResponse returns the response.
ResponseComes(a) ==
    /\ PollResponse(a)
    /\ ses' = [ses EXCEPT ![a] = Answered(BeginWait(@), ready[a])]
    /\ ready' = [ready EXCEPT ![a] = NoResponse]
    /\ UNCHANGED <<inst, asked>>

\* What the game may answer to the ping of WaitForResponse; late holds the states
\* the unanswered request may have brought it to after all.
Pongs(a, late) ==
    {[type |-> "ping", status |-> s, error |-> FALSE] : s \in ({inst[a]} \cup late) \ Lost}

\* What is left of the game when the wait left the session s: a timeout does not
\* tell whether the process is still there (AppStateTruthful of
\* module Session).
GameAfter(s) ==
    CASE s.app = "normal" -> {s.status} [] s.app = "crashed" -> {"dead"} [] OTHER -> Lost

\* WaitForResponse returns nullptr: the game crashed, was terminated, or
\* answers nothing but the ping.
NoResponseComes(a, late) ==
    /\ ~PollResponse(a)
    /\ \E o \in WaitOutcomes(ses[a], {}, Pongs(a, late)) :
        /\ ses' = [ses EXCEPT ![a] = o.session]
        /\ \E after \in GameAfter(o.session) : inst' = [inst EXCEPT ![a] = after]
    /\ asked' = [asked EXCEPT ![a] = "none"]
    /\ UNCHANGED ready
=============================================================================
