---------------------------- MODULE ClientSession ----------------------------
(***************************************************************************)
(* The part of the state of one client that sc2::ProtoInterface and        *)
(* ControlImp keep about the game application, as a record, and what their *)
(* calls make of it.  Module Session runs these calls step by step against *)
(* a game that may crash or hang; module Coordinator uses their outcomes.  *)
(***************************************************************************)
EXTENDS Integers

CONSTANT Types     \* the request types of the game protocol that are used

AppStates == {"normal", "crashed", "timeout", "timeout_zombie"}

Statuses == {"unknown", "launched", "init_game", "in_game", "in_replay",
             "ended", "quit"}

ClientErrors == {"ResponseNotConsumed", "ResponseMismatch", "ConnectionClosed",
                 "SC2UnknownStatus", "SC2AppFailure", "SC2ProtocolError",
                 "SC2ProtocolTimeout", "WrongGameVersion"}

ASSUME TypesAssumption == "ping" \in Types /\ "quit" \in Types /\ "none" \notin Types

\* app_state_, latest_status_, response_pending_ ("none" is RESPONSE_NOT_SET),
\* whether connection_ is open, and which errors client_errors_ holds:
\* ClearClientErrors, which would remove them, is called nowhere in the library.
SessionType == [app : AppStates, status : Statuses, pending : Types \cup {"none"},
                connected : BOOLEAN, errors : SUBSET ClientErrors]

\* A response: the type it has, the status it carries and whether it has error
\* strings.
ResponseType == [type : Types, status : Statuses, error : BOOLEAN]

NewSession == [app |-> "normal", status |-> "unknown", pending |-> "none",
               connected |-> FALSE, errors |-> {}]

\* ControlImp::Error.
Error(s, e) == [s EXCEPT !.errors = @ \cup {e}]

HasResponsePending(s) == s.pending # "none"

IsInGame(s) == s.app = "normal" /\ s.status \in {"in_game", "in_replay"}

IsFinishedGame(s) == s.app # "normal" \/ (~IsInGame(s) /\ ~HasResponsePending(s))

\* ProtoInterface::SendRequest has a websocket, or can open one.
CanSend(s, reachable) == s.connected \/ reachable

RefusesNothing(s, ignore_pending) == FALSE                 \* mutant

\* SendRequest refuses a request while the response of the last one is not
\* consumed, except a ping of PingGame or WaitForResponse.
Refuses(s, ignore_pending) == ~ignore_pending /\ HasResponsePending(s)

\* ProtoInterface::SendRequest: whether the request of type t went out, and
\* what is left of the session s; reachable says whether the game accepts a
\* new websocket.
SendRequest(s, t, ignore_pending, reachable) ==
    LET open == [s EXCEPT !.connected = TRUE] IN
    CASE ~CanSend(s, reachable) -> [sent |-> FALSE, session |-> s]
      [] CanSend(s, reachable) /\ Refuses(s, ignore_pending) ->
             [sent |-> FALSE, session |-> Error(open, "ResponseNotConsumed")]
      [] OTHER -> [sent |-> TRUE, session |-> [open EXCEPT !.pending = t]]

\* ProtoInterface::WaitForResponseInternal, up to its Receive.
BeginWait(s) == [s EXCEPT !.status = "unknown"]

\* WaitForResponseInternal got the response r.
Settled(s, r) == IF r.error THEN s.pending ELSE "none"      \* mutant
NoLongerPending(s, r) == "none"

Receive(s, r) ==
    LET taken == [s EXCEPT !.status = r.status, !.pending = NoLongerPending(s, r)] IN
    IF ~r.error /\ r.type # s.pending THEN Error(taken, "ResponseMismatch") ELSE taken

\* Its Receive timed out: the websocket is closed, and the thread that read it
\* reports so on its way out.
ReceiveNothing(s) == Error([s EXCEPT !.connected = FALSE], "ConnectionClosed")

\* ControlImp::WaitForResponse got the response r.
Answered(s, r) ==
    IF r.error THEN Error(Receive(s, r), "SC2ProtocolError") ELSE Receive(s, r)

\* WaitForResponse: the process is gone.
CrashedSilently(s) == [s EXCEPT !.app = "crashed"]         \* mutant
Crashed(s) == Error([s EXCEPT !.app = "crashed"], "SC2AppFailure")

\* WaitForResponse: the ping after the timeout was answered by r.
Recovered(s, r) == Error(Receive(s, r), "SC2UnknownStatus")

\* WaitForResponse: the ping after the timeout could not be sent or was not
\* answered.
Unresponsive(s) == Error([s EXCEPT !.app = "timeout"], "SC2ProtocolTimeout")

\* WaitForResponse: the process was told to terminate, often enough.
NeverZombie(s, still_running) ==                           \* mutant
    Error([s EXCEPT !.app = "timeout"], "SC2AppFailure")
Terminated(s, still_running) ==
    Error([s EXCEPT !.app = IF still_running THEN "timeout_zombie" ELSE "timeout"],
          "SC2AppFailure")

\* ControlImp::Connect in one step, of a new session to a game that answers its
\* ping with a status of statuses: an earlier try may have timed out, and so
\* may all of them.
ConnectOutcomes(statuses) ==
    LET connected(e) == {[NewSession EXCEPT !.status = t, !.connected = TRUE, !.errors = e] :
                             t \in statuses}
    IN  connected({}) \cup connected({"ConnectionClosed"})
        \cup {NewSession, [NewSession EXCEPT !.pending = "ping", !.errors = {"ConnectionClosed"}]}

\* ControlImp::WaitForResponse in one step: the session it may leave behind
\* when the game may answer with a response of responses, or a ping with one of
\* pongs.  got is whether the caller has a response.
WaitOutcomes(s, responses, pongs) ==
    LET waiting == BeginWait(s)
        nothing == ReceiveNothing(waiting)
        pinging == SendRequest(nothing, "ping", TRUE, TRUE).session
        unanswered == ReceiveNothing(BeginWait(pinging))
        givenUp(zombie) == {[got |-> FALSE, session |-> Terminated(Unresponsive(u), zombie)] :
                                u \in {nothing, unanswered}}
    IN  {[got |-> TRUE, session |-> Answered(waiting, r)] : r \in responses}
        \cup {[got |-> FALSE, session |-> Crashed(nothing)]}
        \cup {[got |-> FALSE, session |-> Recovered(BeginWait(pinging), r)] : r \in pongs}
        \cup givenUp(TRUE) \cup givenUp(FALSE)
=============================================================================
