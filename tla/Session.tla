------------------------------- MODULE Session -------------------------------
(***************************************************************************)
(* One client and its game application: the requests and responses of      *)
(* sc2::ProtoInterface (src/src/sc2api/sc2_proto_interface.cc) and the     *)
(* recovery of ControlImp::WaitForResponse (src/src/sc2api/sc2_client.cc). *)
(* The Connection below is used as the ResponseBox that module Connection  *)
(* implements, plus the flag that PollResponse reads.                      *)
(*                                                                         *)
(* The game application (external) answers the requests it got in order,   *)
(* and may hang, come back, crash, or survive TerminateProcess.  Whether  *)
(* it still runs is asked of src/src/sc2utils/sc2_manage_process.cc, which *)
(* answers differently on Windows and on Linux and macOS.                  *)
(***************************************************************************)
EXTENDS ClientSession, Sequences

CONSTANTS MaxRequests,       \* bound on the requests the caller sends
          KillAttempts,      \* tries of TerminateProcess, 10 in the code
          ConnectAttempts,   \* tries of ControlImp::Connect, one per second
          AnswerStatuses,    \* statuses the game reports
          Hosts              \* where the client may run

\* The platform, "posix" for Linux and macOS, and whether the game survives
\* TerminateProcess there.
HostType == [platform : {"windows", "posix"}, survives : BOOLEAN]

ASSUME SessionAssumption ==
    /\ MaxRequests \in Nat /\ KillAttempts \in Nat /\ ConnectAttempts \in Nat
    /\ AnswerStatuses \subseteq Statuses
    /\ Hosts \subseteq HostType

VARIABLES
    host,           \* where the client runs
    session,        \* the record of module ClientSession
    pc,             \* where the client thread is
    tries,          \* iterations of the loop it is in
    before,         \* the session when WaitForResponse was called (history)
    sent,           \* requests sent so far (history)
    consumed,       \* responses received so far (history)
    unanswered,     \* types of the requests the game has on the open websocket
    box,            \* responses in queue_
    has_response,   \* has_response_
    process,        \* the game application
    tracked         \* whether it is in windows_processes

client == <<session, pc, tries, before, sent, consumed>>
app == <<host, process, tracked>>
vars == <<client, unanswered, box, has_response, app>>

ClientPcs == {"offline",      \* not connected yet
              "connecting",   \* ConnectToGame waits for the answer to its ping
              "failed",       \* ControlImp::Connect gave up
              "idle",         \* between two calls
              "waiting",      \* WaitForResponse, in WaitForResponseInternal
              "diagnosing",   \* WaitForResponse, no response: hang or crash?
              "probe",        \* WaitForResponse, the process runs: about to ping
              "probing",      \* WaitForResponse waits for the answer to its ping
              "unresponsive", \* WaitForResponse, the ping failed
              "killing",      \* WaitForResponse, in the loop of TerminateProcess
              "pinging",      \* Ping() waits for its answer
              "quitting",     \* ProtoInterface::Quit, before Disconnect
              "gone"}         \* destroyed

TypeOK ==
    /\ host \in Hosts
    /\ session \in SessionType
    /\ pc \in ClientPcs
    /\ tries \in 0..KillAttempts \/ tries \in 0..ConnectAttempts
    /\ before \in SessionType
    /\ sent \in Nat
    /\ consumed \in Nat
    /\ unanswered \in Seq(Types)
    /\ box \in Seq(ResponseType)
    /\ has_response \in BOOLEAN
    /\ process \in {"running", "hung", "dead"}
    /\ tracked \in BOOLEAN

Init ==
    /\ host \in Hosts
    /\ session = NewSession
    /\ pc = "offline"
    /\ tries = 0
    /\ before = NewSession
    /\ sent = 0
    /\ consumed = 0
    /\ unanswered = <<>>
    /\ box = <<>>
    /\ has_response = FALSE
    /\ process = "running"
    /\ tracked = TRUE

-----------------------------------------------------------------------------
(* What the calls below have in common.                                    *)

\* A websocket can be opened to a live game, which may not accept it: it is not
\* listening yet, or hangs.
Reachable == IF process = "dead" THEN {FALSE} ELSE BOOLEAN

\* Windows asks for the exit code of a process it tracks.  Elsewhere the game is
\* a child that nobody waits for: once dead it keeps its entry in /proc, and
\* kill(pid, 0) still succeeds.
IsProcessRunning == host.platform = "windows" => tracked /\ process # "dead"

\* SendRequest puts a request of type t on the websocket, after which the
\* client continues at ifSent or ifNot.
Transmit(s, t, ignore_pending, ifSent, ifNot) ==
    \E reachable \in Reachable :
        LET o == SendRequest(s, t, ignore_pending, reachable) IN
        /\ session' = o.session
        /\ pc' = IF o.sent THEN ifSent ELSE ifNot
        /\ sent' = IF o.sent THEN sent + 1 ELSE sent
        /\ unanswered' = IF o.sent /\ process # "dead" THEN Append(unanswered, t)
                         ELSE unanswered

\* PopResponse: has_response_ once rest is what is left of the queue.
FlagKept(rest) == has_response                             \* mutant
FlagAfterPop(rest) == rest # <<>>

\* Connection::Receive hands out the oldest response r.
Take(r) ==
    /\ box # <<>>
    /\ r = Head(box)
    /\ box' = Tail(box)
    /\ has_response' = FlagAfterPop(Tail(box))
    /\ consumed' = consumed + 1

\* What is still to come over the websocket once Receive timed out.
NotDisconnected == unanswered                              \* mutant
Disconnected == <<>>

\* Connection::Receive times out and disconnects.  A response that arrives
\* while it does is lost, and leaves has_response_ set.
GiveUp ==
    /\ box = <<>>
    /\ unanswered' = Disconnected
    /\ \E late \in BOOLEAN :
        /\ late => unanswered # <<>>
        /\ has_response' = (has_response \/ late)

-----------------------------------------------------------------------------
(* Connecting.                                                             *)

\* One iteration of ControlImp::Connect: ProtoInterface::ConnectToGame.
ConnectToGame ==
    /\ pc = "offline"
    /\ tries < ConnectAttempts
    /\ tries' = tries + 1
    /\ Transmit(BeginWait(session), "ping", TRUE, "connecting", "offline")
    /\ UNCHANGED <<before, consumed, box, has_response, app>>

ConnectAnswered ==
    /\ pc = "connecting"
    /\ \E r \in ResponseType :
        /\ Take(r)
        /\ session' = Receive(session, r)
    /\ pc' = "idle"
    /\ tries' = 0
    /\ UNCHANGED <<before, sent, unanswered, app>>

ConnectTimedOut ==
    /\ pc = "connecting"
    /\ GiveUp
    /\ session' = ReceiveNothing(session)
    /\ pc' = "offline"
    /\ UNCHANGED <<tries, before, sent, consumed, box, app>>

ConnectFails ==
    /\ pc = "offline"
    /\ tries = ConnectAttempts
    /\ pc' = "failed"
    /\ tries' = 0
    /\ UNCHANGED <<session, before, sent, consumed, unanswered, box,
                   has_response, app>>

-----------------------------------------------------------------------------
(* The calls of the library: SendRequest, WaitForResponse, Ping, Quit.     *)

Request(t) ==
    /\ pc = "idle"
    /\ sent < MaxRequests
    /\ t \notin {"ping", "quit"}
    /\ Transmit(session, t, FALSE, "idle", "idle")
    /\ UNCHANGED <<tries, before, consumed, box, has_response, app>>

\* WaitForResponse starts: every caller sent a request before or asked
\* HasResponsePending, and app_state_ is normal (it asserts so).
WaitForResponse ==
    /\ pc = "idle"
    /\ session.app = "normal"
    /\ HasResponsePending(session)
    /\ before' = session
    /\ session' = BeginWait(session)
    /\ pc' = "waiting"
    /\ UNCHANGED <<tries, sent, consumed, unanswered, box, has_response, app>>

ResponseArrives ==
    /\ pc = "waiting"
    /\ \E r \in ResponseType :
        /\ Take(r)
        /\ session' = Answered(session, r)
    /\ pc' = "idle"
    /\ UNCHANGED <<tries, before, sent, unanswered, app>>

ResponseTimesOut ==
    /\ pc = "waiting"
    /\ GiveUp
    /\ session' = ReceiveNothing(session)
    /\ pc' = "diagnosing"
    /\ UNCHANGED <<tries, before, sent, consumed, box, app>>

\* Step 1 of the recovery: distinguish between a hang and a crash.
LostTheSocket == ~session.connected                        \* mutant
HasCrashed == ~IsProcessRunning

Diagnose ==
    /\ pc = "diagnosing"
    /\ IF HasCrashed
       THEN session' = Crashed(session) /\ pc' = "idle"
       ELSE pc' = "probe" /\ UNCHANGED session
    /\ UNCHANGED <<tries, before, sent, consumed, unanswered, box, has_response,
                   app>>

\* Step 2: ping over a new websocket.
SendProbe ==
    /\ pc = "probe"
    /\ Transmit(session, "ping", TRUE, "probing", "unresponsive")
    /\ UNCHANGED <<tries, before, consumed, box, has_response, app>>

ProbeForgotten ==                                          \* mutant
    /\ pc = "probing"
    /\ \E r \in ResponseType :
        /\ Take(r)
        /\ session' = Receive(session, r)
    /\ pc' = "idle"
    /\ UNCHANGED <<tries, before, sent, unanswered, app>>

ProbeAnswered ==
    /\ pc = "probing"
    /\ \E r \in ResponseType :
        /\ Take(r)
        /\ session' = Recovered(session, r)
    /\ pc' = "idle"
    /\ UNCHANGED <<tries, before, sent, unanswered, app>>

ProbeTimesOut ==
    /\ pc = "probing"
    /\ GiveUp
    /\ session' = ReceiveNothing(session)
    /\ pc' = "unresponsive"
    /\ UNCHANGED <<tries, before, sent, consumed, box, app>>

MarkUnresponsive ==
    /\ pc = "unresponsive"
    /\ session' = Unresponsive(session)
    /\ pc' = "killing"
    /\ UNCHANGED <<tries, before, sent, consumed, unanswered, box, has_response,
                   app>>

\* for (int i = 0; i < 10 && IsProcessRunning(...); ++i)
TriesLeft == tries < KillAttempts

\* One iteration of the termination loop.  On Windows TerminateProcess forgets
\* the process after it waited for its end for two minutes.
Terminate ==
    /\ pc = "killing"
    /\ IsProcessRunning
    /\ TriesLeft
    /\ tries' = tries + 1
    /\ process' \in {"dead"} \cup (IF host.survives THEN {process} ELSE {})
    /\ tracked' = FALSE
    /\ UNCHANGED <<host, session, pc, before, sent, consumed, unanswered, box,
                   has_response>>

UntilDead == ~IsProcessRunning                             \* mutant
Killed == ~IsProcessRunning \/ tries = KillAttempts

TerminateEnds ==
    /\ pc = "killing"
    /\ Killed
    /\ session' = Terminated(session, IsProcessRunning)
    /\ pc' = "idle"
    /\ tries' = 0
    /\ UNCHANGED <<before, sent, consumed, unanswered, box, has_response, app>>

\* Ping() is PingGame.  It is called with no response pending: it would go out
\* all the same and then take the pending response for its own.
Ping ==
    /\ pc = "idle"
    /\ sent < MaxRequests
    /\ ~HasResponsePending(session)
    /\ Transmit(session, "ping", TRUE, "pinging", "idle")
    /\ UNCHANGED <<tries, before, consumed, box, has_response, app>>

PingAnswered ==
    /\ pc = "pinging"
    /\ \E r \in ResponseType :
        /\ Take(r)
        /\ session' = Receive(session, r)
    /\ pc' = "idle"
    /\ UNCHANGED <<tries, before, sent, unanswered, app>>

\* PingGame returns false and leaves it at that.
PingTimesOut ==
    /\ pc = "pinging"
    /\ GiveUp
    /\ session' = BeginWait(ReceiveNothing(session))
    /\ pc' = "idle"
    /\ UNCHANGED <<tries, before, sent, consumed, box, app>>

\* ~ControlImp: ProtoInterface::Quit sends a quit request like any other ...
Quit ==
    /\ pc \in {"idle", "failed"}
    /\ Transmit(session, "quit", FALSE, "quitting", "quitting")
    /\ UNCHANGED <<tries, before, consumed, box, has_response, app>>

\* ... and disconnects, whether or not it went out.
Disconnect ==
    /\ pc = "quitting"
    /\ session' = ReceiveNothing(session)
    /\ pc' = "gone"
    /\ UNCHANGED <<tries, before, sent, consumed, unanswered, box, has_response,
                   app>>

Client ==
    \/ ConnectToGame \/ ConnectAnswered \/ ConnectTimedOut \/ ConnectFails
    \/ \E t \in Types : Request(t)
    \/ WaitForResponse \/ ResponseArrives \/ ResponseTimesOut
    \/ Diagnose \/ SendProbe \/ ProbeAnswered \/ ProbeTimesOut \/ MarkUnresponsive
    \/ Terminate \/ TerminateEnds
    \/ Ping \/ PingAnswered \/ PingTimesOut
    \/ Quit \/ Disconnect

-----------------------------------------------------------------------------
(* The game application (external).                                        *)

\* The response carries the type of its request and the game's status, and may
\* have error strings, except that of a ping.
Answer ==
    /\ process = "running"
    /\ unanswered # <<>>
    /\ \E status \in AnswerStatuses, error \in BOOLEAN :
        /\ error => Head(unanswered) # "ping"
        /\ box' = Append(box, [type |-> Head(unanswered), status |-> status,
                               error |-> error])
    /\ has_response' = TRUE
    /\ unanswered' = Tail(unanswered)
    /\ UNCHANGED <<client, app>>

Hang ==
    /\ process = "running"
    /\ process' = "hung"
    /\ UNCHANGED <<host, client, unanswered, box, has_response, tracked>>

Resume ==
    /\ process = "hung"
    /\ process' = "running"
    /\ UNCHANGED <<host, client, unanswered, box, has_response, tracked>>

\* The websocket closes with the process: the civetweb thread reports it.
Crash ==
    /\ process # "dead"
    /\ process' = "dead"
    /\ unanswered' = <<>>
    /\ session' = IF session.connected THEN Error(session, "ConnectionClosed") ELSE session
    /\ UNCHANGED <<host, pc, tries, before, sent, consumed, box, has_response,
                   tracked>>

Game == Answer \/ Hang \/ Resume \/ Crash

Next == Client \/ Game

Spec == Init /\ [][Next]_vars

\* Inside a call the client thread runs on and its waits reach their deadline.
\* Nothing is assumed of the game.
Fairness ==
    /\ WF_vars(ConnectAnswered \/ ConnectTimedOut)
    /\ WF_vars(ResponseArrives \/ ResponseTimesOut)
    /\ WF_vars(Diagnose)
    /\ WF_vars(SendProbe)
    /\ WF_vars(ProbeAnswered \/ ProbeTimesOut)
    /\ WF_vars(MarkUnresponsive)
    /\ WF_vars(Terminate)
    /\ WF_vars(TerminateEnds)
    /\ WF_vars(PingAnswered \/ PingTimesOut)

FairSpec == Spec /\ Fairness

-----------------------------------------------------------------------------
(* Properties.                                                             *)

\* "Each request is matched by the correct response": through timeouts, lost
\* responses and reconnections, a response is taken for the request that is
\* pending (sc2_proto_interface.cc: "make everything purely sequential").
NoMismatch == "ResponseMismatch" \notin session.errors

\* AppState in sc2_game_settings.h: crashed and timeout ("the game application
\* was terminated") leave no process behind.  (That timeout_zombie, "could not be
\* terminated", leaves one is not so on Linux and macOS, where nobody waits for
\* the child that was killed.)
AppStateTruthful ==
    pc = "idle" /\ session.app \in {"crashed", "timeout"} => process = "dead"

\* Requests whose response will never be received.
Lost == sent - consumed - Len(unanswered) - Len(box)

\* A lost response shows in the client's errors, on which Coordinator::Update
\* stops, and a given up application as SC2AppFailure.
NoSilentLoss ==
    pc = "idle" =>
        /\ Lost > 0 => "ConnectionClosed" \in session.errors
        /\ session.app # "normal" => "SC2AppFailure" \in session.errors

\* While the application works, HasResponsePending means that a response is on
\* its way or in the queue, or that the process died.  A ping of Ping() that
\* timed out is the exception: PingGame leaves it pending.
PendingIsExpected ==
    pc = "idle" /\ session.app = "normal" /\ session.pending \notin {"none", "ping"} =>
        unanswered # <<>> \/ box # <<>> \/ process = "dead"

\* The stale has_response_ that a timeout may leave behind (see Connection) is
\* never seen by the polls of the coordinator: the ping that follows the timeout
\* puts it right, or the application is given up.
PollIsTruthful ==
    pc = "idle" /\ session.app = "normal" /\ session.pending # "ping" =>
        (has_response => box # <<>>)

InWaitForResponse == {"waiting", "diagnosing", "probe", "probing", "unresponsive",
                      "killing"}

\* WaitForResponse returns, whatever the application does.
WaitReturns == pc \in InWaitForResponse ~> pc = "idle"

\* A response to the request that was pending when WaitForResponse was called,
\* or to its ping.
ResponsesTo(t, errors) ==
    [type : {t}, status : AnswerStatuses, error : errors]

IsWaitOutcome(s) ==
    \E o \in WaitOutcomes(before, ResponsesTo(before.pending, BOOLEAN),
                          ResponsesTo("ping", {FALSE})) :
        s \in {o.session, Error(o.session, "ConnectionClosed")}

\* WaitForResponse does to the session what WaitOutcomes says, whatever happens
\* meanwhile, and Connect what ConnectOutcomes says: the summaries that modules
\* Coordinator and Replays take for the whole calls.  A crash may close the
\* websocket besides.
CallSummaries ==
    [][/\ pc' = "idle" /\ pc \in InWaitForResponse => IsWaitOutcome(session')
       /\ (pc = "connecting" /\ pc' = "idle") \/ (pc = "offline" /\ pc' = "failed") =>
              session' \in ConnectOutcomes(AnswerStatuses)]_vars
=============================================================================
