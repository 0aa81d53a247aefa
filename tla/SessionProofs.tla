----------------------------- MODULE SessionProofs -----------------------------
(***************************************************************************)
(* The session of a client, for any request types, bounds and hosts: what  *)
(* the recovery of WaitForResponse leaves behind, and that the summaries   *)
(* of whole calls are right.                                               *)
(***************************************************************************)
EXTENDS Session, TLAPS

Nothing == unanswered = <<>> /\ box = <<>>

\* What the game may answer to a request of type t.
Fits(r, t) ==
    /\ r \in ResponseType
    /\ r.type = t /\ r.status \in AnswerStatuses
    /\ t = "ping" => ~r.error

\* Everything is sequential: one request is out at most, or its response in the
\* queue, and it is the one that is pending.
Sequential ==
    \/ Nothing
    \/ unanswered = <<session.pending>> /\ box = <<>>
    \/ unanswered = <<>> /\ \E r \in ResponseType : Fits(r, session.pending) /\ box = <<r>>

\* None is left where a wait timed out.
Quiet ==
    pc \in {"offline", "failed", "diagnosing", "probe", "unresponsive", "killing"} => Nothing

\* Every way to lose a response leaves an error, whatever is open.
LossIsSeen ==
    /\ Lost > 0 => "ConnectionClosed" \in session.errors
    /\ (process = "dead" /\ session.connected) \/ (unanswered # <<>> /\ ~session.connected)
           => "ConnectionClosed" \in session.errors
    /\ session.app # "normal" /\ pc # "killing" => "SC2AppFailure" \in session.errors

\* Between calls and when a wait begins.
Settling == pc \in {"idle", "waiting"} /\ session.app = "normal"
Expected ==
    /\ Settling /\ session.pending \notin {"none", "ping"} => ~Nothing \/ process = "dead"
    /\ Settling /\ session.pending # "ping" /\ has_response => box # <<>>
    /\ pc \in {"connecting", "probing", "pinging"} => session.pending = "ping"

Tried ==
    /\ pc = "killing" => tries \in 0..KillAttempts
    /\ pc \in {"offline", "connecting"} => tries \in 0..ConnectAttempts
    /\ pc \notin {"killing", "offline", "connecting"} => tries = 0

\* TerminateProcess of Windows does terminate the process.
Terminates(h) == h.platform = "windows" => ~h.survives
Truthful ==
    Terminates(host) =>
        /\ host.platform = "windows" /\ ~tracked => process = "dead"
        /\ pc # "killing" /\ session.app \in {"crashed", "timeout"} => process = "dead"

\* What the calls made of the session so far.
Waiting == BeginWait(before)
TimedOut == ReceiveNothing(Waiting)
Pinging == SendRequest(TimedOut, "ping", TRUE, TRUE).session
Unanswered == ReceiveNothing(BeginWait(Pinging))
Trying(e) == [NewSession EXCEPT !.pending = "ping", !.connected = TRUE, !.errors = e]
Refused == [NewSession EXCEPT !.pending = "ping", !.errors = {"ConnectionClosed"}]
InCall ==
    /\ pc = "offline" => session \in {NewSession, Refused}
    /\ pc = "connecting" => \E e \in {{}, {"ConnectionClosed"}} : session = Trying(e)
    /\ pc \in InWaitForResponse => before.app = "normal"
    /\ pc = "waiting" => session \in {Waiting, Error(Waiting, "ConnectionClosed")}
    /\ pc \in {"diagnosing", "probe"} => session = TimedOut
    /\ pc = "probing" => session = Pinging
    /\ pc = "unresponsive" => session \in {TimedOut, Unanswered}
    /\ pc = "killing" => session \in {Unresponsive(TimedOut), Unresponsive(Unanswered)}

IInv == /\ TypeOK /\ Sequential /\ Quiet /\ NoMismatch /\ LossIsSeen /\ Expected
        /\ Tried /\ Truthful /\ InCall

-----------------------------------------------------------------------------
(* What the calls of ClientSession do to the fields of a session.          *)

\* Two sessions with the same fields are the same.
LEMMA SameSession ==
    ASSUME NEW s \in SessionType, NEW t \in SessionType,
           s.app = t.app, s.status = t.status, s.pending = t.pending,
           s.connected <=> t.connected, s.errors = t.errors
    PROVE  s = t
BY DEF SessionType

LEMMA NewSessionFacts ==
    /\ NewSession \in SessionType
    /\ NewSession.app = "normal" /\ NewSession.status = "unknown"
    /\ NewSession.pending = "none" /\ ~NewSession.connected /\ NewSession.errors = {}
BY DEF NewSession, SessionType, AppStates, Statuses, ClientErrors

LEMMA ErrorFacts ==
    ASSUME NEW s \in SessionType, NEW e \in ClientErrors
    PROVE  /\ Error(s, e) \in SessionType
           /\ Error(s, e).app = s.app /\ Error(s, e).status = s.status
           /\ Error(s, e).pending = s.pending /\ (Error(s, e).connected <=> s.connected)
           /\ Error(s, e).errors = s.errors \cup {e}
BY DEF Error, SessionType

LEMMA ErrorTwice ==
    ASSUME NEW s \in SessionType, NEW e \in s.errors
    PROVE  Error(s, e) = s
<1>1. e \in ClientErrors /\ s.errors \cup {e} = s.errors
  BY DEF SessionType
<1> DEFINE t == Error(s, e)
<1>2. /\ t \in SessionType
      /\ t.app = s.app /\ t.status = s.status /\ t.pending = s.pending
      /\ (t.connected <=> s.connected) /\ t.errors = s.errors
  BY <1>1, ErrorFacts
<1> HIDE DEF t
<1>3. t = s
  BY <1>2, SameSession
<1> QED
  BY <1>3 DEF t

LEMMA BeginWaitFacts ==
    ASSUME NEW s \in SessionType
    PROVE  /\ BeginWait(s) \in SessionType
           /\ BeginWait(s).app = s.app /\ BeginWait(s).status = "unknown"
           /\ BeginWait(s).pending = s.pending /\ (BeginWait(s).connected <=> s.connected)
           /\ BeginWait(s).errors = s.errors
<1> DEFINE t == [s EXCEPT !.status = "unknown"]
<1>1. "unknown" \in Statuses
  BY DEF Statuses
<1>2. /\ t \in SessionType
      /\ t.app = s.app /\ t.status = "unknown" /\ t.pending = s.pending
      /\ (t.connected <=> s.connected) /\ t.errors = s.errors
  BY <1>1 DEF SessionType
<1>3. BeginWait(s) = t
  BY DEF BeginWait
<1> HIDE DEF t
<1> QED
  BY <1>2, <1>3

LEMMA ReceiveNothingFacts ==
    ASSUME NEW s \in SessionType
    PROVE  /\ ReceiveNothing(s) \in SessionType
           /\ ReceiveNothing(s).app = s.app /\ ReceiveNothing(s).status = s.status
           /\ ReceiveNothing(s).pending = s.pending /\ ~ReceiveNothing(s).connected
           /\ ReceiveNothing(s).errors = s.errors \cup {"ConnectionClosed"}
<1> DEFINE t == [s EXCEPT !.connected = FALSE]
<1>1. /\ t \in SessionType /\ ~t.connected
      /\ t.app = s.app /\ t.status = s.status /\ t.pending = s.pending /\ t.errors = s.errors
  BY DEF SessionType
<1>2. "ConnectionClosed" \in ClientErrors /\ ReceiveNothing(s) = Error(t, "ConnectionClosed")
  BY DEF ClientErrors, ReceiveNothing
<1> HIDE DEF t
<1> QED
  BY <1>1, <1>2, ErrorFacts

\* What SendRequest makes of a session, as a relation: o is its outcome.
IsSent(s, t, ignore, reachable, o) ==
    /\ o.sent \in BOOLEAN /\ o.session \in SessionType
    /\ (o.sent <=> (s.connected \/ reachable) /\ (ignore \/ s.pending = "none"))
    /\ o.session.app = s.app /\ o.session.status = s.status
    /\ s.errors \subseteq o.session.errors
    /\ o.session.errors \subseteq s.errors \cup {"ResponseNotConsumed"}
    /\ o.sent => o.session.pending = t /\ o.session.connected
                 /\ o.session.errors = s.errors
    /\ ~o.sent => o.session.pending = s.pending
    /\ (o.session.connected <=> (s.connected \/ reachable))
    /\ ~s.connected /\ ~reachable => o.session = s

LEMMA SendFacts ==
    ASSUME NEW s \in SessionType, NEW t \in Types, NEW ignore \in BOOLEAN,
           NEW reachable \in BOOLEAN
    PROVE  IsSent(s, t, ignore, reachable, SendRequest(s, t, ignore, reachable))
<1> DEFINE o == SendRequest(s, t, ignore, reachable)
<1> SUFFICES IsSent(s, t, ignore, reachable, o)
  OBVIOUS
<1> USE DEF IsSent
<1> DEFINE open == [s EXCEPT !.connected = TRUE]
           asks == [open EXCEPT !.pending = t]
<1>1. /\ open \in SessionType /\ open.connected
      /\ open.app = s.app /\ open.status = s.status /\ open.pending = s.pending
      /\ open.errors = s.errors
  BY DEF SessionType
<1>2. /\ asks \in SessionType /\ asks.connected
      /\ asks.app = s.app /\ asks.status = s.status /\ asks.pending = t
      /\ asks.errors = s.errors
  BY DEF SessionType
<1>3. "ResponseNotConsumed" \in ClientErrors
  BY DEF ClientErrors
<1>4. CASE ~CanSend(s, reachable)
  BY <1>4 DEF SendRequest, CanSend
<1>5. CASE CanSend(s, reachable) /\ Refuses(s, ignore)
  <2>1. o = [sent |-> FALSE, session |-> Error(open, "ResponseNotConsumed")]
    BY <1>5 DEF SendRequest
  <2> HIDE DEF open
  <2> QED
    BY <1>1, <1>3, <1>5, <2>1, ErrorFacts DEF CanSend, Refuses, HasResponsePending
<1>6. CASE CanSend(s, reachable) /\ ~Refuses(s, ignore)
  <2>1. o = [sent |-> TRUE, session |-> asks]
    BY <1>6 DEF SendRequest
  <2> HIDE DEF open, asks
  <2> QED
    BY <1>2, <1>6, <2>1 DEF CanSend, Refuses, HasResponsePending
<1> QED
  BY <1>4, <1>5, <1>6

LEMMA ReceiveFacts ==
    ASSUME NEW s \in SessionType, NEW r \in ResponseType, r.type = s.pending
    PROVE  /\ Receive(s, r) \in SessionType
           /\ Receive(s, r).app = s.app /\ Receive(s, r).status = r.status
           /\ Receive(s, r).pending = "none" /\ (Receive(s, r).connected <=> s.connected)
           /\ Receive(s, r).errors = s.errors
<1> DEFINE known == [s EXCEPT !.status = r.status]
           taken == [known EXCEPT !.pending = "none"]
<1>1. /\ known \in SessionType /\ known.app = s.app /\ known.status = r.status
      /\ (known.connected <=> s.connected) /\ known.errors = s.errors
  BY DEF SessionType, ResponseType
<1>2. Receive(s, r) = taken
  BY DEF Receive, NoLongerPending
<1> HIDE DEF known
<1>3. /\ taken \in SessionType /\ taken.app = known.app /\ taken.status = known.status
      /\ taken.pending = "none" /\ (taken.connected <=> known.connected)
      /\ taken.errors = known.errors
  BY <1>1 DEF SessionType
<1> HIDE DEF taken
<1> QED
  BY <1>1, <1>2, <1>3

\* ControlImp::WaitForResponse, in terms of Receive.
LEMMA AnsweredFacts ==
    ASSUME NEW s \in SessionType, NEW r \in ResponseType, r.type = s.pending
    PROVE  /\ Answered(s, r) \in SessionType
           /\ Answered(s, r).app = s.app /\ Answered(s, r).status = r.status
           /\ Answered(s, r).pending = "none"
           /\ (Answered(s, r).connected <=> s.connected)
           /\ r.error => Answered(s, r).errors = s.errors \cup {"SC2ProtocolError"}
           /\ ~r.error => Answered(s, r).errors = s.errors
<1>1. "SC2ProtocolError" \in ClientErrors
  BY DEF ClientErrors
<1>2. /\ r.error => Answered(s, r) = Error(Receive(s, r), "SC2ProtocolError")
      /\ ~r.error => Answered(s, r) = Receive(s, r)
  BY DEF Answered
<1> QED
  BY <1>1, <1>2, ReceiveFacts, ErrorFacts

LEMMA RecoveredFacts ==
    ASSUME NEW s \in SessionType, NEW r \in ResponseType, r.type = s.pending
    PROVE  /\ Recovered(s, r) \in SessionType
           /\ Recovered(s, r).app = s.app /\ Recovered(s, r).pending = "none"
           /\ (Recovered(s, r).connected <=> s.connected)
           /\ Recovered(s, r).errors = s.errors \cup {"SC2UnknownStatus"}
<1>1. "SC2UnknownStatus" \in ClientErrors
  BY DEF ClientErrors
<1> QED
  BY <1>1, ReceiveFacts, ErrorFacts DEF Recovered

\* What gives the application up, with the error that tells.
LEMMA GivenUpFacts ==
    ASSUME NEW s \in SessionType, NEW a \in AppStates, NEW e \in ClientErrors
    PROVE  LET t == Error([s EXCEPT !.app = a], e) IN
           /\ t \in SessionType
           /\ t.app = a /\ t.status = s.status /\ t.pending = s.pending
           /\ (t.connected <=> s.connected) /\ t.errors = s.errors \cup {e}
<1> DEFINE t == [s EXCEPT !.app = a]
<1>1. /\ t \in SessionType
      /\ t.app = a /\ t.status = s.status /\ t.pending = s.pending
      /\ (t.connected <=> s.connected) /\ t.errors = s.errors
  BY DEF SessionType
<1> HIDE DEF t
<1>2. /\ Error(t, e) \in SessionType
      /\ Error(t, e).app = a /\ Error(t, e).status = s.status
      /\ Error(t, e).pending = s.pending
      /\ (Error(t, e).connected <=> s.connected) /\ Error(t, e).errors = s.errors \cup {e}
  BY <1>1, ErrorFacts
<1> QED
  BY <1>2 DEF t

LEMMA CrashedFacts ==
    ASSUME NEW s \in SessionType
    PROVE  /\ Crashed(s) \in SessionType
           /\ Crashed(s).app = "crashed" /\ Crashed(s).pending = s.pending
           /\ (Crashed(s).connected <=> s.connected)
           /\ Crashed(s).errors = s.errors \cup {"SC2AppFailure"}
<1>1. "crashed" \in AppStates /\ "SC2AppFailure" \in ClientErrors
  BY DEF AppStates, ClientErrors
<1> QED
  BY <1>1, GivenUpFacts DEF Crashed

LEMMA UnresponsiveFacts ==
    ASSUME NEW s \in SessionType
    PROVE  /\ Unresponsive(s) \in SessionType
           /\ Unresponsive(s).app = "timeout" /\ Unresponsive(s).pending = s.pending
           /\ (Unresponsive(s).connected <=> s.connected)
           /\ Unresponsive(s).errors = s.errors \cup {"SC2ProtocolTimeout"}
<1>1. "timeout" \in AppStates /\ "SC2ProtocolTimeout" \in ClientErrors
  BY DEF AppStates, ClientErrors
<1> QED
  BY <1>1, GivenUpFacts DEF Unresponsive

-----------------------------------------------------------------------------
(* Requests and responses.                                                 *)

LEMMA SequenceFacts ==
    /\ <<>> \in Seq(Types) /\ <<>> \in Seq(ResponseType) /\ Len(<<>>) = 0
    /\ \A t : <<t>> # <<>> /\ Len(<<t>>) = 1 /\ Head(<<t>>) = t /\ Tail(<<t>>) = <<>>
              /\ Append(<<>>, t) = <<t>>
    /\ \A t : <<t>> \in Seq(Types) => t \in Types
OBVIOUS

\* Nothing is on its way when no response is pending.
LEMMA NothingPending ==
    ASSUME TypeOK, Sequential, session.pending = "none" PROVE Nothing
<1>1. "none" \notin Types
  BY TypesAssumption
<1>2. ~(\E r \in ResponseType : r.type = "none")
  BY <1>1 DEF ResponseType
<1>3. unanswered # <<"none">>
  BY <1>1, SequenceFacts DEF TypeOK
<1> QED
  BY <1>2, <1>3 DEF Sequential, Fits

\* A response in the queue is the only one, and of the request that is pending.
LEMMA TakeFacts ==
    ASSUME TypeOK, Sequential, NEW r \in ResponseType, Take(r)
    PROVE  /\ Fits(r, session.pending) /\ r.type = session.pending
           /\ box = <<r>> /\ box' = <<>> /\ unanswered = <<>>
           /\ ~has_response' /\ consumed' = consumed + 1
<1>1. PICK q \in ResponseType : Fits(q, session.pending) /\ box = <<q>> /\ unanswered = <<>>
  BY DEF Sequential, Take, Nothing
<1>2. q = r /\ Tail(box) = <<>>
  BY <1>1, SequenceFacts DEF Take
<1> QED
  BY <1>1, <1>2 DEF Take, FlagAfterPop, Fits

\* What a request changes.
Requested(s, t, ignore, ifSent, ifNot) ==
    /\ session' \in SessionType /\ session'.app = session.app /\ session'.status = s.status
    /\ sent' \in Nat /\ unanswered' \in Seq(Types)
    /\ \/ /\ pc' = ifSent /\ session'.pending = t /\ session'.connected
          /\ session'.errors = session.errors
          /\ unanswered' # <<>> \/ process = "dead"
          /\ ignore \/ session.pending = "none"
       \/ /\ pc' = ifNot /\ session'.pending = session.pending /\ unanswered' = unanswered
          /\ session'.errors \subseteq session.errors \cup {"ResponseNotConsumed"}
          /\ ~session.connected /\ ignore => session' = s
    /\ Sequential' /\ LossIsSeen'

\* It does, where nothing is on its way or SendRequest refuses it.
LEMMA TransmitFacts ==
    ASSUME TypeOK, Sequential, LossIsSeen, UNCHANGED <<box, consumed, process>>,
           NEW s \in SessionType, s.app = session.app, s.pending = session.pending,
           s.connected <=> session.connected, s.errors = session.errors,
           NEW t \in Types, NEW ignore \in BOOLEAN, NEW ifSent, NEW ifNot,
           ignore => Nothing, pc # "killing",
           Transmit(s, t, ignore, ifSent, ifNot)
    PROVE  Requested(s, t, ignore, ifSent, ifNot)
<1> USE DEF Requested
<1>1. PICK reachable \in Reachable :
          LET o == SendRequest(s, t, ignore, reachable) IN
          /\ session' = o.session
          /\ pc' = IF o.sent THEN ifSent ELSE ifNot
          /\ sent' = IF o.sent THEN sent + 1 ELSE sent
          /\ unanswered' = IF o.sent /\ process # "dead" THEN Append(unanswered, t)
                           ELSE unanswered
  BY DEF Transmit
<1> DEFINE o == SendRequest(s, t, ignore, reachable)
<1>2. /\ reachable \in BOOLEAN /\ (process = "dead" => ~reachable)
  BY <1>1 DEF Reachable
<1>3. /\ session' = o.session
      /\ pc' = IF o.sent THEN ifSent ELSE ifNot
      /\ sent' = IF o.sent THEN sent + 1 ELSE sent
      /\ unanswered' = IF o.sent /\ process # "dead" THEN Append(unanswered, t) ELSE unanswered
  BY <1>1
<1> HIDE DEF o
<1>4. /\ o.sent \in BOOLEAN /\ o.session \in SessionType
      /\ (o.sent <=> (s.connected \/ reachable) /\ (ignore \/ s.pending = "none"))
      /\ o.session.app = s.app /\ o.session.status = s.status
      /\ s.errors \subseteq o.session.errors
      /\ o.session.errors \subseteq s.errors \cup {"ResponseNotConsumed"}
      /\ o.sent => o.session.pending = t /\ o.session.connected
                   /\ o.session.errors = s.errors
      /\ ~o.sent => o.session.pending = s.pending
      /\ (o.session.connected <=> (s.connected \/ reachable))
      /\ ~s.connected /\ ~reachable => o.session = s
  <2>1. IsSent(s, t, ignore, reachable, o)
    BY <1>2, SendFacts, Zenon DEF o
  <2> QED
    BY <2>1 DEF IsSent
<1>5. sent \in Nat /\ unanswered \in Seq(Types) /\ consumed \in Nat /\ box \in Seq(ResponseType)
  BY DEF TypeOK
<1>6. CASE o.sent
  <2>1. Nothing
    BY <1>4, <1>6, NothingPending
  <2>2. CASE process = "dead"
    <3>1. s.connected
      BY <1>2, <1>4, <1>6, <2>2
    <3>2. "ConnectionClosed" \in session.errors
      BY <2>2, <3>1 DEF LossIsSeen
    <3>3. unanswered' = <<>> /\ box' = <<>>
      BY <1>3, <2>1, <2>2 DEF Nothing
    <3>4. Sequential'
      BY <3>3 DEF Sequential, Nothing
    <3>5. LossIsSeen'
      BY <1>4, <1>3, <1>6, <3>2 DEF LossIsSeen
    <3> QED
      BY <1>4, <1>3, <1>5, <1>6, <2>1, <2>2, <3>3, <3>4, <3>5, SequenceFacts DEF Nothing
  <2>3. CASE process # "dead"
    <3>1. unanswered' = <<t>> /\ box' = <<>> /\ unanswered' # <<>>
      BY <1>3, <1>6, <2>1, <2>3, SequenceFacts DEF Nothing
    <3>2. session'.pending = t /\ session'.connected /\ session'.errors = session.errors
      BY <1>4, <1>3, <1>6
    <3>3. Sequential'
      BY <3>1, <3>2 DEF Sequential
    <3>4. Lost' = Lost
      BY <1>3, <1>5, <1>6, <2>1, <3>1, SequenceFacts DEF Lost, Nothing
    <3>5. LossIsSeen'
      BY <1>4, <1>3, <2>3, <3>2, <3>4 DEF LossIsSeen
    <3>6. unanswered' \in Seq(Types)
      BY <1>3, <1>5
    <3> QED
      BY <1>4, <1>3, <1>5, <1>6, <3>1, <3>2, <3>3, <3>5, <3>6
  <2> QED
    BY <2>2, <2>3
<1>7. CASE ~o.sent
  <2>1. /\ pc' = ifNot /\ session'.pending = session.pending
        /\ unanswered' = unanswered /\ sent' = sent
    BY <1>4, <1>3, <1>7
  <2>2. Sequential'
    BY <2>1 DEF Sequential, Nothing
  <2>3. Lost' = Lost
    BY <2>1 DEF Lost
  <2>4. (session'.connected <=> (session.connected \/ reachable))
    BY <1>4, <1>3
  <2>5. LossIsSeen'
    BY <1>2, <1>4, <1>3, <2>1, <2>3, <2>4 DEF LossIsSeen
  <2>6. ~session.connected /\ ignore => session' = s
    BY <1>4, <1>3, <1>7
  <2> QED
    BY <1>4, <1>3, <1>5, <2>1, <2>2, <2>5, <2>6
<1> QED
  BY <1>4, <1>6, <1>7

\* A wait that times out leaves nothing on its way, and the error that says so.
LEMMA GiveUpFacts ==
    ASSUME TypeOK, Sequential, LossIsSeen, UNCHANGED <<box, sent, consumed, process>>, GiveUp,
           session' \in SessionType, session'.app = session.app,
           session.errors \subseteq session'.errors, "ConnectionClosed" \in session'.errors,
           pc # "killing"
    PROVE  /\ Nothing' /\ unanswered' \in Seq(Types) /\ has_response' \in BOOLEAN
           /\ Sequential' /\ LossIsSeen'
<1>1. Nothing' /\ has_response' \in BOOLEAN
  BY DEF GiveUp, Disconnected, Nothing, TypeOK
<1>2. unanswered' \in Seq(Types)
  BY <1>1, SequenceFacts DEF Nothing
<1>3. LossIsSeen'
  BY DEF LossIsSeen
<1> QED
  BY <1>1, <1>2, <1>3 DEF Sequential

LEMMA TriesType ==
    ASSUME Tried PROVE tries \in 0..KillAttempts \/ tries \in 0..ConnectAttempts
BY SessionAssumption DEF Tried

\* A call that ends with a response.
LEMMA TakenKeeps ==
    ASSUME IInv, NEW r \in ResponseType, Take(r),
           pc \in {"connecting", "waiting", "probing", "pinging"},
           UNCHANGED <<before, sent, unanswered, app>>, pc' = "idle", tries' = 0,
           session' \in SessionType, session'.app = session.app,
           session'.pending = "none", session'.connected <=> session.connected,
           session.errors \subseteq session'.errors,
           session'.errors \subseteq
               session.errors \cup {"SC2ProtocolError", "SC2UnknownStatus"}
    PROVE  IInv'
<1>1. /\ box = <<r>> /\ box' = <<>> /\ unanswered = <<>> /\ unanswered' = <<>>
      /\ ~has_response' /\ consumed' = consumed + 1 /\ sent' = sent
      /\ process' = process /\ host' = host /\ tracked' = tracked
  BY TakeFacts DEF IInv, app
<1>2. Nothing' /\ Sequential' /\ Quiet'
  BY <1>1 DEF Nothing, Sequential, Quiet
<1>3. Tried'
  BY DEF Tried
<1>4. TypeOK'
  <2>1. has_response' \in BOOLEAN
    BY DEF Take, FlagAfterPop
  <2> QED
    BY <1>1, <1>3, <2>1, SequenceFacts, SessionAssumption DEF IInv, TypeOK, ClientPcs
<1>5. Lost' = Lost
  BY <1>1, SequenceFacts DEF IInv, TypeOK, Lost
<1>6. LossIsSeen'
  BY <1>1, <1>5 DEF IInv, LossIsSeen
<1>7. NoMismatch'
  BY DEF IInv, NoMismatch
<1>8. Expected' /\ InCall'
  BY <1>1 DEF Expected, Settling, InCall, InWaitForResponse
<1>9. Truthful'
  BY <1>1 DEF IInv, Truthful, Terminates
<1> QED
  BY <1>2, <1>3, <1>4, <1>6, <1>7, <1>8, <1>9 DEF IInv

-----------------------------------------------------------------------------
(* Connecting.                                                             *)

LEMMA RefusedFacts ==
    /\ Refused \in SessionType /\ Refused.app = "normal" /\ Refused.status = "unknown"
    /\ Refused.pending = "ping" /\ ~Refused.connected
    /\ Refused.errors = {"ConnectionClosed"}
BY TypesAssumption DEF Refused, NewSession, SessionType, AppStates, Statuses, ClientErrors

LEMMA TryingFacts ==
    ASSUME NEW e \in {{}, {"ConnectionClosed"}}
    PROVE  /\ Trying(e) \in SessionType /\ Trying(e).app = "normal"
           /\ Trying(e).status = "unknown" /\ Trying(e).pending = "ping"
           /\ Trying(e).connected /\ Trying(e).errors = e
BY TypesAssumption DEF Trying, NewSession, SessionType, AppStates, Statuses, ClientErrors

LEMMA OfflineFacts ==
    ASSUME TypeOK, InCall
    PROVE  /\ pc = "offline" =>
                  /\ session.app = "normal" /\ session.status = "unknown"
                  /\ ~session.connected /\ session.errors \in {{}, {"ConnectionClosed"}}
                  /\ session.errors = {} => session = NewSession
                  /\ session.errors = {"ConnectionClosed"} => session = Refused
           /\ pc = "connecting" =>
                  /\ session.app = "normal" /\ session.status = "unknown"
                  /\ session.connected /\ session.errors \in {{}, {"ConnectionClosed"}}
                  /\ session = Trying(session.errors)
BY NewSessionFacts, RefusedFacts, TryingFacts DEF InCall

LEMMA InitIInv == ASSUME Init PROVE IInv
<1> USE DEF Init
<1>1. /\ session \in SessionType /\ before \in SessionType
      /\ session.app = "normal" /\ session.pending = "none" /\ ~session.connected
      /\ session.errors = {}
  BY NewSessionFacts
<1>2. Tried /\ Truthful /\ InCall /\ Quiet /\ Sequential /\ NoMismatch
  BY <1>1, SessionAssumption
     DEF Tried, Truthful, InCall, InWaitForResponse, Quiet, Sequential, Nothing, NoMismatch
<1>3. TypeOK
  BY <1>1, <1>2, SequenceFacts, TriesType, SessionAssumption DEF TypeOK, ClientPcs
<1>4. Lost = 0
  <2>1. Len(unanswered) = 0 /\ Len(box) = 0 /\ sent = 0 /\ consumed = 0
    OBVIOUS
  <2>2. Lost = 0 - 0 - 0 - 0
    BY <2>1, Zenon DEF Lost
  <2> QED
    BY <2>2
<1>5. LossIsSeen /\ Expected
  BY <1>1, <1>4 DEF LossIsSeen, Expected, Settling
<1> QED
  BY <1>2, <1>3, <1>5 DEF IInv

LEMMA ConnectToGameKeeps == ASSUME IInv, ConnectToGame PROVE IInv'
<1> USE DEF IInv
<1> DEFINE s == BeginWait(session)
<1>1. /\ UNCHANGED <<before, consumed, box, has_response, host, process, tracked>>
      /\ pc = "offline" /\ tries < ConnectAttempts /\ tries' = tries + 1
      /\ Transmit(s, "ping", TRUE, "connecting", "offline")
  BY DEF ConnectToGame, app
<1>2. session \in SessionType /\ Nothing
  BY <1>1 DEF TypeOK, Quiet
<1>3. /\ s \in SessionType /\ s.app = session.app /\ s.pending = session.pending
      /\ (s.connected <=> session.connected) /\ s.errors = session.errors
      /\ s.status = "unknown"
  BY <1>2, BeginWaitFacts
<1>4. /\ session.app = "normal" /\ session.status = "unknown" /\ ~session.connected
      /\ session.errors \in {{}, {"ConnectionClosed"}}
  BY <1>1, OfflineFacts
<1>5. s = session
  BY <1>2, <1>3, <1>4, SameSession
<1> HIDE DEF s
<1>6. Requested(s, "ping", TRUE, "connecting", "offline")
  <2>1. /\ "ping" \in Types /\ TRUE \in BOOLEAN /\ (TRUE => Nothing) /\ pc # "killing"
        /\ UNCHANGED <<box, consumed, process>> /\ TypeOK /\ Sequential /\ LossIsSeen
    BY <1>1, <1>2, TypesAssumption
  <2> QED
    BY <1>1, <1>3, <2>1, TransmitFacts, Zenon
<1>7. /\ session' \in SessionType /\ session'.app = "normal" /\ session'.status = "unknown"
      /\ sent' \in Nat /\ unanswered' \in Seq(Types)
      /\ \/ /\ pc' = "connecting" /\ session'.pending = "ping" /\ session'.connected
            /\ session'.errors = session.errors
         \/ /\ pc' = "offline" /\ session' = session /\ unanswered' = unanswered
      /\ Sequential' /\ LossIsSeen'
  BY <1>3, <1>4, <1>5, <1>6 DEF Requested
<1>8. Tried' /\ tries' \in 0..ConnectAttempts
  BY <1>1, <1>7, SessionAssumption DEF Tried
<1>9. TypeOK'
  BY <1>1, <1>7, <1>8 DEF TypeOK, ClientPcs
<1>10. NoMismatch' /\ Quiet'
  BY <1>1, <1>2, <1>7 DEF NoMismatch, Quiet, Nothing
<1>11. Expected'
  BY <1>7 DEF Expected, Settling
<1>12. Truthful'
  BY <1>1, <1>7 DEF Truthful, Terminates
<1>13. InCall'
  <2>1. CASE pc' = "connecting"
    <3>1. session'.errors \in {{}, {"ConnectionClosed"}} /\ session'.pending = "ping"
          /\ session'.connected
      BY <1>4, <1>7, <2>1
    <3>2. session' = Trying(session'.errors)
      <4> DEFINE t == Trying(session'.errors)
      <4>1. /\ t \in SessionType /\ t.app = "normal" /\ t.status = "unknown"
            /\ t.pending = "ping" /\ t.connected /\ t.errors = session'.errors
        BY <3>1, TryingFacts
      <4> HIDE DEF t
      <4>2. t = session'
        BY <1>7, <3>1, <4>1, SameSession
      <4> QED
        BY <4>2 DEF t
    <3> QED
      BY <2>1, <3>1, <3>2 DEF InCall, InWaitForResponse
  <2>2. CASE pc' = "offline"
    BY <1>1, <1>7, <2>2 DEF InCall, InWaitForResponse
  <2> QED
    BY <1>7, <2>1, <2>2
<1> QED
  BY <1>7, <1>8, <1>9, <1>10, <1>11, <1>12, <1>13

LEMMA ConnectAnsweredKeeps == ASSUME IInv, ConnectAnswered PROVE IInv'
<1>1. PICK r \in ResponseType : Take(r) /\ session' = Receive(session, r)
  BY DEF ConnectAnswered
<1>2. pc = "connecting" /\ pc' = "idle" /\ tries' = 0
      /\ UNCHANGED <<before, sent, unanswered, app>>
  BY DEF ConnectAnswered
<1>3. session \in SessionType /\ r.type = session.pending
  BY <1>1, TakeFacts DEF IInv, TypeOK
<1> DEFINE t == Receive(session, r)
<1>4. /\ t \in SessionType /\ t.app = session.app /\ t.pending = "none"
      /\ (t.connected <=> session.connected) /\ t.errors = session.errors
  BY <1>3, ReceiveFacts
<1> HIDE DEF t
<1>5. session' = t
  BY <1>1 DEF t
<1> QED
  BY <1>1, <1>2, <1>4, <1>5, TakenKeeps

LEMMA ConnectTimedOutKeeps == ASSUME IInv, ConnectTimedOut PROVE IInv'
<1> USE DEF IInv
<1>1. /\ pc = "connecting" /\ pc' = "offline" /\ GiveUp
      /\ UNCHANGED <<tries, before, sent, consumed, box, host, process, tracked>>
  BY DEF ConnectTimedOut, app
<1>2. session \in SessionType
  BY DEF TypeOK
<1>3. /\ session' \in SessionType /\ session'.app = session.app
      /\ session'.status = session.status /\ session'.pending = session.pending
      /\ ~session'.connected /\ session'.errors = session.errors \cup {"ConnectionClosed"}
  <2> DEFINE t == ReceiveNothing(session)
  <2>1. /\ t \in SessionType /\ t.app = session.app
        /\ t.status = session.status /\ t.pending = session.pending
        /\ ~t.connected /\ t.errors = session.errors \cup {"ConnectionClosed"}
    BY <1>2, ReceiveNothingFacts
  <2> HIDE DEF t
  <2>2. session' = t
    BY DEF ConnectTimedOut, t
  <2> QED
    BY <2>1, <2>2
<1>4. /\ Nothing' /\ unanswered' \in Seq(Types) /\ has_response' \in BOOLEAN
      /\ Sequential' /\ LossIsSeen'
  BY <1>1, <1>3, GiveUpFacts
<1>5. /\ session.app = "normal" /\ session.status = "unknown" /\ session.pending = "ping"
      /\ session.errors \in {{}, {"ConnectionClosed"}}
  BY <1>1, OfflineFacts DEF Expected
<1>6. Tried' /\ TypeOK'
  BY <1>1, <1>3, <1>4, TriesType DEF Tried, TypeOK, ClientPcs
<1>7. NoMismatch' /\ Quiet' /\ Expected'
  BY <1>1, <1>3, <1>4 DEF NoMismatch, Quiet, Expected, Settling
<1>8. Truthful'
  BY <1>1, <1>3 DEF Truthful, Terminates
<1>9. InCall'
  <2>1. session' = Refused
    BY <1>3, <1>5, RefusedFacts, SameSession
  <2> QED
    BY <1>1, <2>1 DEF InCall, InWaitForResponse
<1> QED
  BY <1>4, <1>6, <1>7, <1>8, <1>9

LEMMA ConnectFailsKeeps == ASSUME IInv, ConnectFails PROVE IInv'
<1> USE DEF IInv
<1>1. /\ pc = "offline" /\ pc' = "failed" /\ tries' = 0
      /\ UNCHANGED <<session, before, sent, consumed, unanswered, box, has_response,
                     host, process, tracked>>
  BY DEF ConnectFails, app
<1>2. Tried' /\ TypeOK'
  BY <1>1, SessionAssumption DEF Tried, TypeOK, ClientPcs
<1>3. Lost' = Lost /\ Nothing' = Nothing
  BY <1>1 DEF Lost, Nothing
<1>4. Sequential' /\ Quiet' /\ NoMismatch' /\ LossIsSeen'
  BY <1>1, <1>3 DEF Sequential, Quiet, NoMismatch, LossIsSeen
<1>5. Expected' /\ Truthful' /\ InCall'
  BY <1>1 DEF Expected, Settling, Truthful, Terminates, InCall, InWaitForResponse
<1> QED
  BY <1>2, <1>4, <1>5

-----------------------------------------------------------------------------
(* Requests of the caller, and the wait for a response.                    *)

LEMMA SameCall ==
    ASSUME before' = before
    PROVE  /\ Waiting' = Waiting /\ TimedOut' = TimedOut
           /\ Pinging' = Pinging /\ Unanswered' = Unanswered
BY DEF Waiting, TimedOut, Pinging, Unanswered

LEMMA RequestKeeps == ASSUME IInv, NEW t \in Types, Request(t) PROVE IInv'
<1> USE DEF IInv
<1>1. /\ UNCHANGED <<tries, before, consumed, box, has_response, host, process, tracked>>
      /\ pc = "idle" /\ t # "ping"
      /\ Transmit(session, t, FALSE, "idle", "idle")
  BY DEF Request, app
<1>2. session \in SessionType
  BY DEF TypeOK
<1>3. Requested(session, t, FALSE, "idle", "idle")
  <2>1. /\ FALSE \in BOOLEAN /\ (FALSE => Nothing) /\ pc # "killing"
        /\ UNCHANGED <<box, consumed, process>> /\ TypeOK /\ Sequential /\ LossIsSeen
    BY <1>1
  <2> QED
    BY <1>1, <1>2, <2>1, TransmitFacts, Zenon
<1>4. /\ session' \in SessionType /\ session'.app = session.app
      /\ sent' \in Nat /\ unanswered' \in Seq(Types) /\ pc' = "idle"
      /\ session'.errors \subseteq session.errors \cup {"ResponseNotConsumed"}
      /\ \/ /\ session'.pending = t /\ session.pending = "none"
            /\ unanswered' # <<>> \/ process = "dead"
         \/ session'.pending = session.pending /\ unanswered' = unanswered
      /\ Sequential' /\ LossIsSeen'
  BY <1>3 DEF Requested
<1>5. Tried' /\ TypeOK'
  BY <1>1, <1>4, TriesType DEF Tried, TypeOK
<1>6. NoMismatch' /\ Quiet' /\ Truthful' /\ InCall'
  BY <1>1, <1>4 DEF NoMismatch, Quiet, Truthful, Terminates, InCall, InWaitForResponse
<1>7. Expected'
  BY <1>1, <1>4 DEF Expected, Settling, Nothing
<1> QED
  BY <1>4, <1>5, <1>6, <1>7

LEMMA WaitForResponseKeeps == ASSUME IInv, WaitForResponse PROVE IInv'
<1> USE DEF IInv
<1>1. /\ UNCHANGED <<tries, sent, consumed, unanswered, box, has_response, host, process,
                     tracked>>
      /\ pc = "idle" /\ pc' = "waiting" /\ session.app = "normal"
      /\ before' = session /\ session' = BeginWait(session)
  BY DEF WaitForResponse, app
<1> DEFINE t == BeginWait(session)
<1>2. session \in SessionType
  BY DEF TypeOK
<1>3. /\ t \in SessionType /\ t.app = session.app /\ t.pending = session.pending
      /\ (t.connected <=> session.connected) /\ t.errors = session.errors
  BY <1>2, BeginWaitFacts
<1>4. session' = t /\ Waiting' = t
  BY <1>1 DEF Waiting
<1> HIDE DEF t
<1>5. Tried' /\ TypeOK'
  BY <1>1, <1>2, <1>3, <1>4, TriesType DEF Tried, TypeOK, ClientPcs
<1>6. Lost' = Lost /\ Nothing' = Nothing
  BY <1>1 DEF Lost, Nothing
<1>7. Sequential' /\ Quiet' /\ NoMismatch' /\ LossIsSeen'
  BY <1>1, <1>3, <1>4, <1>6 DEF Sequential, Quiet, NoMismatch, LossIsSeen
<1>8. Expected' /\ Truthful'
  BY <1>1, <1>3, <1>4, <1>6 DEF Expected, Settling, Truthful, Terminates
<1>9. InCall'
  BY <1>1, <1>4 DEF InCall
<1> QED
  BY <1>5, <1>7, <1>8, <1>9

LEMMA ResponseArrivesKeeps == ASSUME IInv, ResponseArrives PROVE IInv'
<1>1. PICK r \in ResponseType : Take(r) /\ session' = Answered(session, r)
  BY DEF ResponseArrives
<1>2. pc = "waiting" /\ pc' = "idle" /\ tries' = 0
      /\ UNCHANGED <<before, sent, unanswered, app>>
  BY DEF ResponseArrives, IInv, Tried
<1>3. session \in SessionType /\ r.type = session.pending
  BY <1>1, TakeFacts DEF IInv, TypeOK
<1> DEFINE t == Answered(session, r)
<1>4. /\ t \in SessionType /\ t.app = session.app /\ t.pending = "none"
      /\ (t.connected <=> session.connected) /\ session.errors \subseteq t.errors
      /\ t.errors \subseteq session.errors \cup {"SC2ProtocolError"}
  BY <1>3, AnsweredFacts
<1> HIDE DEF t
<1>5. session' = t
  BY <1>1 DEF t
<1> QED
  BY <1>1, <1>2, <1>4, <1>5, TakenKeeps

LEMMA ResponseTimesOutKeeps == ASSUME IInv, ResponseTimesOut PROVE IInv'
<1> USE DEF IInv
<1>1. /\ pc = "waiting" /\ pc' = "diagnosing" /\ GiveUp
      /\ session' = ReceiveNothing(session)
      /\ UNCHANGED <<tries, before, sent, consumed, box, host, process, tracked>>
  BY DEF ResponseTimesOut, app
<1>2. session \in SessionType /\ before \in SessionType
  BY DEF TypeOK
<1> DEFINE t == ReceiveNothing(session)
<1>3. /\ t \in SessionType /\ t.app = session.app
      /\ t.status = session.status /\ t.pending = session.pending
      /\ ~t.connected /\ t.errors = session.errors \cup {"ConnectionClosed"}
  BY <1>2, ReceiveNothingFacts
<1> HIDE DEF t
<1>4. session' = t
  BY <1>1 DEF t
<1>5. /\ Nothing' /\ unanswered' \in Seq(Types) /\ has_response' \in BOOLEAN
      /\ Sequential' /\ LossIsSeen'
  BY <1>1, <1>3, <1>4, GiveUpFacts
<1>6. Tried' /\ TypeOK'
  BY <1>1, <1>3, <1>4, <1>5, TriesType DEF Tried, TypeOK, ClientPcs
<1>7. NoMismatch' /\ Quiet' /\ Expected' /\ Truthful'
  BY <1>1, <1>3, <1>4, <1>5
     DEF NoMismatch, Quiet, Expected, Settling, Truthful, Terminates
<1>8. TimedOut = t
  <2> DEFINE w == Waiting
             e == Error(w, "ConnectionClosed")
  <2>1. w \in SessionType
    BY <1>2, BeginWaitFacts DEF Waiting
  <2> HIDE DEF w
  <2>2. /\ e \in SessionType /\ e.app = w.app /\ e.status = w.status
        /\ e.pending = w.pending /\ e.errors = w.errors \cup {"ConnectionClosed"}
    BY <2>1, ErrorFacts DEF ClientErrors
  <2>3. session \in {w, e}
    BY <1>1 DEF InCall, w
  <2> HIDE DEF e
  <2> DEFINE n == ReceiveNothing(w)
  <2>4. /\ n \in SessionType /\ n.app = w.app /\ n.status = w.status
        /\ n.pending = w.pending /\ ~n.connected
        /\ n.errors = w.errors \cup {"ConnectionClosed"}
    BY <2>1, ReceiveNothingFacts
  <2> HIDE DEF n
  <2>5. n = t
    BY <1>3, <2>2, <2>3, <2>4, SameSession
  <2> QED
    BY <2>5 DEF n, w, TimedOut
<1>9. InCall'
  <2>1. TimedOut' = t
    BY <1>1, <1>8, SameCall
  <2> QED
    BY <1>1, <1>4, <2>1 DEF InCall, InWaitForResponse
<1> QED
  BY <1>5, <1>6, <1>7, <1>9

-----------------------------------------------------------------------------
(* The recovery.                                                           *)

\* The sessions it goes through.
LEMMA RecoveryFacts ==
    ASSUME TypeOK
    PROVE  /\ TimedOut \in SessionType /\ TimedOut.app = before.app
           /\ TimedOut.status = "unknown" /\ TimedOut.pending = before.pending
           /\ ~TimedOut.connected
           /\ TimedOut.errors = before.errors \cup {"ConnectionClosed"}
           /\ Pinging \in SessionType /\ Pinging.app = before.app
           /\ Pinging.status = "unknown" /\ Pinging.pending = "ping" /\ Pinging.connected
           /\ Pinging.errors = TimedOut.errors
           /\ Unanswered \in SessionType /\ Unanswered.app = before.app
           /\ Unanswered.status = "unknown" /\ Unanswered.pending = "ping"
           /\ ~Unanswered.connected /\ Unanswered.errors = TimedOut.errors
           /\ BeginWait(Pinging) = Pinging
<1>1. /\ Waiting \in SessionType /\ Waiting.app = before.app /\ Waiting.status = "unknown"
      /\ Waiting.pending = before.pending /\ Waiting.errors = before.errors
  BY BeginWaitFacts DEF TypeOK, Waiting
<1>2. /\ TimedOut \in SessionType /\ TimedOut.app = before.app
      /\ TimedOut.status = "unknown" /\ TimedOut.pending = before.pending
      /\ ~TimedOut.connected
      /\ TimedOut.errors = before.errors \cup {"ConnectionClosed"}
  BY <1>1, ReceiveNothingFacts DEF TimedOut
<1>3. /\ Pinging \in SessionType /\ Pinging.app = before.app
      /\ Pinging.status = "unknown" /\ Pinging.pending = "ping" /\ Pinging.connected
      /\ Pinging.errors = TimedOut.errors
  <2> DEFINE o == SendRequest(TimedOut, "ping", TRUE, TRUE)
  <2>1. IsSent(TimedOut, "ping", TRUE, TRUE, o)
    <3>1. "ping" \in Types /\ TRUE \in BOOLEAN
      BY TypesAssumption
    <3> QED
      BY <1>2, <3>1, SendFacts, Zenon
  <2>2. Pinging = o.session
    BY DEF Pinging
  <2> HIDE DEF o
  <2> QED
    BY <1>2, <2>1, <2>2 DEF IsSent
<1> DEFINE w == BeginWait(Pinging)
<1>4. /\ w \in SessionType /\ w.app = before.app /\ w.status = "unknown"
      /\ w.pending = "ping" /\ w.connected /\ w.errors = TimedOut.errors
  BY <1>3, BeginWaitFacts
<1> HIDE DEF w
<1>5. w = Pinging
  BY <1>3, <1>4, SameSession
<1> DEFINE n == ReceiveNothing(w)
<1>6. /\ n \in SessionType /\ n.app = before.app /\ n.status = "unknown"
      /\ n.pending = "ping" /\ ~n.connected
      /\ n.errors = TimedOut.errors \cup {"ConnectionClosed"}
  BY <1>4, ReceiveNothingFacts
<1>7. n = Unanswered
  BY DEF Unanswered, w
<1> HIDE DEF n
<1>8. n.errors = TimedOut.errors
  BY <1>2, <1>6
<1> QED
  BY <1>2, <1>3, <1>5, <1>6, <1>7, <1>8 DEF w

LEMMA DiagnoseKeeps == ASSUME IInv, Diagnose PROVE IInv'
<1> USE DEF IInv
<1>1. /\ UNCHANGED <<tries, before, sent, consumed, unanswered, box, has_response, host,
                     process, tracked>>
      /\ pc = "diagnosing"
  BY DEF Diagnose, app
<1>2. session \in SessionType /\ session = TimedOut /\ session.app = "normal"
  BY <1>1, RecoveryFacts DEF TypeOK, InCall, InWaitForResponse
<1>3. Lost' = Lost /\ Nothing' = Nothing
  BY <1>1 DEF Lost, Nothing
<1>4. CASE HasCrashed
  <2> DEFINE t == Crashed(session)
  <2>1. pc' = "idle" /\ session' = t
    BY <1>4 DEF Diagnose
  <2>2. /\ t \in SessionType /\ t.app = "crashed" /\ t.pending = session.pending
        /\ (t.connected <=> session.connected)
        /\ t.errors = session.errors \cup {"SC2AppFailure"}
    BY <1>2, CrashedFacts
  <2> HIDE DEF t
  <2>3. Tried' /\ TypeOK'
    BY <1>1, <2>1, <2>2, TriesType DEF Tried, TypeOK, ClientPcs
  <2>4. Sequential' /\ Quiet' /\ NoMismatch' /\ LossIsSeen'
    BY <1>1, <1>3, <2>1, <2>2 DEF Sequential, Quiet, NoMismatch, LossIsSeen
  <2>5. Expected' /\ InCall'
    BY <2>1, <2>2 DEF Expected, Settling, InCall, InWaitForResponse
  <2>6. Truthful'
    BY <1>1, <1>4, <2>1 DEF Truthful, Terminates, HasCrashed, IsProcessRunning
  <2> QED
    BY <2>3, <2>4, <2>5, <2>6
<1>5. CASE ~HasCrashed
  <2>1. pc' = "probe" /\ session' = session
    BY <1>5 DEF Diagnose
  <2>2. Tried' /\ TypeOK'
    BY <1>1, <2>1, TriesType DEF Tried, TypeOK, ClientPcs
  <2>3. Sequential' /\ Quiet' /\ NoMismatch' /\ LossIsSeen'
    BY <1>1, <1>3, <2>1 DEF Sequential, Quiet, NoMismatch, LossIsSeen
  <2>4. Expected' /\ Truthful'
    BY <1>1, <2>1 DEF Expected, Settling, Truthful, Terminates
  <2>5. InCall'
    BY <1>1, <1>2, <2>1, SameCall DEF InCall, InWaitForResponse
  <2> QED
    BY <2>2, <2>3, <2>4, <2>5
<1> QED
  BY <1>4, <1>5

LEMMA SendProbeKeeps == ASSUME IInv, SendProbe PROVE IInv'
<1> USE DEF IInv
<1>1. /\ UNCHANGED <<tries, before, consumed, box, has_response, host, process, tracked>>
      /\ pc = "probe"
      /\ Transmit(session, "ping", TRUE, "probing", "unresponsive")
  BY DEF SendProbe, app
<1>2. session \in SessionType /\ session = TimedOut /\ session.app = "normal" /\ Nothing
      /\ ~session.connected /\ session.status = "unknown"
  BY <1>1, RecoveryFacts DEF TypeOK, InCall, InWaitForResponse, Quiet
<1>3. Requested(session, "ping", TRUE, "probing", "unresponsive")
  <2>1. /\ "ping" \in Types /\ TRUE \in BOOLEAN /\ (TRUE => Nothing) /\ pc # "killing"
        /\ UNCHANGED <<box, consumed, process>> /\ TypeOK /\ Sequential /\ LossIsSeen
    BY <1>1, <1>2, TypesAssumption
  <2> QED
    BY <1>1, <1>2, <2>1, TransmitFacts, Zenon
<1>4. /\ session' \in SessionType /\ session'.app = "normal" /\ session'.status = "unknown"
      /\ sent' \in Nat /\ unanswered' \in Seq(Types)
      /\ \/ /\ pc' = "probing" /\ session'.pending = "ping" /\ session'.connected
            /\ session'.errors = session.errors
         \/ pc' = "unresponsive" /\ session' = session /\ unanswered' = unanswered
      /\ Sequential' /\ LossIsSeen'
  BY <1>2, <1>3 DEF Requested
<1>5. Tried' /\ TypeOK'
  BY <1>1, <1>4, TriesType DEF Tried, TypeOK, ClientPcs
<1>6. NoMismatch' /\ Quiet' /\ Expected' /\ Truthful'
  BY <1>1, <1>2, <1>4
     DEF NoMismatch, Quiet, Nothing, Expected, Settling, Truthful, Terminates
<1>7. InCall'
  <2>1. CASE pc' = "probing"
    <3>1. /\ Pinging \in SessionType /\ Pinging.app = "normal"
          /\ Pinging.status = "unknown" /\ Pinging.pending = "ping" /\ Pinging.connected
          /\ Pinging.errors = session.errors
      BY <1>1, <1>2, RecoveryFacts
    <3>2. session'.pending = "ping" /\ session'.connected /\ session'.errors = session.errors
      BY <1>4, <2>1
    <3> DEFINE n == session'
    <3>3. /\ n \in SessionType /\ n.app = "normal" /\ n.status = "unknown"
          /\ n.pending = "ping" /\ n.connected /\ n.errors = session.errors
      BY <1>4, <3>2
    <3> HIDE DEF n
    <3>4. n = Pinging
      BY <3>1, <3>3, SameSession
    <3>5. session' = Pinging'
      BY <1>1, <3>4, SameCall DEF n
    <3> QED
      BY <1>1, <2>1, <3>5 DEF InCall, InWaitForResponse
  <2>2. CASE pc' = "unresponsive"
    <3>1. session' = TimedOut'
      BY <1>1, <1>2, <1>4, <2>2, SameCall
    <3> QED
      BY <1>1, <2>2, <3>1 DEF InCall, InWaitForResponse
  <2> QED
    BY <1>4, <2>1, <2>2
<1> QED
  BY <1>4, <1>5, <1>6, <1>7

LEMMA ProbeAnsweredKeeps == ASSUME IInv, ProbeAnswered PROVE IInv'
<1>1. PICK r \in ResponseType : Take(r) /\ session' = Recovered(session, r)
  BY DEF ProbeAnswered
<1>2. pc = "probing" /\ pc' = "idle" /\ tries' = 0
      /\ UNCHANGED <<before, sent, unanswered, app>>
  BY DEF ProbeAnswered, IInv, Tried
<1>3. session \in SessionType /\ r.type = session.pending
  BY <1>1, TakeFacts DEF IInv, TypeOK
<1> DEFINE t == Recovered(session, r)
<1>4. /\ t \in SessionType /\ t.app = session.app /\ t.pending = "none"
      /\ (t.connected <=> session.connected)
      /\ t.errors = session.errors \cup {"SC2UnknownStatus"}
  BY <1>3, RecoveredFacts
<1> HIDE DEF t
<1>5. session' = t
  BY <1>1 DEF t
<1> QED
  BY <1>1, <1>2, <1>4, <1>5, TakenKeeps

LEMMA ProbeTimesOutKeeps == ASSUME IInv, ProbeTimesOut PROVE IInv'
<1> USE DEF IInv
<1>1. /\ pc = "probing" /\ pc' = "unresponsive" /\ GiveUp
      /\ session' = ReceiveNothing(session)
      /\ UNCHANGED <<tries, before, sent, consumed, box, host, process, tracked>>
  BY DEF ProbeTimesOut, app
<1>2. session = Pinging /\ session' = Unanswered
  BY <1>1, RecoveryFacts DEF InCall, Unanswered
<1>3. /\ session' \in SessionType /\ session'.app = session.app /\ session'.pending = "ping"
      /\ ~session'.connected /\ session'.errors = session.errors
      /\ "ConnectionClosed" \in session.errors
  BY <1>2, RecoveryFacts
<1>4. /\ Nothing' /\ unanswered' \in Seq(Types) /\ has_response' \in BOOLEAN
      /\ Sequential' /\ LossIsSeen'
  BY <1>1, <1>3, GiveUpFacts
<1>5. Tried' /\ TypeOK'
  BY <1>1, <1>3, <1>4, TriesType DEF Tried, TypeOK, ClientPcs
<1>6. NoMismatch' /\ Quiet' /\ Expected' /\ Truthful'
  BY <1>1, <1>3, <1>4 DEF NoMismatch, Quiet, Expected, Settling, Truthful, Terminates
<1>7. InCall'
  <2>1. session' = Unanswered'
    BY <1>1, <1>2, SameCall
  <2> QED
    BY <1>1, <2>1 DEF InCall, InWaitForResponse
<1> QED
  BY <1>4, <1>5, <1>6, <1>7

LEMMA MarkUnresponsiveKeeps == ASSUME IInv, MarkUnresponsive PROVE IInv'
<1> USE DEF IInv
<1>1. /\ UNCHANGED <<tries, before, sent, consumed, unanswered, box, has_response, host,
                     process, tracked>>
      /\ pc = "unresponsive" /\ pc' = "killing" /\ session' = Unresponsive(session)
  BY DEF MarkUnresponsive, app
<1> DEFINE t == Unresponsive(session)
<1>2. session \in SessionType /\ session.app = "normal"
  BY <1>1, RecoveryFacts DEF TypeOK, InCall, InWaitForResponse
<1>3. /\ t \in SessionType /\ t.app = "timeout" /\ t.pending = session.pending
      /\ (t.connected <=> session.connected)
      /\ t.errors = session.errors \cup {"SC2ProtocolTimeout"}
  BY <1>2, UnresponsiveFacts
<1> HIDE DEF t
<1>4. session' = t
  BY <1>1 DEF t
<1>5. Lost' = Lost /\ Nothing' = Nothing
  BY <1>1 DEF Lost, Nothing
<1>6. Tried' /\ TypeOK'
  BY <1>1, <1>3, <1>4, TriesType, SessionAssumption DEF Tried, TypeOK, ClientPcs
<1>7. Sequential' /\ Quiet' /\ NoMismatch' /\ LossIsSeen'
  BY <1>1, <1>3, <1>4, <1>5 DEF Sequential, Quiet, NoMismatch, LossIsSeen
<1>8. Expected' /\ Truthful'
  BY <1>1 DEF Expected, Settling, Truthful, Terminates
<1>9. InCall'
  <2>1. session \in {TimedOut, Unanswered}
    BY <1>1 DEF InCall
  <2>2. session' \in {Unresponsive(TimedOut), Unresponsive(Unanswered)}'
    BY <1>1, <2>1, SameCall
  <2> QED
    BY <1>1, <2>2 DEF InCall, InWaitForResponse
<1> QED
  BY <1>6, <1>7, <1>8, <1>9

LEMMA TerminateKeeps == ASSUME IInv, Terminate PROVE IInv'
<1> USE DEF IInv
<1>1. /\ UNCHANGED <<host, session, pc, before, sent, consumed, unanswered, box,
                     has_response>>
      /\ pc = "killing" /\ tries < KillAttempts /\ tries' = tries + 1
      /\ process' \in {"dead", process} /\ ~tracked' /\ tracked' \in BOOLEAN
      /\ ~host.survives => process' = "dead"
  BY DEF Terminate, TriesLeft
<1>2. Tried' /\ TypeOK'
  BY <1>1, SessionAssumption DEF Tried, TypeOK
<1>3. Lost' = Lost /\ Nothing' = Nothing
  BY <1>1 DEF Lost, Nothing
<1>4. Sequential' /\ Quiet' /\ NoMismatch'
  BY <1>1, <1>3 DEF Sequential, Quiet, NoMismatch
<1>5. InCall'
  BY <1>1, SameCall DEF InCall
<1>6. ~session.connected /\ unanswered = <<>>
  BY <1>1, RecoveryFacts, UnresponsiveFacts DEF InCall, Quiet, Nothing
<1>7. LossIsSeen' /\ Expected'
  BY <1>1, <1>3, <1>6 DEF LossIsSeen, Expected, Settling
<1>8. Truthful'
  BY <1>1 DEF Truthful, Terminates
<1> QED
  BY <1>2, <1>4, <1>5, <1>7, <1>8

LEMMA TerminateEndsKeeps == ASSUME IInv, TerminateEnds PROVE IInv'
<1> USE DEF IInv
<1>1. /\ UNCHANGED <<before, sent, consumed, unanswered, box, has_response, host, process,
                     tracked>>
      /\ pc = "killing" /\ pc' = "idle" /\ tries' = 0 /\ Killed
      /\ session' = Terminated(session, IsProcessRunning)
  BY DEF TerminateEnds, app
<1> DEFINE a == IF IsProcessRunning THEN "timeout_zombie" ELSE "timeout"
           t == Error([session EXCEPT !.app = a], "SC2AppFailure")
<1>2. session \in SessionType /\ a \in AppStates /\ "SC2AppFailure" \in ClientErrors
  BY DEF TypeOK, AppStates, ClientErrors
<1>3. session' = t
  BY <1>1 DEF Terminated
<1>4. a = "timeout" => ~IsProcessRunning
  OBVIOUS
<1>5. a # "crashed" /\ a # "normal"
  OBVIOUS
<1> HIDE DEF a
<1>6. /\ t \in SessionType
      /\ t.app = a /\ t.status = session.status /\ t.pending = session.pending
      /\ (t.connected <=> session.connected) /\ t.errors = session.errors \cup {"SC2AppFailure"}
  BY <1>2, GivenUpFacts
<1> HIDE DEF t
<1>7. Lost' = Lost /\ Nothing' = Nothing
  BY <1>1 DEF Lost, Nothing
<1>8. Tried' /\ TypeOK'
  BY <1>1, <1>3, <1>6, SessionAssumption DEF Tried, TypeOK, ClientPcs
<1>9. Sequential' /\ Quiet' /\ NoMismatch' /\ LossIsSeen'
  BY <1>1, <1>3, <1>6, <1>7 DEF Sequential, Quiet, NoMismatch, LossIsSeen
<1>10. Expected' /\ InCall'
  BY <1>1, <1>3, <1>5, <1>6 DEF Expected, Settling, InCall, InWaitForResponse
<1>11. Truthful'
  BY <1>1, <1>3, <1>4, <1>5, <1>6 DEF Truthful, Terminates, IsProcessRunning
<1> QED
  BY <1>8, <1>9, <1>10, <1>11

-----------------------------------------------------------------------------
(* Ping, Quit and the game.                                                *)

LEMMA PingKeeps == ASSUME IInv, Ping PROVE IInv'
<1> USE DEF IInv
<1>1. /\ UNCHANGED <<tries, before, consumed, box, has_response, host, process, tracked>>
      /\ pc = "idle" /\ session.pending = "none"
      /\ Transmit(session, "ping", TRUE, "pinging", "idle")
  BY DEF Ping, app, HasResponsePending
<1>2. session \in SessionType /\ Nothing
  BY <1>1, NothingPending DEF TypeOK
<1>3. Requested(session, "ping", TRUE, "pinging", "idle")
  <2>1. /\ "ping" \in Types /\ TRUE \in BOOLEAN /\ (TRUE => Nothing) /\ pc # "killing"
        /\ UNCHANGED <<box, consumed, process>> /\ TypeOK /\ Sequential /\ LossIsSeen
    BY <1>1, <1>2, TypesAssumption
  <2> QED
    BY <1>1, <1>2, <2>1, TransmitFacts, Zenon
<1>4. /\ session' \in SessionType /\ session'.app = session.app
      /\ sent' \in Nat /\ unanswered' \in Seq(Types)
      /\ session'.errors \subseteq session.errors \cup {"ResponseNotConsumed"}
      /\ \/ pc' = "pinging" /\ session'.pending = "ping"
         \/ pc' = "idle" /\ session'.pending = session.pending /\ unanswered' = unanswered
      /\ Sequential' /\ LossIsSeen'
  BY <1>3 DEF Requested
<1>5. Tried' /\ TypeOK'
  BY <1>1, <1>4, TriesType DEF Tried, TypeOK, ClientPcs
<1>6. NoMismatch' /\ Quiet' /\ Truthful' /\ InCall'
  BY <1>1, <1>4 DEF NoMismatch, Quiet, Truthful, Terminates, InCall, InWaitForResponse
<1>7. Expected'
  BY <1>1, <1>4 DEF Expected, Settling, Nothing
<1> QED
  BY <1>4, <1>5, <1>6, <1>7

LEMMA PingAnsweredKeeps == ASSUME IInv, PingAnswered PROVE IInv'
<1>1. PICK r \in ResponseType : Take(r) /\ session' = Receive(session, r)
  BY DEF PingAnswered
<1>2. pc = "pinging" /\ pc' = "idle" /\ tries' = 0
      /\ UNCHANGED <<before, sent, unanswered, app>>
  BY DEF PingAnswered, IInv, Tried
<1>3. session \in SessionType /\ r.type = session.pending
  BY <1>1, TakeFacts DEF IInv, TypeOK
<1> DEFINE t == Receive(session, r)
<1>4. /\ t \in SessionType /\ t.app = session.app /\ t.pending = "none"
      /\ (t.connected <=> session.connected) /\ t.errors = session.errors
  BY <1>3, ReceiveFacts
<1> HIDE DEF t
<1>5. session' = t
  BY <1>1 DEF t
<1> QED
  BY <1>1, <1>2, <1>4, <1>5, TakenKeeps

LEMMA PingTimesOutKeeps == ASSUME IInv, PingTimesOut PROVE IInv'
<1> USE DEF IInv
<1>1. /\ pc = "pinging" /\ pc' = "idle" /\ GiveUp
      /\ session' = BeginWait(ReceiveNothing(session))
      /\ UNCHANGED <<tries, before, sent, consumed, box, host, process, tracked>>
  BY DEF PingTimesOut, app
<1>2. session \in SessionType /\ session.pending = "ping"
  BY <1>1 DEF TypeOK, Expected
<1> DEFINE n == ReceiveNothing(session)
<1>3. /\ n \in SessionType /\ n.app = session.app /\ n.pending = session.pending
      /\ ~n.connected /\ n.errors = session.errors \cup {"ConnectionClosed"}
  BY <1>2, ReceiveNothingFacts
<1> HIDE DEF n
<1> DEFINE t == BeginWait(n)
<1>4. /\ t \in SessionType /\ t.app = n.app /\ t.pending = n.pending
      /\ (t.connected <=> n.connected) /\ t.errors = n.errors
  BY <1>3, BeginWaitFacts
<1>5. session' = t
  BY <1>1 DEF n
<1> HIDE DEF t
<1>6. /\ Nothing' /\ unanswered' \in Seq(Types) /\ has_response' \in BOOLEAN
      /\ Sequential' /\ LossIsSeen'
  BY <1>1, <1>3, <1>4, <1>5, GiveUpFacts
<1>7. Tried' /\ TypeOK'
  BY <1>1, <1>4, <1>5, <1>6, TriesType DEF Tried, TypeOK, ClientPcs
<1>8. NoMismatch' /\ Quiet' /\ Expected' /\ Truthful' /\ InCall'
  BY <1>1, <1>2, <1>3, <1>4, <1>5, <1>6
     DEF NoMismatch, Quiet, Expected, Settling, Truthful, Terminates, InCall,
         InWaitForResponse
<1> QED
  BY <1>6, <1>7, <1>8

LEMMA QuitKeeps == ASSUME IInv, Quit PROVE IInv'
<1> USE DEF IInv
<1>1. /\ UNCHANGED <<tries, before, consumed, box, has_response, host, process, tracked>>
      /\ pc \in {"idle", "failed"}
      /\ Transmit(session, "quit", FALSE, "quitting", "quitting")
  BY DEF Quit, app
<1>2. session \in SessionType
  BY DEF TypeOK
<1>3. Requested(session, "quit", FALSE, "quitting", "quitting")
  <2>1. /\ "quit" \in Types /\ FALSE \in BOOLEAN /\ (FALSE => Nothing) /\ pc # "killing"
        /\ UNCHANGED <<box, consumed, process>> /\ TypeOK /\ Sequential /\ LossIsSeen
    BY <1>1, TypesAssumption
  <2> QED
    BY <1>1, <1>2, <2>1, TransmitFacts, Zenon
<1>4. /\ session' \in SessionType /\ session'.app = session.app
      /\ sent' \in Nat /\ unanswered' \in Seq(Types) /\ pc' = "quitting"
      /\ session'.errors \subseteq session.errors \cup {"ResponseNotConsumed"}
      /\ Sequential' /\ LossIsSeen'
  BY <1>3 DEF Requested
<1>5. Tried' /\ TypeOK'
  BY <1>1, <1>4, TriesType DEF Tried, TypeOK, ClientPcs
<1>6. NoMismatch' /\ Quiet' /\ Expected' /\ Truthful' /\ InCall'
  BY <1>1, <1>4
     DEF NoMismatch, Quiet, Expected, Settling, Truthful, Terminates, InCall,
         InWaitForResponse
<1> QED
  BY <1>4, <1>5, <1>6

LEMMA DisconnectKeeps == ASSUME IInv, Disconnect PROVE IInv'
<1> USE DEF IInv
<1>1. /\ pc = "quitting" /\ pc' = "gone" /\ session' = ReceiveNothing(session)
      /\ UNCHANGED <<tries, before, sent, consumed, unanswered, box, has_response, host,
                     process, tracked>>
  BY DEF Disconnect, app
<1> DEFINE t == ReceiveNothing(session)
<1>2. /\ t \in SessionType /\ t.app = session.app /\ t.pending = session.pending
      /\ ~t.connected /\ t.errors = session.errors \cup {"ConnectionClosed"}
  BY ReceiveNothingFacts DEF TypeOK
<1> HIDE DEF t
<1>3. session' = t
  BY <1>1 DEF t
<1>4. Tried' /\ TypeOK'
  BY <1>1, <1>2, <1>3, TriesType DEF Tried, TypeOK, ClientPcs
<1>5. Sequential' /\ Quiet' /\ NoMismatch' /\ LossIsSeen'
  BY <1>1, <1>2, <1>3 DEF Sequential, Nothing, Quiet, NoMismatch, LossIsSeen
<1>6. Expected' /\ Truthful' /\ InCall'
  BY <1>1, <1>2, <1>3
     DEF Expected, Settling, Truthful, Terminates, InCall, InWaitForResponse
<1> QED
  BY <1>4, <1>5, <1>6

LEMMA AnswerKeeps == ASSUME IInv, Answer PROVE IInv'
<1> USE DEF IInv
<1>1. /\ UNCHANGED <<session, pc, tries, before, sent, consumed, host, process, tracked>>
      /\ unanswered # <<>> /\ has_response' = TRUE /\ unanswered' = Tail(unanswered)
  BY DEF Answer, client, app
<1>2. PICK status \in AnswerStatuses, error \in BOOLEAN :
          /\ error => Head(unanswered) # "ping"
          /\ box' = Append(box, [type |-> Head(unanswered), status |-> status,
                                 error |-> error])
  BY DEF Answer
<1>3. unanswered = <<session.pending>> /\ box = <<>> /\ session.pending \in Types
  <2>1. unanswered = <<session.pending>> /\ box = <<>>
    BY <1>1 DEF Sequential, Nothing
  <2> QED
    BY <2>1, SequenceFacts DEF TypeOK
<1> DEFINE r == [type |-> session.pending, status |-> status, error |-> error]
<1>4. /\ r \in ResponseType /\ r.type = session.pending /\ r.status \in AnswerStatuses
      /\ (r.error <=> error)
  BY <1>2, <1>3, SessionAssumption DEF ResponseType
<1>5. /\ Head(unanswered) = session.pending /\ unanswered' = <<>>
      /\ box' = Append(<<>>, r)
  BY <1>1, <1>2, <1>3, SequenceFacts
<1> HIDE DEF r
<1>6. box' = <<r>> /\ box' # <<>> /\ Fits(r, session.pending)
  BY <1>2, <1>4, <1>5, SequenceFacts DEF Fits
<1>7. Sequential' /\ Quiet'
  BY <1>1, <1>4, <1>5, <1>6 DEF Sequential, Quiet, Nothing
<1>8. Tried' /\ TypeOK'
  <2>1. box' \in Seq(ResponseType)
    BY <1>4, <1>6
  <2> QED
    BY <1>1, <1>5, <2>1, TriesType, SequenceFacts DEF Tried, TypeOK
<1>9. Lost' = Lost
  <2>1. Len(unanswered) = 1 /\ Len(box) = 0 /\ Len(unanswered') = 0 /\ Len(box') = 1
    BY <1>3, <1>5, <1>6, SequenceFacts
  <2> QED
    BY <1>1, <2>1 DEF Lost, TypeOK
<1>10. NoMismatch' /\ LossIsSeen' /\ Expected' /\ Truthful'
  BY <1>1, <1>5, <1>6, <1>9
     DEF NoMismatch, LossIsSeen, Expected, Settling, Nothing, Truthful, Terminates
<1>11. InCall'
  BY <1>1, SameCall DEF InCall
<1> QED
  BY <1>7, <1>8, <1>10, <1>11

LEMMA HangKeeps == ASSUME IInv, Hang \/ Resume PROVE IInv'
<1> USE DEF IInv
<1>1. /\ UNCHANGED <<session, pc, tries, before, sent, consumed, unanswered, box,
                     has_response, host, tracked>>
      /\ process # "dead" /\ process' # "dead" /\ process' \in {"running", "hung", "dead"}
  BY DEF Hang, Resume, client
<1>2. Tried' /\ TypeOK'
  BY <1>1, TriesType DEF Tried, TypeOK
<1>3. Lost' = Lost /\ Nothing' = Nothing
  BY <1>1 DEF Lost, Nothing
<1>4. Sequential' /\ Quiet' /\ NoMismatch' /\ LossIsSeen' /\ Expected' /\ Truthful'
  BY <1>1, <1>3
     DEF Sequential, Quiet, NoMismatch, LossIsSeen, Expected, Settling, Truthful,
         Terminates
<1>5. InCall'
  BY <1>1, SameCall DEF InCall
<1> QED
  BY <1>2, <1>4, <1>5

\* A crash closes the websocket, which shows in the session of a call in progress.
LEMMA CrashInCall == ASSUME IInv, Crash PROVE InCall'
<1> USE DEF IInv
<1>1. /\ pc' = pc /\ before' = before
      /\ session' = IF session.connected THEN Error(session, "ConnectionClosed")
                    ELSE session
  BY DEF Crash
<1>2. session \in SessionType /\ "ConnectionClosed" \in ClientErrors
  BY DEF TypeOK, ClientErrors
<1>3. "ConnectionClosed" \in session.errors => session' = session
  BY <1>1, <1>2, ErrorTwice
<1>4. CASE pc = "offline"
  BY <1>1, <1>4, OfflineFacts DEF InCall, InWaitForResponse
<1>5. CASE pc = "connecting"
  <2> DEFINE c == {"ConnectionClosed"}
             t == Error(session, "ConnectionClosed")
  <2>1. /\ session.app = "normal" /\ session.status = "unknown" /\ session.connected
        /\ session.errors \in {{}, {"ConnectionClosed"}} /\ session.pending = "ping"
    BY <1>5, OfflineFacts DEF Expected
  <2>2. /\ t \in SessionType /\ t.app = "normal" /\ t.status = "unknown"
        /\ t.pending = "ping" /\ t.connected /\ t.errors = c
    BY <1>2, <2>1, ErrorFacts
  <2>3. session' = t
    BY <1>1, <2>1
  <2> HIDE DEF t
  <2>4. t = Trying(c)
    BY <2>2, TryingFacts, SameSession
  <2> QED
    BY <1>1, <1>5, <2>3, <2>4 DEF InCall, InWaitForResponse
<1>6. CASE pc = "waiting"
  <2>1. Waiting \in SessionType
    BY BeginWaitFacts DEF Waiting, TypeOK
  <2> DEFINE e == Error(Waiting, "ConnectionClosed")
  <2>2. e \in SessionType /\ "ConnectionClosed" \in e.errors
    BY <1>2, <2>1, ErrorFacts
  <2>3. session \in {Waiting, e} /\ before.app = "normal"
    BY <1>6 DEF InCall, InWaitForResponse
  <2>4. session' \in {Waiting, e}
    <3>1. CASE session = Waiting
      BY <1>1, <3>1
    <3>2. CASE session = e
      BY <1>3, <2>2, <3>2
    <3> QED
      BY <2>3, <3>1, <3>2
  <2> QED
    BY <1>1, <1>6, <2>3, <2>4, SameCall DEF InCall, InWaitForResponse
<1>7. CASE pc \in {"diagnosing", "probe", "probing", "unresponsive", "killing"}
  <2>1. session' = session
    <3>1. "ConnectionClosed" \in session.errors
      BY <1>7, RecoveryFacts, UnresponsiveFacts DEF InCall
    <3> QED
      BY <1>3, <3>1
  <2> QED
    BY <1>1, <1>7, <2>1, SameCall DEF InCall
<1>8. CASE pc \in {"failed", "idle", "pinging", "quitting", "gone"}
  BY <1>1, <1>8 DEF InCall, InWaitForResponse
<1> QED
  BY <1>4, <1>5, <1>6, <1>7, <1>8 DEF TypeOK, ClientPcs

LEMMA CrashKeeps == ASSUME IInv, Crash PROVE IInv'
<1> USE DEF IInv
<1>1. /\ UNCHANGED <<pc, tries, before, sent, consumed, box, has_response, host, tracked>>
      /\ process # "dead" /\ process' = "dead" /\ unanswered' = <<>>
      /\ session' = IF session.connected THEN Error(session, "ConnectionClosed")
                    ELSE session
  BY DEF Crash
<1>2. session \in SessionType /\ "ConnectionClosed" \in ClientErrors
  BY DEF TypeOK, ClientErrors
<1>3. /\ session' \in SessionType /\ session'.app = session.app
      /\ session'.pending = session.pending
      /\ (session'.connected <=> session.connected)
      /\ session.errors \subseteq session'.errors
      /\ session'.errors \subseteq session.errors \cup {"ConnectionClosed"}
      /\ session.connected => "ConnectionClosed" \in session'.errors
  <2>1. CASE session.connected
    <3> DEFINE t == Error(session, "ConnectionClosed")
    <3>1. /\ t \in SessionType /\ t.app = session.app /\ t.pending = session.pending
          /\ (t.connected <=> session.connected)
          /\ t.errors = session.errors \cup {"ConnectionClosed"}
      BY <1>2, ErrorFacts
    <3>2. session' = t
      BY <1>1, <2>1
    <3> HIDE DEF t
    <3> QED
      BY <3>1, <3>2
  <2>2. CASE ~session.connected
    BY <1>1, <1>2, <2>2
  <2> QED
    BY <2>1, <2>2
<1>4. Tried' /\ TypeOK'
  BY <1>1, <1>3, TriesType, SequenceFacts DEF Tried, TypeOK
<1>5. Sequential' /\ Quiet'
  BY <1>1, <1>3 DEF Sequential, Quiet, Nothing
<1>6. NoMismatch' /\ Expected' /\ Truthful'
  BY <1>1, <1>3 DEF NoMismatch, Expected, Settling, Truthful, Terminates
<1>7. LossIsSeen'
  <2>1. Lost' # Lost => unanswered # <<>>
    BY <1>1 DEF Lost
  <2>2. unanswered # <<>> => "ConnectionClosed" \in session'.errors
    BY <1>3 DEF LossIsSeen
  <2> QED
    BY <1>1, <1>3, <2>1, <2>2 DEF LossIsSeen
<1> QED
  BY <1>4, <1>5, <1>6, <1>7, CrashInCall

LEMMA StutterKeeps == ASSUME IInv, UNCHANGED vars PROVE IInv'
<1> USE DEF IInv
<1>1. UNCHANGED <<session, pc, tries, before, sent, consumed, unanswered, box, has_response,
                  host, process, tracked>>
  BY DEF vars, client, app
<1>2. Lost' = Lost /\ Nothing' = Nothing
  BY <1>1 DEF Lost, Nothing
<1>3. TypeOK' /\ Sequential' /\ Quiet' /\ NoMismatch' /\ LossIsSeen' /\ Tried'
  BY <1>1, <1>2 DEF TypeOK, Sequential, Quiet, NoMismatch, LossIsSeen, Tried
<1>4. Expected' /\ Truthful' /\ InCall'
  BY <1>1, <1>2, SameCall DEF Expected, Settling, Truthful, Terminates, InCall
<1> QED
  BY <1>3, <1>4

LEMMA NextKeeps == ASSUME IInv, [Next]_vars PROVE IInv'
<1>1. CASE Client
  BY <1>1, ConnectToGameKeeps, ConnectAnsweredKeeps, ConnectTimedOutKeeps,
     ConnectFailsKeeps, RequestKeeps, WaitForResponseKeeps, ResponseArrivesKeeps,
     ResponseTimesOutKeeps, DiagnoseKeeps, SendProbeKeeps, ProbeAnsweredKeeps,
     ProbeTimesOutKeeps, MarkUnresponsiveKeeps, TerminateKeeps, TerminateEndsKeeps,
     PingKeeps, PingAnsweredKeeps, PingTimesOutKeeps, QuitKeeps, DisconnectKeeps
     DEF Client
<1>2. CASE Game
  BY <1>2, AnswerKeeps, HangKeeps, CrashKeeps DEF Game
<1>3. CASE UNCHANGED vars
  BY <1>3, StutterKeeps
<1> QED
  BY <1>1, <1>2, <1>3 DEF Next

-----------------------------------------------------------------------------
(* The summaries of the calls.                                             *)

Outcomes ==
    WaitOutcomes(before, ResponsesTo(before.pending, BOOLEAN), ResponsesTo("ping", {FALSE}))

LEMMA OutcomesAre ==
    /\ \A r \in ResponsesTo(before.pending, BOOLEAN) :
           [got |-> TRUE, session |-> Answered(Waiting, r)] \in Outcomes
    /\ [got |-> FALSE, session |-> Crashed(TimedOut)] \in Outcomes
    /\ \A r \in ResponsesTo("ping", {FALSE}) :
           [got |-> FALSE, session |-> Recovered(BeginWait(Pinging), r)] \in Outcomes
    /\ \A u \in {TimedOut, Unanswered}, z \in BOOLEAN :
           [got |-> FALSE, session |-> Terminated(Unresponsive(u), z)] \in Outcomes
<1>1. Outcomes =
          {[got |-> TRUE, session |-> Answered(Waiting, r)] :
               r \in ResponsesTo(before.pending, BOOLEAN)}
          \cup {[got |-> FALSE, session |-> Crashed(TimedOut)]}
          \cup {[got |-> FALSE, session |-> Recovered(BeginWait(Pinging), r)] :
                    r \in ResponsesTo("ping", {FALSE})}
          \cup {[got |-> FALSE, session |-> Terminated(Unresponsive(u), TRUE)] :
                    u \in {TimedOut, Unanswered}}
          \cup {[got |-> FALSE, session |-> Terminated(Unresponsive(u), FALSE)] :
                    u \in {TimedOut, Unanswered}}
  BY Zenon DEF Outcomes, WaitOutcomes, Waiting, TimedOut, Pinging, Unanswered
<1>2. \A r \in ResponsesTo(before.pending, BOOLEAN) :
          [got |-> TRUE, session |-> Answered(Waiting, r)] \in Outcomes
  BY <1>1, Zenon
<1>3. [got |-> FALSE, session |-> Crashed(TimedOut)] \in Outcomes
  BY <1>1, Zenon
<1>4. \A r \in ResponsesTo("ping", {FALSE}) :
          [got |-> FALSE, session |-> Recovered(BeginWait(Pinging), r)] \in Outcomes
  BY <1>1, Zenon
<1>5. \A u \in {TimedOut, Unanswered}, z \in BOOLEAN :
          [got |-> FALSE, session |-> Terminated(Unresponsive(u), z)] \in Outcomes
  BY <1>1, Zenon
<1> QED
  BY <1>2, <1>3, <1>4, <1>5, Zenon

LEMMA IsOutcome ==
    ASSUME NEW s, NEW got, [got |-> got, session |-> s] \in Outcomes
    PROVE  IsWaitOutcome(s) /\ IsWaitOutcome(Error(s, "ConnectionClosed"))
BY DEF IsWaitOutcome, Outcomes

LEMMA ArrivesIsOutcome ==
    ASSUME IInv, ResponseArrives PROVE IsWaitOutcome(session')
<1> USE DEF IInv
<1>1. PICK r \in ResponseType : Take(r) /\ session' = Answered(session, r)
  BY DEF ResponseArrives
<1> DEFINE e == Error(Waiting, "ConnectionClosed")
           a == Answered(Waiting, r)
           b == Answered(e, r)
           c == Error(a, "ConnectionClosed")
<1>2. session \in {Waiting, e}
  BY DEF ResponseArrives, InCall
<1>3. "ConnectionClosed" \in ClientErrors /\ before \in SessionType
  BY DEF ClientErrors, TypeOK
<1>4. Waiting \in SessionType /\ Waiting.pending = before.pending
  BY <1>3, BeginWaitFacts DEF Waiting
<1>5. /\ e \in SessionType /\ e.app = Waiting.app /\ e.pending = Waiting.pending
      /\ (e.connected <=> Waiting.connected)
      /\ e.errors = Waiting.errors \cup {"ConnectionClosed"}
  BY <1>3, <1>4, ErrorFacts
<1>6. Fits(r, before.pending) /\ r.type = before.pending
  BY <1>1, <1>2, <1>4, <1>5, TakeFacts
<1>7. r \in ResponsesTo(before.pending, BOOLEAN)
  BY <1>6 DEF ResponsesTo, Fits, ResponseType
<1>8. IsWaitOutcome(a) /\ IsWaitOutcome(c)
  BY <1>7, OutcomesAre, IsOutcome
<1>9. b = c
  <2>1. /\ a \in SessionType /\ a.app = Waiting.app /\ a.status = r.status
        /\ a.pending = "none" /\ (a.connected <=> Waiting.connected)
        /\ r.error => a.errors = Waiting.errors \cup {"SC2ProtocolError"}
        /\ ~r.error => a.errors = Waiting.errors
    BY <1>4, <1>6, AnsweredFacts
  <2> HIDE DEF a, e
  <2>2. /\ b \in SessionType /\ b.app = e.app /\ b.status = r.status
        /\ b.pending = "none" /\ (b.connected <=> e.connected)
        /\ r.error => b.errors = e.errors \cup {"SC2ProtocolError"}
        /\ ~r.error => b.errors = e.errors
    BY <1>4, <1>5, <1>6, AnsweredFacts
  <2>3. /\ c \in SessionType /\ c.app = a.app /\ c.status = a.status
        /\ c.pending = a.pending /\ (c.connected <=> a.connected)
        /\ c.errors = a.errors \cup {"ConnectionClosed"}
    BY <1>3, <2>1, ErrorFacts
  <2> HIDE DEF b, c
  <2>4. b.errors = c.errors
    BY <1>5, <2>1, <2>2, <2>3
  <2>5. /\ b \in SessionType /\ c \in SessionType
        /\ b.app = c.app /\ b.status = c.status /\ b.pending = c.pending
        /\ (b.connected <=> c.connected)
    BY <1>5, <2>1, <2>2, <2>3
  <2> QED
    BY <2>4, <2>5, SameSession
<1> HIDE DEF a, b, c
<1>10. session' \in {a, b}
  BY <1>1, <1>2 DEF a, b
<1> QED
  BY <1>8, <1>9, <1>10

LEMMA RecoveryIsOutcome ==
    ASSUME IInv, Diagnose \/ ProbeAnswered \/ TerminateEnds, pc' = "idle"
    PROVE  IsWaitOutcome(session')
<1> USE DEF IInv
<1>1. CASE Diagnose
  <2>1. session = TimedOut /\ session' = Crashed(session)
    BY <1>1 DEF Diagnose, InCall
  <2> QED
    BY <2>1, OutcomesAre, IsOutcome
<1>2. CASE ProbeAnswered
  <2>1. PICK r \in ResponseType : Take(r) /\ session' = Recovered(session, r)
    BY <1>2 DEF ProbeAnswered
  <2>2. session = Pinging /\ BeginWait(Pinging) = Pinging /\ session.pending = "ping"
    BY <1>2, RecoveryFacts DEF ProbeAnswered, InCall
  <2>3. Fits(r, "ping")
    BY <2>1, <2>2, TakeFacts
  <2>4. r \in ResponsesTo("ping", {FALSE})
    BY <2>3 DEF ResponsesTo, Fits, ResponseType
  <2> QED
    BY <2>1, <2>2, <2>4, OutcomesAre, IsOutcome
<1>3. CASE TerminateEnds
  <2>1. PICK u \in {TimedOut, Unanswered} : session = Unresponsive(u)
    BY <1>3 DEF TerminateEnds, InCall
  <2>2. session' = Terminated(Unresponsive(u), IsProcessRunning)
    BY <1>3, <2>1 DEF TerminateEnds
  <2>3. IsProcessRunning \in BOOLEAN
    BY DEF IsProcessRunning
  <2>4. [got |-> FALSE, session |-> Terminated(Unresponsive(u), IsProcessRunning)]
            \in Outcomes
    BY <2>3, OutcomesAre, Zenon
  <2>5. IsWaitOutcome(Terminated(Unresponsive(u), IsProcessRunning))
    BY <2>4, IsOutcome, Zenon
  <2> QED
    BY <2>2, <2>5, Zenon
<1> QED
  BY <1>1, <1>2, <1>3

LEMMA ConnectIsOutcome ==
    ASSUME IInv, ConnectAnswered \/ ConnectFails
    PROVE  session' \in ConnectOutcomes(AnswerStatuses)
<1> USE DEF IInv
<1>1. CASE ConnectAnswered
  <2>1. PICK r \in ResponseType : Take(r) /\ session' = Receive(session, r)
    BY <1>1 DEF ConnectAnswered
  <2>2. pc = "connecting"
    BY <1>1 DEF ConnectAnswered
  <2>3. /\ session \in SessionType /\ session.app = "normal" /\ session.connected
        /\ session.errors \in {{}, {"ConnectionClosed"}} /\ session.pending = "ping"
    BY <2>2, OfflineFacts DEF TypeOK, Expected
  <2>4. r.type = session.pending /\ r.status \in AnswerStatuses /\ r.status \in Statuses
    BY <2>1, <2>3, TakeFacts, SessionAssumption DEF Fits
  <2> DEFINE n == [NewSession EXCEPT !.status = r.status, !.connected = TRUE,
                                     !.errors = session.errors]
             t == Receive(session, r)
  <2>5. n \in ConnectOutcomes(AnswerStatuses)
    <3>1. CASE session.errors = {}
      BY <2>4, <3>1, Zenon DEF ConnectOutcomes
    <3>2. CASE session.errors = {"ConnectionClosed"}
      BY <2>4, <3>2, Zenon DEF ConnectOutcomes
    <3> QED
      BY <2>3, <3>1, <3>2, Zenon
  <2>6. /\ n \in SessionType /\ n.app = "normal" /\ n.status = r.status
        /\ n.pending = "none" /\ n.connected /\ n.errors = session.errors
    BY <2>3, <2>4 DEF NewSession, SessionType, AppStates, ClientErrors
  <2>7. /\ t \in SessionType /\ t.app = "normal" /\ t.status = r.status
        /\ t.pending = "none" /\ t.connected /\ t.errors = session.errors
    BY <2>3, <2>4, ReceiveFacts
  <2>8. session' = t
    BY <2>1
  <2> HIDE DEF n, t
  <2>9. n = t
    BY <2>6, <2>7, SameSession
  <2> QED
    BY <2>5, <2>8, <2>9
<1>2. CASE ConnectFails
  <2>1. session' \in {NewSession, Refused}
    BY <1>2 DEF ConnectFails, InCall
  <2> QED
    BY <2>1, Zenon DEF ConnectOutcomes, Refused
<1> QED
  BY <1>1, <1>2

\* Only these steps end a call.
LEMMA CallEnds ==
    ASSUME IInv, Next
    PROVE  /\ pc' = "idle" /\ pc \in InWaitForResponse =>
                  ResponseArrives \/ Diagnose \/ ProbeAnswered \/ TerminateEnds
           /\ (pc = "connecting" /\ pc' = "idle") \/ (pc = "offline" /\ pc' = "failed") =>
                  ConnectAnswered \/ ConnectFails
<1>1. CASE Game
  <2>1. pc' = pc
    BY <1>1 DEF Game, Answer, Hang, Resume, Crash, client
  <2> QED
    BY <2>1 DEF InWaitForResponse
<1>2. CASE ConnectToGame
  <2>1. pc = "offline" /\ pc' \in {"connecting", "offline"}
    BY <1>2 DEF ConnectToGame, Transmit
  <2> QED
    BY <2>1 DEF InWaitForResponse
<1>3. CASE SendProbe
  <2>1. pc = "probe" /\ pc' \in {"probing", "unresponsive"}
    BY <1>3 DEF SendProbe, Transmit
  <2> QED
    BY <2>1
<1>4. CASE ConnectTimedOut \/ (\E t \in Types : Request(t)) \/ WaitForResponse
           \/ ResponseTimesOut \/ ProbeTimesOut \/ MarkUnresponsive \/ Terminate
           \/ Ping \/ PingAnswered \/ PingTimesOut \/ Quit \/ Disconnect
  <2>1. \/ pc \in {"idle", "failed", "pinging", "quitting"}
        \/ pc' \in {"offline", "waiting", "diagnosing", "unresponsive", "killing"}
    BY <1>4
       DEF ConnectTimedOut, Request, WaitForResponse, ResponseTimesOut, ProbeTimesOut,
           MarkUnresponsive, Terminate, Ping, PingAnswered, PingTimesOut, Quit, Disconnect
  <2> QED
    BY <2>1 DEF InWaitForResponse
<1>5. CASE ResponseArrives \/ Diagnose \/ ProbeAnswered \/ TerminateEnds
  <2>1. pc \in {"waiting", "diagnosing", "probing", "killing"}
    BY <1>5 DEF ResponseArrives, Diagnose, ProbeAnswered, TerminateEnds
  <2> QED
    BY <1>5, <2>1
<1>6. CASE ConnectAnswered \/ ConnectFails
  <2>1. pc \in {"connecting", "offline"}
    BY <1>6 DEF ConnectAnswered, ConnectFails
  <2> QED
    BY <1>6, <2>1 DEF InWaitForResponse
<1> QED
  BY <1>1, <1>2, <1>3, <1>4, <1>5, <1>6 DEF Next, Client

-----------------------------------------------------------------------------
(* The theorems.                                                           *)

\* One request is out at most, a call leaves the session its summary says.
THEOREM IInvAlways == Spec => []IInv
<1> QED
  BY InitIInv, NextKeeps, PTL DEF Spec

\* Through timeouts, lost responses and new websockets a response is never taken
\* for that of another request: WaitForResponseInternal.
THEOREM NoMismatchAlways == Spec => []NoMismatch
<1>1. IInv => NoMismatch
  BY DEF IInv
<1> QED
  BY <1>1, IInvAlways, PTL

\* Where Windows terminates what it is told to, an application that counts as
\* crashed or terminated has no process: WaitForResponse.
THEOREM AppStateTruthfulAlways ==
    ASSUME \A h \in Hosts : Terminates(h) PROVE Spec => []AppStateTruthful
<1>1. IInv => AppStateTruthful
  BY DEF IInv, TypeOK, Truthful, AppStateTruthful
<1> QED
  BY <1>1, IInvAlways, PTL

\* A response that will never come has left an error, and so has an application
\* that was given up: what Coordinator::Update looks at.
THEOREM NoSilentLossAlways == Spec => []NoSilentLoss
<1>1. IInv => NoSilentLoss
  BY DEF IInv, LossIsSeen, NoSilentLoss
<1> QED
  BY <1>1, IInvAlways, PTL

\* While the application works, a pending response is on its way.
THEOREM PendingIsExpectedAlways == Spec => []PendingIsExpected
<1>1. IInv => PendingIsExpected
  BY DEF IInv, Expected, Settling, Nothing, PendingIsExpected
<1> QED
  BY <1>1, IInvAlways, PTL

\* The polls of the coordinator see no stale flag.
THEOREM PollIsTruthfulAlways == Spec => []PollIsTruthful
<1>1. IInv => PollIsTruthful
  BY DEF IInv, Expected, Settling, PollIsTruthful
<1> QED
  BY <1>1, IInvAlways, PTL

\* The summaries of WaitForResponse and Connect that modules Coordinator and
\* Replays take for the calls are right, for any number of tries and whatever the
\* application does.
THEOREM CallSummariesAlways == Spec => CallSummaries
<1> DEFINE Summarised ==
        /\ pc' = "idle" /\ pc \in InWaitForResponse => IsWaitOutcome(session')
        /\ (pc = "connecting" /\ pc' = "idle") \/ (pc = "offline" /\ pc' = "failed") =>
               session' \in ConnectOutcomes(AnswerStatuses)
<1>1. IInv /\ [Next]_vars => [Summarised]_vars
  <2>1. ASSUME IInv, Next PROVE Summarised
    BY <2>1, CallEnds, ArrivesIsOutcome, RecoveryIsOutcome, ConnectIsOutcome
  <2> QED
    BY <2>1
<1>2. [][Summarised]_vars <=> CallSummaries
  BY DEF CallSummaries
<1> HIDE DEF Summarised
<1> QED
  BY <1>1, <1>2, IInvAlways, PTL DEF Spec

=============================================================================
