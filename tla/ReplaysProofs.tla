---------------------------- MODULE ReplaysProofs ----------------------------
(***************************************************************************)
(* The replay observers of a coordinator, for any number of observers and  *)
(* replays and whatever the settings: the loop goes on with games that     *)
(* work only, no response is abandoned, a replay runs in its version, and  *)
(* none is left out or forgotten.                                          *)
(***************************************************************************)
EXTENDS Replays, TLAPS

\* The places of an observer in the first loop of Update, in the second one or with
\* threads, and in StartReplay.
Running == {"done", "poll", "loading", "firstlook", "looking", "starting", "play", "step",
            "look", "observe", "endcheck"}
Calling == {"events", "query", "actions", "acting"}
Taking == {"ready", "gather", "gathering", "gathered"}
Resting == {"idle", "available", "errors", "exited"}

PlaceOf(r) ==
    /\ phase \in Resting => pc[r] = "done"
    /\ phase = "parallel" => pc[r] \in Running \cup Calling
    /\ phase = "parallel" /\ pc[r] \in Calling => MultiThreaded
    /\ phase = "sequence" => ~MultiThreaded /\ pc[r] \in Calling \cup {"done"}
    /\ phase = "start" => pc[r] \in Taking \cup {"done"}
    /\ phase \in {"sequence", "start"} /\ r # turn => pc[r] = "done"
    /\ pc[r] = "step" => ~Realtime

\* StartReplay asks for the info of a replay that is there.
Taken == phase = "start" =>
    /\ pc[turn] # "done"
    /\ pc[turn] \in {"gathering", "gathered"} => replays # 0

\* A game that was given up, and a request or a replay without a connection, show in
\* the errors.
Sane(s) ==
    /\ s.app # "normal" => s.errors # {}
    /\ ~s.connected /\ s.errors = {} => s.pending = "none" /\ ~IsInGame(s)

\* The game answers, or has answered, the request that is pending.
AnswerOf(r) ==
    /\ asked[r] # "none" => ses[r].pending = asked[r] /\ ready[r] = NoResponse
    /\ ready[r] # NoResponse => ready[r].type = ses[r].pending
    /\ ready[r].type = "replay_info" => ~ready[r].error

\* Nothing is asked of a game before the games are launched.
Unlaunched(r) ==
    /\ ses[r] = NewSession /\ asked[r] = "none" /\ ready[r] = NoResponse
    /\ inst[r] = "none" /\ replay[r] = 0 /\ told[r] = "end"
Launched ==
    /\ ~started => phase \in Resting /\ \A r \in Observers : Unlaunched(r)
    /\ started => \A r \in Observers : inst[r] # "none"

IInv ==
    /\ TypeOK /\ Taken /\ Launched /\ GoesOnWithEveryObserver
    /\ \A r \in Observers : PlaceOf(r) /\ Sane(ses[r]) /\ AnswerOf(r)

-----------------------------------------------------------------------------
(* What the calls of ClientSession make of a session.                      *)

\* Nothing went wrong with a session, except that a request may have been refused.
Mild(s) == s.errors \subseteq {"ResponseNotConsumed"}

LEMMA ErrorFacts ==
    ASSUME NEW s \in SessionType, NEW e \in ClientErrors
    PROVE  /\ Error(s, e) \in SessionType
           /\ Error(s, e).app = s.app /\ Error(s, e).status = s.status
           /\ Error(s, e).pending = s.pending /\ Error(s, e).connected = s.connected
           /\ Error(s, e).errors = s.errors \cup {e}
BY DEF Error, SessionType

LEMMA BeginWaitFacts ==
    ASSUME NEW s \in SessionType
    PROVE  /\ BeginWait(s) \in SessionType
           /\ BeginWait(s).app = s.app /\ BeginWait(s).pending = s.pending
           /\ BeginWait(s).connected = s.connected /\ BeginWait(s).errors = s.errors
<1> DEFINE t == [s EXCEPT !.status = "unknown"]
<1>1. "unknown" \in Statuses
  BY DEF Statuses
<1>2. /\ t \in SessionType /\ t.app = s.app /\ t.pending = s.pending
      /\ t.connected = s.connected /\ t.errors = s.errors
  BY <1>1 DEF SessionType
<1>3. BeginWait(s) = t
  BY DEF BeginWait
<1> HIDE DEF t
<1> QED
  BY <1>2, <1>3

LEMMA ReceiveNothingType ==
    ASSUME NEW s \in SessionType
    PROVE  ReceiveNothing(s) \in SessionType
<1> DEFINE t == [s EXCEPT !.connected = FALSE]
<1>1. t \in SessionType
  BY DEF SessionType
<1>2. "ConnectionClosed" \in ClientErrors /\ ReceiveNothing(s) = Error(t, "ConnectionClosed")
  BY DEF ClientErrors, ReceiveNothing
<1> HIDE DEF t
<1> QED
  BY <1>1, <1>2, ErrorFacts

\* What is left of the session s by the response r.
TakenFrom(s, r, t) ==
    /\ t \in SessionType
    /\ t.app = s.app /\ t.status = r.status /\ t.pending = "none"
    /\ t.connected = s.connected
    /\ ~r.error /\ r.type = s.pending => t.errors = s.errors
    /\ r.error \/ r.type # s.pending => ~Mild(t)

LEMMA ReceiveFacts ==
    ASSUME NEW s \in SessionType, NEW r \in ResponseType
    PROVE  /\ Receive(s, r) \in SessionType
           /\ Receive(s, r).app = s.app /\ Receive(s, r).status = r.status
           /\ Receive(s, r).pending = "none" /\ Receive(s, r).connected = s.connected
           /\ r.type = s.pending => Receive(s, r).errors = s.errors
           /\ ~r.error /\ r.type # s.pending => ~Mild(Receive(s, r))
<1> DEFINE known == [s EXCEPT !.status = r.status]
           taken == [known EXCEPT !.pending = "none"]
<1>1. /\ known \in SessionType /\ known.app = s.app /\ known.status = r.status
      /\ known.connected = s.connected /\ known.errors = s.errors
  BY DEF SessionType, ResponseType
<1>2. Receive(s, r) = IF ~r.error /\ r.type # s.pending THEN Error(taken, "ResponseMismatch")
                      ELSE taken
  BY DEF Receive, NoLongerPending
<1> HIDE DEF known
<1>3. /\ taken \in SessionType /\ taken.app = known.app /\ taken.status = known.status
      /\ taken.pending = "none" /\ taken.connected = known.connected
      /\ taken.errors = known.errors
  BY <1>1 DEF SessionType
<1>4. "ResponseMismatch" \in ClientErrors
  BY DEF ClientErrors
<1> HIDE DEF taken
<1> QED
  BY <1>1, <1>2, <1>3, <1>4, ErrorFacts DEF Mild

LEMMA AnsweredFacts ==
    ASSUME NEW s \in SessionType, NEW r \in ResponseType
    PROVE  TakenFrom(s, r, Answered(s, r))
<1> DEFINE t == Receive(s, r)
<1>1. /\ t \in SessionType
      /\ t.app = s.app /\ t.status = r.status
      /\ t.pending = "none" /\ t.connected = s.connected
      /\ r.type = s.pending => t.errors = s.errors
      /\ ~r.error /\ r.type # s.pending => ~Mild(t)
  BY ReceiveFacts
<1>2. "SC2ProtocolError" \in ClientErrors
  BY DEF ClientErrors
<1>3. Answered(s, r) = IF r.error THEN Error(t, "SC2ProtocolError") ELSE t
  BY DEF Answered
<1> HIDE DEF t
<1> QED
  BY <1>1, <1>2, <1>3, ErrorFacts DEF TakenFrom, Mild

\* SendRequest sends nothing while a response is pending, except a ping.
IsSent(s, t, ignore, reachable, o) ==
    /\ o.sent \in BOOLEAN /\ o.session \in SessionType
    /\ o.session.app = s.app /\ o.session.status = s.status
    /\ o.sent => /\ ignore \/ s.pending = "none"
                 /\ o.session.pending = t /\ o.session.errors = s.errors
                 /\ o.session.connected
    /\ ~o.sent => \/ o.session = s /\ ~s.connected /\ ~reachable
                  \/ /\ s.pending # "none" /\ o.session.pending = s.pending
                     /\ o.session.errors = s.errors \cup {"ResponseNotConsumed"}

LEMMA SendFacts ==
    ASSUME NEW s \in SessionType, NEW t \in Types, NEW ignore \in BOOLEAN,
           NEW reachable \in BOOLEAN
    PROVE  IsSent(s, t, ignore, reachable, SendRequest(s, t, ignore, reachable))
<1> DEFINE o == SendRequest(s, t, ignore, reachable)
<1> SUFFICES IsSent(s, t, ignore, reachable, o)
  OBVIOUS
<1> USE DEF IsSent
<1> DEFINE open == [s EXCEPT !.connected = TRUE]
           asks == [open EXCEPT !.pending = t]
<1>1. /\ open \in SessionType /\ open.app = s.app /\ open.status = s.status
      /\ open.pending = s.pending /\ open.errors = s.errors
  BY DEF SessionType
<1>2. /\ asks \in SessionType /\ asks.app = s.app /\ asks.status = s.status
      /\ asks.pending = t /\ asks.errors = s.errors /\ asks.connected
  BY DEF SessionType
<1>3. "ResponseNotConsumed" \in ClientErrors
  BY DEF ClientErrors
<1>4. CASE ~CanSend(s, reachable)
  BY <1>4 DEF SendRequest, CanSend
<1>5. CASE CanSend(s, reachable) /\ Refuses(s, ignore)
  <2>1. o = [sent |-> FALSE, session |-> Error(open, "ResponseNotConsumed")]
    BY <1>5 DEF SendRequest
  <2> HIDE DEF open
  <2> QED
    BY <1>1, <1>3, <1>5, <2>1, ErrorFacts DEF CanSend, Refuses, HasResponsePending
<1>6. CASE CanSend(s, reachable) /\ ~Refuses(s, ignore)
  <2>1. o = [sent |-> TRUE, session |-> asks]
    BY <1>6 DEF SendRequest
  <2> HIDE DEF open, asks
  <2> QED
    BY <1>2, <1>6, <2>1 DEF CanSend, Refuses, HasResponsePending
<1> QED
  BY <1>4, <1>5, <1>6

\* A wait without a response leaves an error, and a game that works only when that
\* answered the ping.
LostBy(t, P) ==
    /\ t \in SessionType /\ ~Mild(t)
    /\ t.app = "normal" => \E r \in P : t.status = r.status

\* What gives the application up.
LEMMA GivenUpFacts ==
    ASSUME NEW s \in SessionType, NEW a \in AppStates, NEW e \in ClientErrors
    PROVE  LET t == Error([s EXCEPT !.app = a], e) IN
           /\ t \in SessionType /\ t.app = a /\ e \in t.errors
<1> DEFINE t == [s EXCEPT !.app = a]
<1>1. t \in SessionType /\ t.app = a
  BY DEF SessionType
<1> HIDE DEF t
<1>2. /\ Error(t, e) \in SessionType /\ Error(t, e).app = a
      /\ Error(t, e).errors = t.errors \cup {e}
  BY <1>1, ErrorFacts
<1> QED
  BY <1>2 DEF t

LEMMA WaitFails ==
    ASSUME NEW s \in SessionType, NEW P \in SUBSET ResponseType,
           NEW o \in WaitOutcomes(s, {}, P)
    PROVE  LostBy(o.session, P)
<1> DEFINE nothing == ReceiveNothing(BeginWait(s))
           pinging == SendRequest(nothing, "ping", TRUE, TRUE).session
           unanswered == ReceiveNothing(BeginWait(pinging))
<1>1. nothing \in SessionType
  BY BeginWaitFacts, ReceiveNothingType
<1>2. pinging \in SessionType
  <2> HIDE DEF nothing
  <2>1. "ping" \in Types /\ TRUE \in BOOLEAN
    BY TypesAssumption
  <2>2. IsSent(nothing, "ping", TRUE, TRUE, SendRequest(nothing, "ping", TRUE, TRUE))
    BY <1>1, <2>1, SendFacts, Zenon
  <2> QED
    BY <2>2, Zenon DEF IsSent
<1>3. \/ o = [got |-> FALSE, session |-> Crashed(nothing)]
      \/ \E r \in P : o = [got |-> FALSE, session |-> Recovered(BeginWait(pinging), r)]
      \/ \E u \in {nothing, unanswered}, z \in BOOLEAN :
             o = [got |-> FALSE, session |-> Terminated(Unresponsive(u), z)]
  BY Zenon DEF WaitOutcomes
<1> HIDE DEF nothing, pinging
<1>4. unanswered \in SessionType
  BY <1>2, BeginWaitFacts, ReceiveNothingType
<1> HIDE DEF unanswered
<1>5. /\ "crashed" \in AppStates /\ "timeout" \in AppStates /\ "timeout_zombie" \in AppStates
      /\ "SC2AppFailure" \in ClientErrors /\ "SC2ProtocolTimeout" \in ClientErrors
      /\ "SC2UnknownStatus" \in ClientErrors
  BY DEF AppStates, ClientErrors
<1>6. ASSUME o = [got |-> FALSE, session |-> Crashed(nothing)]
      PROVE  LostBy(o.session, P)
  <2> DEFINE t == Error([nothing EXCEPT !.app = "crashed"], "SC2AppFailure")
  <2>1. t \in SessionType /\ t.app = "crashed" /\ "SC2AppFailure" \in t.errors
    BY <1>1, <1>5, GivenUpFacts
  <2>2. o.session = t
    BY <1>6 DEF Crashed
  <2> HIDE DEF t
  <2> QED
    BY <2>1, <2>2 DEF LostBy, Mild
<1>7. ASSUME NEW r \in P, o = [got |-> FALSE, session |-> Recovered(BeginWait(pinging), r)]
      PROVE  LostBy(o.session, P)
  <2> DEFINE c == Receive(BeginWait(pinging), r)
             t == Error(c, "SC2UnknownStatus")
  <2>1. c \in SessionType /\ c.status = r.status
    BY <1>2, BeginWaitFacts, ReceiveFacts
  <2>2. o.session = t
    BY <1>7 DEF Recovered
  <2> HIDE DEF c
  <2>3. t \in SessionType /\ t.status = r.status /\ "SC2UnknownStatus" \in t.errors
    BY <1>5, <2>1, ErrorFacts
  <2> HIDE DEF t
  <2> QED
    BY <2>2, <2>3 DEF LostBy, Mild
<1>8. ASSUME NEW u \in {nothing, unanswered}, NEW z \in BOOLEAN,
             o = [got |-> FALSE, session |-> Terminated(Unresponsive(u), z)]
      PROVE  LostBy(o.session, P)
  <2> DEFINE v == Unresponsive(u)
             a == IF z THEN "timeout_zombie" ELSE "timeout"
             t == Error([v EXCEPT !.app = a], "SC2AppFailure")
  <2>1. v \in SessionType
    BY <1>1, <1>4, <1>5, GivenUpFacts DEF Unresponsive
  <2>2. o.session = t
    BY <1>8 DEF Terminated
  <2>3. a \in AppStates /\ a # "normal"
    BY <1>5
  <2> HIDE DEF v, a
  <2>4. t \in SessionType /\ t.app = a /\ "SC2AppFailure" \in t.errors
    BY <1>5, <2>1, <2>3, GivenUpFacts
  <2> HIDE DEF t
  <2> QED
    BY <2>2, <2>3, <2>4 DEF LostBy, Mild
<1> QED
  BY <1>3, <1>6, <1>7, <1>8

-----------------------------------------------------------------------------
(* What the calls of Clients make of an observer.                           *)

\* A call was made for observer r, if any: the others are as they were.
Same(r) ==
    ses'[r] = ses[r] /\ inst'[r] = inst[r] /\ asked'[r] = asked[r] /\ ready'[r] = ready[r]
Called(r) ==
    /\ ses' \in [Observers -> SessionType]
    /\ inst' \in [Observers -> Games]
    /\ asked' \in [Observers -> Types \cup {"none"}]
    /\ ready' \in [Observers -> ResponseType \cup {NoResponse}]
    /\ \A b \in Observers : b # r => Same(b)

\* A request of type t went out; it did not, because nobody is there or because a
\* response is pending; the response came; it did not.
Sent(r, t) ==
    /\ ses[r].pending = "none" /\ ses'[r].pending = t
    /\ ses'[r].app = ses[r].app /\ ses'[r].status = ses[r].status
    /\ ses'[r].errors = ses[r].errors /\ ses'[r].connected
    /\ asked'[r] = t /\ inst'[r] = inst[r] /\ ready'[r] = ready[r]
Unsent(r) ==
    /\ ses'[r].app = ses[r].app /\ ses'[r].status = ses[r].status
    /\ ses'[r].pending = ses[r].pending
    /\ \/ ses'[r] = ses[r] /\ inst[r] = "dead"
       \/ /\ ses[r].pending # "none"
          /\ ses'[r].errors = ses[r].errors \cup {"ResponseNotConsumed"}
    /\ asked'[r] = asked[r] /\ inst'[r] = inst[r] /\ ready'[r] = ready[r]
Heard(r) ==
    /\ ready[r] # NoResponse /\ ready[r].type = ses[r].pending
    /\ ses'[r].app = ses[r].app /\ ses'[r].status = ready[r].status
    /\ ses'[r].pending = "none" /\ ses'[r].connected = ses[r].connected
    /\ ~ready[r].error => ses'[r].errors = ses[r].errors
    /\ ready[r].error => ~Mild(ses'[r])
    /\ asked'[r] = asked[r] /\ inst'[r] = inst[r] /\ ready'[r] = NoResponse
Unheard(r) ==
    /\ Failures /\ ready[r] = NoResponse /\ ready'[r] = NoResponse
    /\ ~Mild(ses'[r]) /\ asked'[r] = "none" /\ inst'[r] # "none"

LEMMA TypeFacts ==
    ASSUME IInv, NEW r \in Observers
    PROVE  /\ ses[r] \in SessionType /\ inst[r] \in Games
           /\ asked[r] \in Types \cup {"none"}
           /\ ready[r] \in ResponseType \cup {NoResponse}
BY DEF IInv, TypeOK

LEMMA SameClients ==
    ASSUME IInv, UNCHANGED <<ses, game>>
    PROVE  \A r \in Observers : Called(r) /\ Same(r)
BY DEF Called, Same, IInv, TypeOK, game

LEMMA RequestFacts ==
    ASSUME IInv, NEW r \in Observers, NEW t \in Types, Request(r, ses[r], t)
    PROVE  /\ Called(r)
           /\ Outcome(r, ses[r], t).sent \in BOOLEAN
           /\ Outcome(r, ses[r], t).sent => Sent(r, t)
           /\ ~Outcome(r, ses[r], t).sent => Unsent(r)
<1> DEFINE o == Outcome(r, ses[r], t)
<1>1. ses[r] \in SessionType /\ inst[r] \in Games
  BY TypeFacts
<1>2. IsSent(ses[r], t, FALSE, inst[r] # "dead", o)
  <2>1. FALSE \in BOOLEAN /\ (inst[r] # "dead") \in BOOLEAN
    OBVIOUS
  <2>2. IsSent(ses[r], t, FALSE, inst[r] # "dead",
               SendRequest(ses[r], t, FALSE, inst[r] # "dead"))
    BY <1>1, <2>1, SendFacts, Zenon
  <2> QED
    BY <2>2, Zenon DEF Outcome
<1>3. /\ ses' = [ses EXCEPT ![r] = o.session]
      /\ asked' = IF o.sent THEN [asked EXCEPT ![r] = t] ELSE asked
      /\ UNCHANGED <<inst, ready>>
  BY Zenon DEF Request, o
<1> HIDE DEF o
<1>4. Called(r) /\ ses'[r] = o.session
  BY <1>2, <1>3 DEF IsSent, Called, Same, IInv, TypeOK
<1>5. o.sent \in BOOLEAN
  BY <1>2 DEF IsSent
<1>6. ASSUME o.sent PROVE Sent(r, t)
  <2>1. asked'[r] = t
    BY <1>3, <1>6 DEF IInv, TypeOK
  <2> QED
    BY <1>2, <1>3, <1>4, <1>6, <2>1 DEF IsSent, Sent
<1>7. ASSUME ~o.sent PROVE Unsent(r)
  BY <1>2, <1>3, <1>4, <1>7 DEF IsSent, Unsent
<1> QED
  BY <1>4, <1>5, <1>6, <1>7 DEF o

\* Observer r sends a request of type t and goes on at p, or at q if it cannot.
LEMMA AskFacts ==
    ASSUME IInv, NEW r \in Observers, NEW t \in Types, NEW p, NEW q, Ask(r, t, p, q)
    PROVE  /\ Called(r)
           /\ \/ Sent(r, t) /\ Goto(r, p)
              \/ Unsent(r) /\ Goto(r, q)
<1> DEFINE sent == Outcome(r, ses[r], t).sent
<1>1. Request(r, ses[r], t) /\ Goto(r, IF sent THEN p ELSE q)
  BY Zenon DEF Ask
<1>2. Called(r) /\ sent \in BOOLEAN /\ (sent => Sent(r, t)) /\ (~sent => Unsent(r))
  BY <1>1, RequestFacts
<1> HIDE DEF sent
<1>3. (sent => Goto(r, p)) /\ (~sent => Goto(r, q))
  BY <1>1
<1> QED
  BY <1>2, <1>3

LEMMA PongsAreResponses ==
    ASSUME IInv, started, NEW r \in Observers
    PROVE  /\ Pongs(r, Effects(r)) \in SUBSET ResponseType
           /\ \A p \in Pongs(r, Effects(r)) : p.status \in Games \ {"none"}
<1>1. inst[r] \in Games \ {"none"}
  BY TypeFacts DEF IInv, Launched
<1>2. Effects(r) \in SUBSET (Games \ {"none"})
  BY <1>1 DEF Effects, StatesAfter, Games
<1>3. ASSUME NEW p \in Pongs(r, Effects(r))
      PROVE  p \in ResponseType /\ p.status \in Games \ {"none"}
  <2>1. PICK i \in ({inst[r]} \cup Effects(r)) \ Lost :
            p = [type |-> "ping", status |-> i, error |-> FALSE]
    BY <1>3, Zenon DEF Pongs
  <2>2. i \in Games \ {"none"} /\ i \in Statuses
    BY <1>1, <1>2, <2>1 DEF Games, Lost, Statuses
  <2> QED
    BY <2>1, <2>2, TypesAssumption DEF ResponseType
<1> QED
  BY <1>3

LEMMA NoResponseFacts ==
    ASSUME IInv, started, NEW r \in Observers, Failures, NoResponseComes(r, Effects(r))
    PROVE  Called(r) /\ Unheard(r)
<1> DEFINE P == Pongs(r, Effects(r))
<1>1. PICK o \in WaitOutcomes(ses[r], {}, P) :
          /\ ses' = [ses EXCEPT ![r] = o.session]
          /\ \E after \in GameAfter(o.session) : inst' = [inst EXCEPT ![r] = after]
  BY Zenon DEF NoResponseComes
<1>2. /\ ready[r] = NoResponse /\ ready' = ready
      /\ asked' = [asked EXCEPT ![r] = "none"]
  BY DEF NoResponseComes, PollResponse
<1>3. PICK after \in GameAfter(o.session) : inst' = [inst EXCEPT ![r] = after]
  BY <1>1
<1>4. ses[r] \in SessionType /\ P \in SUBSET ResponseType
      /\ \A p \in P : p.status \in Games \ {"none"}
  BY TypeFacts, PongsAreResponses
<1> HIDE DEF P
<1>5. LostBy(o.session, P)
  BY <1>4, WaitFails
<1>6. after \in Games \ {"none"}
  BY <1>4, <1>5 DEF LostBy, GameAfter, Lost, Games, SessionType, AppStates
<1>7. Called(r) /\ ses'[r] = o.session /\ inst'[r] = after /\ asked'[r] = "none"
  BY <1>1, <1>2, <1>3, <1>5, <1>6 DEF Called, Same, LostBy, IInv, TypeOK
<1> QED
  BY <1>2, <1>5, <1>6, <1>7 DEF Unheard, LostBy

LEMMA ResponseFacts ==
    ASSUME IInv, NEW r \in Observers, ResponseComes(r)
    PROVE  Called(r) /\ Heard(r)
<1> DEFINE w == BeginWait(ses[r])
           t == Answered(w, ready[r])
<1>1. /\ ses[r] \in SessionType /\ ready[r] \in ResponseType
      /\ ready[r] # NoResponse /\ ready[r].type = ses[r].pending
  BY TypeFacts DEF ResponseComes, PollResponse, IInv, AnswerOf
<1>2. /\ w \in SessionType /\ w.app = ses[r].app /\ w.pending = ses[r].pending
      /\ w.connected = ses[r].connected /\ w.errors = ses[r].errors
  BY <1>1, BeginWaitFacts
<1>3. ses' = [ses EXCEPT ![r] = t]
  BY DEF ResponseComes, IInv, TypeOK
<1>4. UNCHANGED <<inst, asked>> /\ ready' = [ready EXCEPT ![r] = NoResponse]
  BY DEF ResponseComes
<1> HIDE DEF w
<1>5. TakenFrom(w, ready[r], t)
  BY <1>1, <1>2, AnsweredFacts
<1> HIDE DEF t
<1>6. Called(r) /\ ses'[r] = t /\ ready'[r] = NoResponse
  BY <1>3, <1>4, <1>5 DEF TakenFrom, Called, Same, IInv, TypeOK
<1> QED
  BY <1>1, <1>2, <1>4, <1>5, <1>6 DEF TakenFrom, Heard

LEMMA WaitFacts ==
    ASSUME IInv, started, NEW r \in Observers, Wait(r)
    PROVE  Called(r) /\ (Heard(r) \/ Unheard(r))
BY NoResponseFacts, ResponseFacts DEF Wait

LEMMA LookFacts ==
    ASSUME IInv, NEW r \in Observers, NEW p, NEW q, GetObservation(r, p, q),
           "observation" \in Types
    PROVE  /\ Called(r)
           /\ \/ ses[r].app # "normal" /\ Same(r) /\ Goto(r, q)
              \/ ses[r].app = "normal" /\ Sent(r, "observation") /\ Goto(r, p)
              \/ ses[r].app = "normal" /\ Unsent(r) /\ Goto(r, q)
<1>1. CASE ses[r].app = "normal"
  <2>1. Ask(r, "observation", p, q)
    BY <1>1 DEF GetObservation
  <2> QED
    BY <1>1, <2>1, AskFacts
<1>2. CASE ses[r].app # "normal"
  <2>1. Goto(r, q) /\ UNCHANGED <<ses, game>>
    BY <1>2 DEF GetObservation
  <2> QED
    BY <1>2, <2>1, SameClients
<1> QED
  BY <1>1, <1>2

\* What is called keeps a session sane, and answers in order.
LEMMA CallKeeps ==
    ASSUME IInv, NEW r \in Observers, NEW t \in Types, Called(r),
           Same(r) \/ Sent(r, t) \/ Unsent(r) \/ Heard(r) \/ Unheard(r)
    PROVE  /\ \A b \in Observers : Sane(ses'[b]) /\ AnswerOf(b)'
           /\ started => \A b \in Observers : inst'[b] # "none"
<1>1. ASSUME NEW b \in Observers, Same(b)
      PROVE  Sane(ses'[b]) /\ AnswerOf(b)' /\ (started => inst'[b] # "none")
  BY <1>1 DEF Same, IInv, AnswerOf, Launched
<1>2. /\ Sane(ses[r]) /\ AnswerOf(r)
      /\ started => inst[r] # "none"
      /\ t # "none" /\ NoResponse.type = "none"
  BY TypesAssumption DEF IInv, Launched, NoResponse
<1>3. ready[r] = NoResponse \/ ready[r].type # "none"
  BY TypeFacts, TypesAssumption DEF ResponseType
<1>4. CASE Same(r)
  BY <1>1, <1>4 DEF Called
<1>5. CASE Sent(r, t)
  <2>1. AnswerOf(r)'
    BY <1>2, <1>3, <1>5 DEF Sent, AnswerOf
  <2>2. Sane(ses'[r])
    BY <1>2, <1>5 DEF Sent, Sane
  <2>3. started => inst'[r] # "none"
    BY <1>2, <1>5 DEF Sent
  <2> QED
    BY <1>1, <2>1, <2>2, <2>3 DEF Called
<1>6. CASE Unsent(r)
  <2>1. AnswerOf(r)' /\ (started => inst'[r] # "none")
    BY <1>2, <1>6 DEF Unsent, AnswerOf
  <2>2. Sane(ses'[r])
    BY <1>2, <1>6 DEF Unsent, Sane
  <2> QED
    BY <1>1, <2>1, <2>2 DEF Called
<1>7. CASE Heard(r)
  <2>1. asked[r] = "none"
    BY <1>2, <1>7 DEF Heard, AnswerOf
  <2>2. AnswerOf(r)' /\ (started => inst'[r] # "none")
    BY <1>2, <1>7, <2>1 DEF Heard, AnswerOf
  <2>3. ses'[r].errors = ses[r].errors \/ ses'[r].errors # {}
    BY <1>7 DEF Heard, Mild
  <2>4. Sane(ses'[r])
    BY <1>2, <1>3, <1>7, <2>3 DEF Heard, Sane
  <2> QED
    BY <1>1, <2>2, <2>4 DEF Called
<1>8. CASE Unheard(r)
  <2>1. AnswerOf(r)' /\ inst'[r] # "none"
    BY <1>2, <1>8 DEF Unheard, AnswerOf
  <2>2. Sane(ses'[r])
    BY <1>8 DEF Unheard, Sane, Mild
  <2> QED
    BY <1>1, <2>1, <2>2 DEF Called
<1> QED
  BY <1>4, <1>5, <1>6, <1>7, <1>8

-----------------------------------------------------------------------------
(* The steps of one observer.                                               *)

\* Observer r makes a step in one of the loops of Update: where it is, what it
\* calls, and what it leaves alone.
Moves(r) ==
    /\ phase \in {"parallel", "sequence"} /\ phase' \in {phase, "crashed"}
    /\ pc' \in [Observers -> Pcs]
    /\ \A b \in Observers : b # r => pc'[b] = pc[b]
    /\ PlaceOf(r)'
Calls(r) ==
    /\ Called(r)
    /\ Same(r) \/ (\E t \in Types : Sent(r, t)) \/ Unsent(r) \/ Heard(r) \/ Unheard(r)
Keeps(r) ==
    /\ UNCHANGED <<coordinator, replays, build, info, moved, replay>>
    /\ news' \in [Observers -> News]
    /\ camera' \in [Observers -> BOOLEAN]
    /\ told' \in [Observers -> {"start", "end"}]
    /\ fate' \in [Files -> Fates]
    /\ \A b \in Observers : b # r => camera'[b] = camera[b] /\ told'[b] = told[b]
Steps(r) == Moves(r) /\ Calls(r) /\ Keeps(r)

\* What it does in each place.
Polls(r) ==
    /\ pc[r] = "poll" /\ phase = "parallel" /\ Same(r)
    /\ \/ pc'[r] = "done" /\ Skips(r)
       \/ pc'[r] = "loading" /\ ~Skips(r) /\ HasResponsePending(ses[r])
       \/ pc'[r] = "play" /\ ~Skips(r) /\ ~HasResponsePending(ses[r])
    /\ UNCHANGED <<phase, told, fate, camera>>

Loads(r) ==
    /\ pc[r] = "loading" /\ phase = "parallel"
    /\ \/ Loaded(r) /\ Heard(r) /\ pc'[r] = "firstlook" /\ UNCHANGED fate
       \/ /\ ~Loaded(r) /\ pc'[r] = "play" /\ Becomes(replay[r], "failed")
          /\ Heard(r) \/ Unheard(r)
    /\ UNCHANGED <<phase, told, camera>>

Starts(r) ==
    /\ pc[r] = "starting" /\ phase = "parallel" /\ Same(r)
    /\ pc'[r] = "play" /\ told'[r] = "start" /\ Becomes(replay[r], "started")
    /\ UNCHANGED <<phase, camera>>

\* Request t goes out from place p, and the observer is at q; or not, at z.
Tries(r, t, q, z) ==
    \/ Sent(r, t) /\ pc'[r] = q
    \/ Unsent(r) /\ pc'[r] = z

Plays(r) ==
    /\ pc[r] = "play" /\ phase = "parallel"
    /\ \/ ~IsInGame(ses[r]) /\ Same(r) /\ pc'[r] = "done"
       \/ IsInGame(ses[r]) /\ Realtime /\ Tries(r, "observation", "observe", AfterObservation)
       \/ IsInGame(ses[r]) /\ ~Realtime /\ Tries(r, "step", "step", "step")
    /\ UNCHANGED <<phase, told, fate, camera>>

Looks(r) ==
    /\ phase = "parallel"
    /\ \/ pc[r] = "look" /\ Tries(r, "observation", "observe", AfterObservation)
       \/ pc[r] = "look" /\ ses[r].app # "normal" /\ Same(r) /\ pc'[r] = AfterObservation
       \/ pc[r] = "firstlook" /\ Tries(r, "observation", "looking", "starting")
       \/ pc[r] = "firstlook" /\ ses[r].app # "normal" /\ Same(r) /\ pc'[r] = "starting"
    /\ UNCHANGED <<phase, told, fate, camera>>

\* The waits after which the observer goes on as if the response had come.
Waits(r) ==
    /\ \/ pc[r] = "step" /\ phase = "parallel" /\ pc'[r] \in {"look", AfterObservation}
       \/ pc[r] = "looking" /\ phase = "parallel" /\ pc'[r] = "starting"
       \/ pc[r] = "observe" /\ phase = "parallel" /\ pc'[r] = AfterObservation
       \/ pc[r] = "query" /\ pc'[r] = AfterEvents
       \/ pc[r] = "acting" /\ pc'[r] = AfterActions
    /\ \/ Heard(r) /\ UNCHANGED phase
       \/ Unheard(r)
    /\ UNCHANGED <<told, fate, camera>>

Issues(r) ==
    /\ pc[r] = "events"
    /\ \/ Same(r) /\ pc'[r] = AfterEvents
       \/ "query" \in Asks /\ Tries(r, "query", "query", AfterEvents)
    /\ camera'[r] = camera[r] \/ "obs_action" \in Asks
    /\ UNCHANGED <<phase, told, fate>>

Acts(r) ==
    /\ pc[r] = "actions"
    /\ \/ ~camera[r] /\ Same(r) /\ pc'[r] = AfterActions
       \/ camera[r] /\ Tries(r, "obs_action", "acting", AfterActions)
    /\ ~camera[r] => ~camera'[r]
    /\ UNCHANGED <<phase, told, fate>>

Dangles(r) == /\ pc[r] \in {"events", "actions"} /\ pc'[r] = pc[r]
              /\ phase' = "crashed" /\ Same(r)
              /\ UNCHANGED <<told, fate, camera>>

Ends(r) ==
    /\ pc[r] = "endcheck" /\ phase = "parallel" /\ Same(r) /\ pc'[r] = "done"
    /\ \/ IsInGame(ses[r]) /\ UNCHANGED <<told, fate>>
       \/ ~IsInGame(ses[r]) /\ told'[r] = "end" /\ Becomes(replay[r], "ended")
    /\ UNCHANGED <<phase, camera>>

Does(r) ==
    \/ Polls(r) \/ Loads(r) \/ Starts(r) \/ Plays(r) \/ Looks(r) \/ Waits(r)
    \/ Issues(r) \/ Acts(r) \/ Dangles(r) \/ Ends(r)

\* Where an observer is tells in which loop it is.
LEMMA PhaseOf ==
    ASSUME IInv, NEW r \in Observers, phase # "crashed"
    PROVE  /\ pc[r] \in Running \ {"done"} => phase = "parallel"
           /\ pc[r] \in Calling => phase \in {"parallel", "sequence"}
           /\ pc[r] \in Calling => (MultiThreaded <=> phase = "parallel")
           /\ pc[r] \in Calling /\ phase = "sequence" => r = turn
           /\ phase \in {"parallel", "sequence"} => started
BY DEF IInv, TypeOK, Phases, PlaceOf, Running, Calling, Taking, Resting, Launched

\* The frame of a step to place p.
LEMMA StepFrame ==
    ASSUME IInv, NEW r \in Observers, phase \in {"parallel", "sequence"}, NEW p \in Pcs,
           Goto(r, p), UNCHANGED coordinator,
           p \in Running \cup Calling,
           phase = "parallel" /\ p \in Calling => MultiThreaded,
           phase = "sequence" => r = turn /\ ~MultiThreaded /\ p \in Calling \cup {"done"},
           p = "step" => ~Realtime,
           phase' \in {phase, "crashed"}
    PROVE  Moves(r) /\ pc'[r] = p
<1>1. /\ pc' \in [Observers -> Pcs] /\ pc'[r] = p
      /\ \A b \in Observers : b # r => pc'[b] = pc[b]
  BY DEF Goto, IInv, TypeOK
<1>2. settings' = settings /\ turn' = turn
  BY DEF coordinator
<1>3. PlaceOf(r)
  BY DEF IInv
<1> QED
  BY <1>1, <1>2, <1>3
  DEF Moves, PlaceOf, Resting, Running, Calling, MultiThreaded, Realtime

LEMMA QuietFrame ==
    ASSUME IInv, NEW r \in Observers, UNCHANGED <<coordinator, list, observer, playing>>
    PROVE  Keeps(r) /\ UNCHANGED <<told, fate, camera>>
BY DEF Keeps, IInv, TypeOK, list, observer, playing

LEMMA FateTyped == ASSUME IInv, NEW c \in Fates, NEW f, Becomes(f, c)
                   PROVE  fate' \in [Files -> Fates]
BY DEF IInv, TypeOK, Becomes

LEMMA PollSteps ==
    ASSUME IInv, NEW r \in Observers, phase # "crashed", Poll(r)
    PROVE  Steps(r) /\ Polls(r)
<1> DEFINE p == IF Skips(r) THEN "done"
                ELSE IF HasResponsePending(ses[r]) THEN "loading" ELSE "play"
<1>1. /\ pc[r] = "poll" /\ phase' = phase /\ Goto(r, p)
      /\ UNCHANGED <<coordinator, list, observer, playing>> /\ UNCHANGED <<ses, game>>
  BY DEF Poll
<1>2. phase = "parallel"
  BY <1>1, PhaseOf DEF Running
<1>3. Moves(r) /\ pc'[r] = p
  BY <1>1, <1>2, StepFrame DEF Pcs, Running, Calling
<1>4. Keeps(r) /\ UNCHANGED <<told, fate, camera>> /\ Called(r) /\ Same(r)
  BY <1>1, QuietFrame, SameClients
<1> QED
  BY <1>1, <1>2, <1>3, <1>4 DEF Steps, Calls, Polls

LEMMA WaitForReplaySteps ==
    ASSUME IInv, NEW r \in Observers, phase # "crashed", WaitForReplay(r)
    PROVE  Steps(r) /\ Loads(r)
<1> DEFINE p == IF Loaded(r) THEN "firstlook" ELSE "play"
<1>1. /\ pc[r] = "loading" /\ phase' = phase /\ Goto(r, p) /\ Wait(r)
      /\ UNCHANGED <<coordinator, replays, observer, playing>>
      /\ IF Loaded(r) THEN UNCHANGED fate ELSE Becomes(replay[r], "failed")
  BY DEF WaitForReplay
<1>2. phase = "parallel" /\ started
  BY <1>1, PhaseOf DEF Running
<1>3. Moves(r) /\ pc'[r] = p
  BY <1>1, <1>2, StepFrame DEF Pcs, Running, Calling
<1>4. Called(r) /\ (Heard(r) \/ Unheard(r))
  BY <1>1, <1>2, WaitFacts
<1>5. Loaded(r) => Heard(r)
  BY <1>2, <1>4 DEF Loaded, Gets, Unheard, NoResponse
<1>6. fate' \in [Files -> Fates]
  BY <1>1, FateTyped DEF Fates, IInv, TypeOK
<1>7. Keeps(r) /\ UNCHANGED <<told, camera>>
  BY <1>1, <1>6 DEF Keeps, IInv, TypeOK, observer, playing
<1> QED
  BY <1>1, <1>2, <1>3, <1>4, <1>5, <1>7 DEF Steps, Calls, Loads

LEMMA OnGameStartSteps ==
    ASSUME IInv, NEW r \in Observers, phase # "crashed", OnGameStart(r)
    PROVE  Steps(r) /\ Starts(r)
<1>1. /\ pc[r] = "starting" /\ phase' = phase /\ Goto(r, "play")
      /\ told' = [told EXCEPT ![r] = "start"] /\ Becomes(replay[r], "started")
      /\ UNCHANGED <<coordinator, replays, observer, news, replay>>
      /\ UNCHANGED <<ses, game>>
  BY DEF OnGameStart
<1>2. phase = "parallel"
  BY <1>1, PhaseOf DEF Running
<1>3. Moves(r) /\ pc'[r] = "play"
  BY <1>1, <1>2, StepFrame DEF Pcs, Running, Calling
<1>4. Called(r) /\ Same(r)
  BY <1>1, SameClients
<1>5. fate' \in [Files -> Fates]
  BY <1>1, FateTyped DEF Fates
<1>6. Keeps(r) /\ UNCHANGED camera /\ told'[r] = "start"
  BY <1>1, <1>5 DEF Keeps, IInv, TypeOK, observer
<1> QED
  BY <1>1, <1>2, <1>3, <1>4, <1>6 DEF Steps, Calls, Starts

\* The places the observer r may go to from where it is.
Ahead(r, p) ==
    /\ p \in Running \cup Calling
    /\ phase = "parallel" /\ p \in Calling => MultiThreaded
    /\ phase = "sequence" => r = turn /\ ~MultiThreaded /\ p \in Calling \cup {"done"}
    /\ p = "step" => ~Realtime

LEMMA AheadFrame ==
    ASSUME IInv, NEW r \in Observers, phase \in {"parallel", "sequence"}, NEW p, Ahead(r, p),
           Goto(r, p), UNCHANGED coordinator, phase' \in {phase, "crashed"}
    PROVE  Moves(r) /\ pc'[r] = p
<1>1. p \in Pcs
  BY DEF Ahead, Running, Calling, Pcs
<1> QED
  BY <1>1, StepFrame DEF Ahead

LEMMA PlacesAhead ==
    ASSUME IInv, NEW r \in Observers, phase # "crashed"
    PROVE  /\ pc[r] \in Running \ {"done"} =>
                  /\ phase = "parallel" /\ Ahead(r, AfterObservation)
                  /\ \A p \in {"done", "look", "looking", "observe", "starting"} : Ahead(r, p)
                  /\ ~Realtime => Ahead(r, "step")
           /\ pc[r] \in Calling =>
                  /\ phase \in {"parallel", "sequence"}
                  /\ Ahead(r, AfterEvents) /\ Ahead(r, AfterActions)
                  /\ Ahead(r, "query") /\ Ahead(r, "acting") /\ Ahead(r, pc[r])
BY PhaseOf DEF Ahead, Running, Calling, AfterObservation, AfterEvents, AfterActions

LEMMA Requests ==
    {"replay_info", "start_replay", "step", "observation", "query", "obs_action"} \subseteq Types
BY ReplaysAssumption

LEMMA PlaySteps ==
    ASSUME IInv, NEW r \in Observers, phase # "crashed", Play(r)
    PROVE  Steps(r) /\ Plays(r)
<1>1. /\ pc[r] = "play" /\ phase' = phase
      /\ UNCHANGED <<coordinator, list, observer, playing>>
  BY DEF Play
<1>2. /\ phase = "parallel" /\ Ahead(r, "done") /\ Ahead(r, "observe")
      /\ Ahead(r, AfterObservation) /\ (~Realtime => Ahead(r, "step"))
  BY <1>1, PlacesAhead DEF Running
<1>3. Keeps(r) /\ UNCHANGED <<told, fate, camera>>
  BY <1>1, QuietFrame
<1>4. CASE ~IsInGame(ses[r])
  <2>1. Goto(r, "done") /\ UNCHANGED <<ses, game>>
    BY <1>4 DEF Play, NotPlaying
  <2>2. Moves(r) /\ pc'[r] = "done" /\ Called(r) /\ Same(r)
    BY <1>1, <1>2, <2>1, AheadFrame, SameClients
  <2> QED
    BY <1>1, <1>2, <1>3, <1>4, <2>2 DEF Steps, Calls, Plays
<1>5. CASE IsInGame(ses[r]) /\ Realtime
  <2>1. GetObservation(r, "observe", AfterObservation) /\ ses[r].app = "normal"
    BY <1>5 DEF Play, IsInGame
  <2>2. /\ Called(r)
        /\ \/ Sent(r, "observation") /\ Goto(r, "observe")
           \/ Unsent(r) /\ Goto(r, AfterObservation)
    BY <2>1, LookFacts, Requests
  <2>3. Moves(r) /\ Tries(r, "observation", "observe", AfterObservation)
    BY <1>1, <1>2, <2>2, AheadFrame DEF Tries
  <2> QED
    BY <1>1, <1>2, <1>3, <1>5, <2>2, <2>3, Requests DEF Steps, Calls, Plays
<1>6. CASE IsInGame(ses[r]) /\ ~Realtime
  <2>1. Ask(r, "step", "step", "step")
    BY <1>6 DEF Play
  <2>2. Called(r) /\ (Sent(r, "step") \/ Unsent(r)) /\ Goto(r, "step")
    BY <2>1, AskFacts, Requests
  <2>3. Moves(r) /\ Tries(r, "step", "step", "step")
    BY <1>1, <1>2, <1>6, <2>2, AheadFrame DEF Tries
  <2> QED
    BY <1>1, <1>2, <1>3, <1>6, <2>2, <2>3, Requests DEF Steps, Calls, Plays
<1> QED
  BY <1>4, <1>5, <1>6

LEMMA LookSteps ==
    ASSUME IInv, NEW r \in Observers, phase # "crashed", Look(r)
    PROVE  Steps(r) /\ Looks(r)
<1>1. phase' = phase /\ UNCHANGED <<coordinator, list, observer, playing>>
  BY DEF Look
<1>2. Keeps(r) /\ UNCHANGED <<told, fate, camera>>
  BY <1>1, QuietFrame
<1>3. PICK p \in {"observe", "looking"}, q \in {AfterObservation, "starting"} :
          /\ GetObservation(r, p, q)
          /\ \/ pc[r] = "look" /\ p = "observe" /\ q = AfterObservation
             \/ pc[r] = "firstlook" /\ p = "looking" /\ q = "starting"
  BY DEF Look
<1>4. phase = "parallel" /\ Ahead(r, p) /\ Ahead(r, q)
  BY <1>3, PlacesAhead DEF Running
<1>5. /\ Called(r)
      /\ \/ ses[r].app # "normal" /\ Same(r) /\ Goto(r, q)
         \/ ses[r].app = "normal" /\ Sent(r, "observation") /\ Goto(r, p)
         \/ ses[r].app = "normal" /\ Unsent(r) /\ Goto(r, q)
  BY <1>3, LookFacts, Requests
<1>6. /\ Moves(r)
      /\ \/ ses[r].app # "normal" /\ Same(r) /\ pc'[r] = q
         \/ Tries(r, "observation", p, q)
  BY <1>1, <1>4, <1>5, AheadFrame DEF Tries
<1>7. Calls(r)
  BY <1>5, Requests DEF Calls
<1> QED
  BY <1>1, <1>2, <1>3, <1>4, <1>6, <1>7 DEF Steps, Looks

\* The steps after which the observer goes on, with its response or without.
LEMMA WaitSteps ==
    ASSUME IInv, NEW r \in Observers, phase \in {"parallel", "sequence"}, Wait(r),
           NEW p, Ahead(r, p), Goto(r, p), phase' \in {phase, "crashed"},
           PollResponse(r) => phase' = phase, UNCHANGED coordinator
    PROVE  /\ Moves(r) /\ Calls(r) /\ pc'[r] = p
           /\ \/ Heard(r) /\ UNCHANGED phase
              \/ Unheard(r)
<1>1. started
  BY DEF IInv, Launched, Resting
<1>2. Called(r) /\ (Heard(r) \/ Unheard(r))
  BY <1>1, WaitFacts
<1>3. Moves(r) /\ pc'[r] = p
  BY AheadFrame
<1>4. Heard(r) => phase' = phase
  BY DEF Heard, PollResponse
<1> QED
  BY <1>2, <1>3, <1>4 DEF Calls

LEMMA WaitStepSteps ==
    ASSUME IInv, NEW r \in Observers, phase # "crashed", WaitStep(r)
    PROVE  Steps(r) /\ Waits(r)
<1>1. /\ pc[r] = "step" /\ Wait(r) /\ phase' = phase
      /\ Goto(r, IF Gets(r, "step") THEN "look" ELSE AfterObservation)
      /\ UNCHANGED <<coordinator, list, observer, playing>>
  BY DEF WaitStep
<1>2. PICK p \in {"look", AfterObservation} : Goto(r, p)
  BY <1>1
<1>3. phase = "parallel" /\ Ahead(r, p)
  BY <1>1, <1>2, PlacesAhead DEF Running
<1>4. Keeps(r) /\ UNCHANGED <<told, fate, camera>>
  BY <1>1, QuietFrame
<1>5. /\ Moves(r) /\ Calls(r) /\ pc'[r] = p
      /\ \/ Heard(r) /\ UNCHANGED phase
         \/ Unheard(r)
  BY <1>1, <1>2, <1>3, WaitSteps
<1> QED
  BY <1>1, <1>2, <1>3, <1>4, <1>5 DEF Steps, Waits

LEMMA WaitObservationSteps ==
    ASSUME IInv, NEW r \in Observers, phase # "crashed", WaitObservation(r)
    PROVE  Steps(r) /\ Waits(r)
<1>1. /\ pc[r] \in {"looking", "observe"} /\ Wait(r)
      /\ phase' \in {phase, "crashed"} /\ (PollResponse(r) => phase' = phase)
      /\ Goto(r, IF pc[r] = "looking" THEN "starting" ELSE AfterObservation)
      /\ UNCHANGED <<coordinator, list, observer, replay, told>>
  BY DEF WaitObservation
<1>2. PICK p \in {"starting", AfterObservation} :
          /\ Goto(r, p)
          /\ pc[r] = "looking" => p = "starting"
          /\ pc[r] = "observe" => p = AfterObservation
  BY <1>1
<1>3. phase = "parallel" /\ Ahead(r, p)
  BY <1>1, <1>2, PlacesAhead DEF Running
<1>4. news' \in [Observers -> News]
  BY DEF WaitObservation, NewsAfter, News, IInv, TypeOK
<1>5. Keeps(r) /\ UNCHANGED <<told, fate, camera>>
  BY <1>1, <1>4 DEF Keeps, IInv, TypeOK, list, observer
<1>6. /\ Moves(r) /\ Calls(r) /\ pc'[r] = p
      /\ \/ Heard(r) /\ UNCHANGED phase
         \/ Unheard(r)
  BY <1>1, <1>2, <1>3, WaitSteps
<1> QED
  BY <1>1, <1>2, <1>3, <1>5, <1>6 DEF Steps, Waits

LEMMA LaterWaitSteps ==
    ASSUME IInv, NEW r \in Observers, phase # "crashed", WaitQuery(r) \/ WaitActions(r)
    PROVE  Steps(r) /\ Waits(r)
<1>1. /\ Wait(r) /\ phase' = phase
      /\ \/ pc[r] = "query" /\ Goto(r, AfterEvents)
         \/ pc[r] = "acting" /\ Goto(r, AfterActions)
      /\ UNCHANGED <<coordinator, list, observer, playing>>
  BY DEF WaitQuery, WaitActions
<1>2. PICK p \in {AfterEvents, AfterActions} :
          /\ Goto(r, p)
          /\ \/ pc[r] = "query" /\ p = AfterEvents
             \/ pc[r] = "acting" /\ p = AfterActions
  BY <1>1
<1>3. phase \in {"parallel", "sequence"} /\ Ahead(r, p)
  BY <1>1, <1>2, PlacesAhead DEF Calling
<1>4. Keeps(r) /\ UNCHANGED <<told, fate, camera>>
  BY <1>1, QuietFrame
<1>5. /\ Moves(r) /\ Calls(r) /\ pc'[r] = p
      /\ \/ Heard(r) /\ UNCHANGED phase
         \/ Unheard(r)
  BY <1>1, <1>2, <1>3, WaitSteps
<1> QED
  BY <1>1, <1>2, <1>3, <1>4, <1>5 DEF Steps, Waits

LEMMA IssueEventsSteps ==
    ASSUME IInv, NEW r \in Observers, phase # "crashed", IssueEvents(r)
    PROVE  Steps(r) /\ Issues(r)
<1>1. /\ pc[r] = "events" /\ phase' = phase
      /\ camera' = camera \/ ("obs_action" \in Asks /\ camera' = [camera EXCEPT ![r] = TRUE])
      /\ news' = [news EXCEPT ![r] = IF @ = "none" THEN @ ELSE "issued"]
      /\ UNCHANGED <<coordinator, list, build, info, moved, replay, told>>
  BY DEF IssueEvents
<1>2. phase \in {"parallel", "sequence"} /\ Ahead(r, AfterEvents) /\ Ahead(r, "query")
  BY <1>1, PlacesAhead DEF Calling
<1>3. news' \in [Observers -> News]
  BY <1>1 DEF News, IInv, TypeOK
<1>4. /\ camera' \in [Observers -> BOOLEAN]
      /\ \A b \in Observers : b # r => camera'[b] = camera[b]
      /\ camera'[r] = camera[r] \/ "obs_action" \in Asks
  BY <1>1 DEF IInv, TypeOK
<1>5. Keeps(r) /\ UNCHANGED <<told, fate>>
  BY <1>1, <1>3, <1>4 DEF Keeps, IInv, TypeOK, list
<1>6. CASE Goto(r, AfterEvents) /\ UNCHANGED <<ses, game>>
  <2>1. Moves(r) /\ pc'[r] = AfterEvents /\ Called(r) /\ Same(r)
    BY <1>1, <1>2, <1>6, AheadFrame, SameClients
  <2> QED
    BY <1>1, <1>4, <1>5, <2>1 DEF Steps, Calls, Issues
<1>7. CASE "query" \in Asks /\ Ask(r, "query", "query", AfterEvents)
  <2>1. /\ Called(r)
        /\ \/ Sent(r, "query") /\ Goto(r, "query")
           \/ Unsent(r) /\ Goto(r, AfterEvents)
    BY <1>7, AskFacts, Requests
  <2>2. Moves(r) /\ Tries(r, "query", "query", AfterEvents)
    BY <1>1, <1>2, <2>1, AheadFrame DEF Tries
  <2>3. Calls(r)
    BY <2>1, Requests DEF Calls
  <2> QED
    BY <1>1, <1>4, <1>5, <1>7, <2>2, <2>3 DEF Steps, Issues
<1> QED
  BY <1>6, <1>7 DEF IssueEvents

LEMMA SendActionsSteps ==
    ASSUME IInv, NEW r \in Observers, phase # "crashed", SendActions(r)
    PROVE  Steps(r) /\ Acts(r)
<1> DEFINE sent == Outcome(r, ses[r], "obs_action").sent
<1>1. /\ pc[r] = "actions" /\ phase' = phase
      /\ camera' = [camera EXCEPT ![r] = @ /\ ~sent]
      /\ UNCHANGED <<coordinator, list, build, info, moved, playing>>
  BY DEF SendActions
<1>2. phase \in {"parallel", "sequence"} /\ Ahead(r, AfterActions) /\ Ahead(r, "acting")
  BY <1>1, PlacesAhead DEF Calling
<1> HIDE DEF sent
<1>3. /\ camera' \in [Observers -> BOOLEAN]
      /\ \A b \in Observers : b # r => camera'[b] = camera[b]
      /\ ~camera[r] => ~camera'[r]
  BY <1>1 DEF IInv, TypeOK
<1>4. Keeps(r) /\ UNCHANGED <<told, fate>>
  BY <1>1, <1>3 DEF Keeps, IInv, TypeOK, list, playing
<1>5. CASE ~camera[r]
  <2>1. Goto(r, AfterActions) /\ UNCHANGED <<ses, game>>
    BY <1>5 DEF SendActions
  <2>2. Moves(r) /\ pc'[r] = AfterActions /\ Called(r) /\ Same(r)
    BY <1>1, <1>2, <2>1, AheadFrame, SameClients
  <2> QED
    BY <1>1, <1>3, <1>4, <1>5, <2>2 DEF Steps, Calls, Acts
<1>6. CASE camera[r]
  <2>1. Ask(r, "obs_action", "acting", AfterActions)
    BY <1>6 DEF SendActions
  <2>2. /\ Called(r)
        /\ \/ Sent(r, "obs_action") /\ Goto(r, "acting")
           \/ Unsent(r) /\ Goto(r, AfterActions)
    BY <2>1, AskFacts, Requests
  <2>3. Moves(r) /\ Tries(r, "obs_action", "acting", AfterActions)
    BY <1>1, <1>2, <2>2, AheadFrame DEF Tries
  <2>4. Calls(r)
    BY <2>2, Requests DEF Calls
  <2> QED
    BY <1>1, <1>3, <1>4, <1>6, <2>3, <2>4 DEF Steps, Acts
<1> QED
  BY <1>5, <1>6

LEMMA DanglingActionsSteps ==
    ASSUME IInv, NEW r \in Observers, phase # "crashed", DanglingActions(r)
    PROVE  Steps(r) /\ Dangles(r)
<1>1. /\ pc[r] \in {"events", "actions"} /\ phase' = "crashed"
      /\ UNCHANGED pc /\ UNCHANGED <<coordinator, list, observer, playing>>
      /\ UNCHANGED <<ses, game>>
  BY DEF DanglingActions
<1>2. phase \in {"parallel", "sequence"}
  BY <1>1, PlacesAhead DEF Calling
<1>3. Keeps(r) /\ UNCHANGED <<told, fate, camera>>
  BY <1>1, QuietFrame
<1>4. Moves(r)
  BY <1>1, <1>2 DEF Moves, PlaceOf, Resting, IInv, TypeOK
<1>5. Called(r) /\ Same(r)
  BY <1>1, SameClients
<1> QED
  BY <1>1, <1>3, <1>4, <1>5 DEF Steps, Calls, Dangles

LEMMA EndCheckSteps ==
    ASSUME IInv, NEW r \in Observers, phase # "crashed", EndCheck(r)
    PROVE  Steps(r) /\ Ends(r)
<1>1. /\ pc[r] = "endcheck" /\ phase' = phase /\ Goto(r, "done") /\ EndReplay(r)
      /\ UNCHANGED <<coordinator, replays, observer, news, replay>>
      /\ UNCHANGED <<ses, game>>
  BY DEF EndCheck
<1>2. phase = "parallel" /\ Ahead(r, "done")
  BY <1>1, PlacesAhead DEF Running
<1>3. Moves(r) /\ pc'[r] = "done" /\ Called(r) /\ Same(r)
  BY <1>1, <1>2, AheadFrame, SameClients
<1>4. CASE IsInGame(ses[r])
  <2>1. UNCHANGED <<told, fate>>
    BY <1>1, <1>4 DEF EndReplay
  <2>2. Keeps(r) /\ UNCHANGED camera
    BY <1>1, <2>1 DEF Keeps, IInv, TypeOK, observer
  <2> QED
    BY <1>1, <1>2, <1>3, <1>4, <2>1, <2>2 DEF Steps, Calls, Ends
<1>5. CASE ~IsInGame(ses[r])
  <2>1. told' = [told EXCEPT ![r] = "end"] /\ Becomes(replay[r], "ended")
    BY <1>1, <1>5 DEF EndReplay, OnGameEnd
  <2>2. fate' \in [Files -> Fates]
    BY <2>1, FateTyped DEF Fates
  <2>3. Keeps(r) /\ UNCHANGED camera /\ told'[r] = "end"
    BY <1>1, <2>1, <2>2 DEF Keeps, IInv, TypeOK, observer
  <2> QED
    BY <1>1, <1>2, <1>3, <1>5, <2>1, <2>3 DEF Steps, Calls, Ends
<1> QED
  BY <1>4, <1>5

LEMMA ObserverDoes ==
    ASSUME IInv, NEW r \in Observers, Observer(r)
    PROVE  Steps(r) /\ Does(r)
BY PollSteps, WaitForReplaySteps, OnGameStartSteps, PlaySteps, WaitStepSteps, LookSteps,
   WaitObservationSteps, IssueEventsSteps, LaterWaitSteps, SendActionsSteps,
   DanglingActionsSteps, EndCheckSteps
DEF Observer, Does

\* A step of one observer keeps the places of the others, and all else.
LEMMA ObserverKeeps ==
    ASSUME IInv, NEW r \in Observers, Steps(r)
    PROVE  IInv'
<1>1. /\ phase \in {"parallel", "sequence"} /\ phase' \in {phase, "crashed"}
      /\ UNCHANGED <<settings, turn, updated, started, version>>
      /\ UNCHANGED <<replays, build, info, moved, replay>>
  BY DEF Steps, Moves, Keeps, coordinator
<1>2. Observers' = Observers /\ Files' = Files
  BY <1>1 DEF Observers, N, Files
<1>3. TypeOK'
  BY <1>1, <1>2 DEF Steps, Moves, Keeps, Calls, Called, IInv, TypeOK, Phases
<1>4. started /\ started'
  BY <1>1 DEF IInv, Launched, Resting
<1>5. PICK t \in Types : Same(r) \/ Sent(r, t) \/ Unsent(r) \/ Heard(r) \/ Unheard(r)
  BY Requests DEF Steps, Calls
<1>6. /\ \A b \in Observers : Sane(ses'[b]) /\ AnswerOf(b)'
      /\ \A b \in Observers : inst'[b] # "none"
  BY <1>4, <1>5, CallKeeps DEF Steps, Calls
<1>7. Taken' /\ Launched' /\ GoesOnWithEveryObserver'
  BY <1>1, <1>2, <1>4, <1>6 DEF Taken, Launched, GoesOnWithEveryObserver
<1>8. ASSUME NEW b \in Observers PROVE PlaceOf(b)'
  <2>1. CASE b = r
    BY <2>1 DEF Steps, Moves
  <2>2. CASE b # r
    BY <1>1, <2>2 DEF Steps, Moves, IInv, PlaceOf, Resting, MultiThreaded, Realtime
  <2> QED
    BY <2>1, <2>2
<1> QED
  BY <1>2, <1>3, <1>6, <1>7, <1>8 DEF IInv

-----------------------------------------------------------------------------
(* The steps of the program's thread.                                       *)

\* It is somewhere an invariant allows.
Placed ==
    /\ phase' \in Phases /\ turn' \in Observers /\ pc' \in [Observers -> Pcs]
    /\ \A b \in Observers : PlaceOf(b)'
    /\ Taken'

Answers == \A b \in Observers : Sane(ses'[b]) /\ AnswerOf(b)'

LEMMA ObserverCount == ASSUME IInv PROVE N \in Nat \ {0} /\ 1 \in Observers
<1>1. settings.observers \in 1..MaxObservers
  BY ReplaysAssumption DEF IInv, TypeOK, SettingsType
<1> QED
  BY <1>1, ReplaysAssumption DEF N, Observers

\* A step after the games were launched.
LEMMA ThreadKeeps ==
    ASSUME IInv, TypeOK', Placed, Answers, started, UNCHANGED <<settings, started>>,
           phase' # "idle", \A b \in Observers : inst'[b] # "none"
    PROVE  IInv'
<1>1. Observers' = Observers
  BY DEF Observers, N
<1> QED
  BY <1>1 DEF IInv, Placed, Answers, Launched, GoesOnWithEveryObserver

LEMMA SameAnswers ==
    ASSUME IInv, UNCHANGED <<ses, game>>
    PROVE  /\ Answers
           /\ started => \A b \in Observers : inst'[b] # "none"
BY DEF Answers, IInv, AnswerOf, Launched, game

LEMMA UpdateKeeps == ASSUME IInv, Update PROVE IInv'
<1>1. /\ phase = "idle" /\ UNCHANGED <<coordinator, list, observer, playing>>
      /\ UNCHANGED <<ses, game>>
  BY DEF Update
<1>2. settings' = settings /\ started' = started /\ turn' = turn
  BY <1>1 DEF coordinator
<1>3. Answers /\ (started => \A b \in Observers : inst'[b] # "none")
  BY <1>1, SameAnswers
<1>4. CASE started
  <2>1. phase' = "parallel" /\ pc' = [b \in Observers |-> "poll"]
    BY <1>4 DEF Update
  <2>2. Placed
    BY <1>2, <2>1
    DEF Placed, PlaceOf, Taken, Phases, Pcs, Resting, Running, Calling, IInv, TypeOK
  <2>3. TypeOK'
    BY <1>1, <2>2
    DEF IInv, TypeOK, Placed, coordinator, list, observer, playing, game, Observers, N, Files
  <2> QED
    BY <1>2, <1>3, <1>4, <2>1, <2>2, <2>3, ThreadKeeps
<1>5. CASE ~started
  <2>1. phase' = "available" /\ pc' = pc
    BY <1>5 DEF Update
  <2>2. Placed
    BY <1>1, <1>2, <2>1 DEF Placed, PlaceOf, Taken, Phases, Resting, IInv, TypeOK
  <2>3. TypeOK'
    BY <1>1, <2>2
    DEF IInv, TypeOK, Placed, coordinator, list, observer, playing, game, Observers, N, Files
  <2>4. Observers' = Observers
    BY <1>2 DEF Observers, N
  <2>5. Launched'
    BY <1>1, <1>2, <1>5, <2>1, <2>4
    DEF IInv, Launched, Unlaunched, Resting, playing, game
  <2> QED
    BY <1>3, <2>1, <2>2, <2>3, <2>4, <2>5 DEF IInv, Placed, Answers, GoesOnWithEveryObserver
<1> QED
  BY <1>4, <1>5

LEMMA VisitPlaces ==
    ASSUME IInv, phase \in {"parallel", "sequence"}, phase' = "sequence", ~MultiThreaded,
           turn' \in Observers, Visit(turn'), \A b \in Observers : pc[b] = "done",
           settings' = settings
    PROVE  Placed
<1>1. /\ pc' \in [Observers -> Pcs] /\ pc'[turn'] \in {"events", "done"}
      /\ \A b \in Observers : b # turn' => pc'[b] = "done"
  BY DEF Visit, Goto, Pcs, IInv, TypeOK
<1> QED
  BY <1>1 DEF Placed, PlaceOf, Taken, Phases, Resting, Running, Calling, MultiThreaded

LEMMA SecondLoopKeeps ==
    ASSUME IInv, BeginSecondLoop \/ NextObserver
    PROVE  IInv'
<1>1. /\ phase \in {"parallel", "sequence"} /\ phase' = "sequence"
      /\ UNCHANGED <<settings, updated, started, version, list, observer, playing, ses, game>>
      /\ Visit(turn')
  BY DEF BeginSecondLoop, NextObserver
<1>2. ~MultiThreaded /\ \A b \in Observers : pc[b] = "done"
  <2>1. CASE BeginSecondLoop
    BY <2>1 DEF BeginSecondLoop, HasSecondLoop, AllDone
  <2>2. CASE NextObserver
    <3>1. phase = "sequence" /\ pc[turn] = "done" /\ turn \in Observers
      BY <2>2 DEF NextObserver, IInv, TypeOK
    <3> QED
      BY <3>1 DEF IInv, PlaceOf
  <2> QED
    BY <2>1, <2>2
<1>3. turn' \in Observers
  <2>1. N \in Nat \ {0} /\ turn \in 1..N
    BY ObserverCount DEF IInv, TypeOK, Observers
  <2> QED
    BY <2>1 DEF BeginSecondLoop, NextObserver, HasLater, Observers
<1>4. Placed
  BY <1>1, <1>2, <1>3, VisitPlaces
<1>5. TypeOK'
  BY <1>1, <1>4 DEF IInv, TypeOK, Placed, list, observer, playing, game, Observers, N, Files
<1>6. started /\ Answers /\ \A b \in Observers : inst'[b] # "none"
  BY <1>1, SameAnswers DEF IInv, Launched, Resting
<1> QED
  BY <1>1, <1>4, <1>5, <1>6, ThreadKeeps

LEMMA EndSteppingKeeps == ASSUME IInv, EndStepping PROVE IInv'
<1>1. /\ phase \in {"parallel", "sequence"} /\ phase' = "available"
      /\ UNCHANGED <<coordinator, pc, list, observer, playing, ses, game>>
  BY DEF EndStepping
<1>2. \A b \in Observers : pc[b] = "done"
  BY DEF EndStepping, AllDone, IInv, PlaceOf
<1>3. Placed
  BY <1>1, <1>2 DEF Placed, PlaceOf, Taken, Phases, Resting, IInv, TypeOK, coordinator
<1>4. TypeOK'
  BY <1>1, <1>3
  DEF IInv, TypeOK, Placed, coordinator, list, observer, playing, game, Observers, N, Files
<1>5. started /\ Answers /\ \A b \in Observers : inst'[b] # "none"
  BY <1>1, SameAnswers DEF IInv, Launched, Resting
<1> QED
  BY <1>1, <1>3, <1>4, <1>5, ThreadKeeps DEF coordinator

\* A new ControlImp.
LEMMA ConnectsFacts ==
    ASSUME NEW s \in Connects
    PROVE  /\ s \in SessionType /\ Sane(s) /\ s.app = "normal" /\ ~IsInGame(s)
           /\ s.pending \in {"none", "ping"} /\ s.status \in {"unknown", "launched"}
           /\ "ResponseNotConsumed" \notin s.errors
           /\ s.errors = {} => s.pending = "none"
           /\ s.connected => s.pending = "none" /\ s.status = "launched"
           /\ ~Failures => s.connected /\ s.errors = {}
<1>1. /\ s \in ConnectOutcomes({"launched"})
      /\ ~Failures => s.connected /\ s.errors = {}
  BY DEF Connects
<1>2. PICK e \in {{}, {"ConnectionClosed"}} :
          \/ s = [NewSession EXCEPT !.status = "launched", !.connected = TRUE, !.errors = e]
          \/ s = NewSession
          \/ s = [NewSession EXCEPT !.pending = "ping", !.errors = {"ConnectionClosed"}]
  BY <1>1 DEF ConnectOutcomes
<1>3. /\ s.app = "normal"
      /\ \/ s.status = "launched" /\ s.connected /\ s.errors = e /\ s.pending = "none"
         \/ s.status = "unknown" /\ s.errors = {} /\ s.pending = "none" /\ ~s.connected
         \/ /\ s.status = "unknown" /\ s.errors = {"ConnectionClosed"}
            /\ s.pending = "ping" /\ ~s.connected
  <2>1. CASE s = [NewSession EXCEPT !.status = "launched", !.connected = TRUE, !.errors = e]
    BY <2>1 DEF NewSession
  <2>2. CASE s = NewSession
    BY <2>2 DEF NewSession
  <2>3. CASE s = [NewSession EXCEPT !.pending = "ping", !.errors = {"ConnectionClosed"}]
    BY <2>3 DEF NewSession
  <2> QED
    BY <1>2, <2>1, <2>2, <2>3
<1>4. s \in SessionType
  <2>1. /\ "normal" \in AppStates /\ {"unknown", "launched"} \subseteq Statuses
        /\ "ConnectionClosed" \in ClientErrors /\ "ping" \in Types
    BY TypesAssumption DEF AppStates, Statuses, ClientErrors
  <2>2. NewSession \in SessionType
    BY <2>1 DEF NewSession, SessionType
  <2>3. e \in SUBSET ClientErrors
    BY <1>2, <2>1
  <2> QED
    BY <1>2, <2>1, <2>2, <2>3 DEF SessionType
<1> QED
  BY <1>1, <1>2, <1>3, <1>4 DEF Sane, IsInGame

LEMMA BeginStartReplayKeeps == ASSUME IInv, BeginStartReplay PROVE IInv'
<1>1. /\ phase = "available" /\ UNCHANGED <<settings, updated, version, list, info, moved, camera>>
      /\ UNCHANGED <<playing, asked, ready>>
  BY DEF BeginStartReplay
<1>2. Observers' = Observers /\ Files' = Files
  BY <1>1 DEF Observers, N, Files
<1>3. \A b \in Observers : pc[b] = "done"
  BY <1>1 DEF IInv, PlaceOf, Resting
<1>4. CASE phase' = "errors" /\ UNCHANGED <<turn, pc, ses, inst, build, started>>
  <2>1. Placed
    BY <1>1, <1>3, <1>4 DEF Placed, PlaceOf, Taken, Phases, Resting, IInv, TypeOK
  <2>2. TypeOK'
    BY <1>1, <1>2, <1>4, <2>1 DEF IInv, TypeOK, Placed, list, playing
  <2>3. Answers
    BY <1>1, <1>4 DEF Answers, IInv, AnswerOf
  <2>4. Launched'
    BY <1>1, <1>2, <1>4 DEF IInv, Launched, Unlaunched, Resting, playing
  <2> QED
    BY <1>2, <1>4, <2>1, <2>2, <2>3, <2>4 DEF IInv, Placed, Answers, GoesOnWithEveryObserver
<1>5. CASE /\ IF started THEN UNCHANGED <<ses, inst, build, started>> ELSE LaunchProcesses
           /\ phase' = "start" /\ turn' = 1 /\ Goto(1, "ready")
  <2>1. /\ pc' \in [Observers -> Pcs] /\ pc'[1] = "ready"
        /\ \A b \in Observers : b # 1 => pc'[b] = "done"
    BY <1>3, <1>5, ObserverCount DEF Goto, Pcs, IInv, TypeOK
  <2>2. Placed
    BY <1>5, <2>1, ObserverCount DEF Placed, PlaceOf, Taken, Phases, Resting, Taking
  <2>3. CASE started
    <3>1. UNCHANGED <<ses, inst, build, started>>
      BY <1>5, <2>3
    <3>2. TypeOK'
      BY <1>1, <1>2, <2>2, <3>1 DEF IInv, TypeOK, Placed, list, playing
    <3>3. Answers /\ \A b \in Observers : inst'[b] # "none"
      BY <1>1, <2>3, <3>1 DEF Answers, IInv, AnswerOf, Launched
    <3> QED
      BY <1>1, <1>5, <2>2, <2>3, <3>1, <3>2, <3>3, ThreadKeeps
  <2>4. CASE ~started
    <3>1. /\ ses' \in [Observers -> Connects]
          /\ inst' = [r \in Observers |-> "launched"]
          /\ build' = [r \in Observers |-> version] /\ started' = TRUE
      BY <1>5, <2>4 DEF LaunchProcesses
    <3>2. /\ ses' \in [Observers -> SessionType]
          /\ \A b \in Observers : Sane(ses'[b])
      BY <3>1, ConnectsFacts
    <3>3. \A b \in Observers : asked'[b] = "none" /\ ready'[b] = NoResponse
      BY <1>1, <2>4 DEF IInv, Launched, Unlaunched
    <3>4. TypeOK'
      <4>1. /\ inst' \in [Observers -> Games] /\ started' \in BOOLEAN
            /\ build' \in [Observers -> Versions \cup {"none"}]
        BY <3>1 DEF IInv, TypeOK, Games
      <4> QED
        BY <1>1, <1>2, <2>2, <3>2, <4>1 DEF IInv, TypeOK, Placed, list, playing
    <3>5. Answers /\ Launched'
      BY <1>2, <3>1, <3>2, <3>3 DEF Answers, AnswerOf, NoResponse, Launched
    <3> QED
      BY <1>2, <1>5, <2>2, <3>4, <3>5 DEF IInv, Placed, Answers, GoesOnWithEveryObserver
  <2> QED
    BY <2>3, <2>4
<1> QED
  BY <1>4, <1>5 DEF BeginStartReplay

\* The thread is in StartReplay, with the observer whose turn it is.
LEMMA StartFacts ==
    ASSUME IInv, phase # "crashed", pc[turn] \in Taking
    PROVE  /\ phase = "start" /\ started /\ turn \in Observers /\ turn \in Nat
           /\ \A b \in Observers : b # turn => pc[b] = "done"
<1>1. turn \in Observers
  BY DEF IInv, TypeOK
<1>2. turn \in Nat
  BY <1>1, ObserverCount DEF Observers
<1>3. phase = "start" \/ phase = "exited"
  BY <1>1 DEF IInv, TypeOK, Phases, PlaceOf, Running, Calling, Taking, Resting
<1>4. phase = "start"
  BY <1>1, <1>3 DEF IInv, PlaceOf, Resting, Taking
<1> QED
  BY <1>1, <1>2, <1>4 DEF IInv, PlaceOf, Launched, Resting

\* The observers after NextAvailable: none has begun, or the next one has.
GoesToNext ==
    /\ pc' \in [Observers -> Pcs]
    /\ \/ /\ HasLater /\ phase' = "start" /\ turn' = turn + 1 /\ turn' \in Observers
          /\ pc'[turn'] = "ready" /\ \A b \in Observers : b # turn' => pc'[b] = "done"
       \/ /\ ~HasLater /\ phase' = "errors" /\ turn' = turn
          /\ \A b \in Observers : pc'[b] = "done"

LEMMA NextAvailableFacts ==
    ASSUME IInv, phase = "start", pc[turn] \in Taking, NextAvailable
    PROVE  GoesToNext
<1>1. /\ turn \in Observers /\ turn \in Nat /\ \A b \in Observers : b # turn => pc[b] = "done"
  BY StartFacts
<1> DEFINE left == [pc EXCEPT ![turn] = "done"]
<1>2. /\ left \in [Observers -> Pcs] /\ \A b \in Observers : left[b] = "done"
      /\ \A p : [pc EXCEPT ![turn] = "done", ![turn + 1] = p] = [left EXCEPT ![turn + 1] = p]
  BY <1>1 DEF Pcs, IInv, TypeOK
<1> HIDE DEF left
<1>3. CASE HasLater
  <2>1. pc' = [left EXCEPT ![turn + 1] = "ready"] /\ turn' = turn + 1 /\ phase' = phase
    BY <1>2, <1>3 DEF NextAvailable
  <2>2. turn + 1 \in Observers
    BY <1>1, <1>3, ObserverCount DEF HasLater, Observers
  <2> QED
    BY <1>2, <1>3, <2>1, <2>2 DEF GoesToNext, Pcs
<1>4. CASE ~HasLater
  <2>1. pc' = left /\ phase' = "errors" /\ turn' = turn
    BY <1>4 DEF NextAvailable, Goto, left
  <2> QED
    BY <1>2, <1>4, <2>1 DEF GoesToNext
<1> QED
  BY <1>3, <1>4

\* The observer stays in its turn, at place p.
GoesTo(p) ==
    /\ pc' \in [Observers -> Pcs] /\ phase' = "start" /\ turn' = turn
    /\ pc'[turn] = p /\ \A b \in Observers : b # turn => pc'[b] = "done"

LEMMA GotoFacts ==
    ASSUME IInv, phase = "start", pc[turn] \in Taking, NEW p \in Taking, Goto(turn, p),
           phase' = phase, turn' = turn
    PROVE  GoesTo(p)
BY StartFacts DEF GoesTo, Goto, Taking, Pcs, IInv, TypeOK

LEMMA StartPlaces ==
    ASSUME IInv, turn \in Observers, settings' = settings,
           \/ GoesToNext
           \/ \E p \in Taking : /\ GoesTo(p)
                                /\ p \in {"gathering", "gathered"} => replays' # 0
    PROVE  Placed /\ phase' # "idle"
<1>1. CASE GoesToNext
  BY <1>1 DEF GoesToNext, Placed, PlaceOf, Taken, Phases, Resting, Taking
<1>2. ASSUME NEW p \in Taking, GoesTo(p), p \in {"gathering", "gathered"} => replays' # 0
      PROVE  Placed /\ phase' # "idle"
  BY <1>2 DEF GoesTo, Placed, PlaceOf, Taken, Phases, Resting, Taking
<1> QED
  BY <1>1, <1>2

\* What each step of StartReplay leaves alone, and what it does.
StartKeeps ==
    /\ phase = "start" /\ phase' # "idle" /\ pc[turn] \in Taking /\ turn \in Observers
    /\ UNCHANGED <<settings, updated, started, build, moved, camera, news, told>>
    /\ Called(turn)
    /\ info' \in [Observers -> {0} \cup Files] /\ replay' \in [Observers -> {0} \cup Files]
    /\ replays' \in {0} \cup Files /\ fate' \in [Files -> Fates] /\ version' \in Versions
    /\ \A b \in Observers : b # turn => info'[b] = info[b] /\ replay'[b] = replay[b]

Considers ==
    /\ pc[turn] = "ready" /\ Same(turn)
    /\ \/ IsReadyForCreateGame(ses[turn]) /\ GoesTo("gather")
       \/ ~IsReadyForCreateGame(ses[turn]) /\ GoesToNext
    /\ UNCHANGED <<info, replay, replays, fate, version>>

FindsNone ==
    /\ pc[turn] = "gather" /\ replays = 0 /\ Same(turn) /\ GoesToNext
    /\ UNCHANGED <<info, replay, replays, fate, version>>

Inquires ==
    /\ pc[turn] = "gather" /\ replays # 0
    /\ \/ Sent(turn, "replay_info") /\ GoesTo("gathering")
       \/ Unsent(turn) /\ GoesTo("gathered")
    /\ UNCHANGED <<info, replay, replays, fate, version>>

Learns ==
    /\ pc[turn] = "gathering" /\ GoesTo("gathered") /\ (Heard(turn) \/ Unheard(turn))
    /\ \/ Gets(turn, "replay_info") /\ info'[turn] = replays
       \/ ~Gets(turn, "replay_info") /\ info'[turn] = info[turn]
    /\ UNCHANGED <<replay, replays, fate, version>>

PassesOver ==
    /\ pc[turn] = "gathered" /\ Ignored /\ Same(turn) /\ GoesTo("gather")
    /\ replays # 0 /\ replays' = replays - 1 /\ Becomes(replays, "ignored")
    /\ UNCHANGED <<info, replay, version>>

LeavesToAnother ==
    /\ pc[turn] = "gathered" /\ ~Ignored /\ ShouldRelaunch /\ GoesToNext
    /\ ses'[turn] = Error(ses[turn], "WrongGameVersion")
    /\ inst'[turn] = inst[turn] /\ asked'[turn] = asked[turn] /\ ready'[turn] = ready[turn]
    /\ UNCHANGED <<info, replay, replays, fate>>

PutsOn ==
    /\ pc[turn] = "gathered" /\ ~Ignored /\ ~ShouldRelaunch
    /\ replays # 0 /\ replays' = replays - 1
    /\ \/ /\ Sent(turn, "start_replay") /\ Becomes(replays, "sent") /\ GoesToNext
          /\ replay'[turn] = replays
       \/ /\ Unsent(turn) /\ Becomes(replays, "refused") /\ GoesTo("gather")
          /\ replay'[turn] = replay[turn]
    /\ UNCHANGED <<info, version>>

StartDoes ==
    \/ Considers \/ FindsNone \/ Inquires \/ Learns \/ PassesOver \/ LeavesToAnother \/ PutsOn

LEMMA StartSame ==
    ASSUME IInv, UNCHANGED <<ses, game>>
    PROVE  \A b \in Observers : Called(b) /\ Same(b)
BY SameClients

LEMMA ConsidersStep ==
    ASSUME IInv, phase = "start", TakeObserver \/ NoReplays
    PROVE  StartKeeps /\ (Considers \/ FindsNone)
<1>1. pc[turn] \in Taking /\ turn \in Observers
  BY StartFacts DEF TakeObserver, NoReplays, Taking, IInv, TypeOK
<1>2. /\ UNCHANGED <<settings, updated, started, version, list, observer, playing>>
      /\ UNCHANGED <<ses, game>>
  BY DEF TakeObserver, NoReplays
<1>3. Called(turn) /\ Same(turn)
  BY <1>1, <1>2, StartSame
<1>4. CASE TakeObserver
  <2>1. CASE IsReadyForCreateGame(ses[turn])
    <3>1. Goto(turn, "gather") /\ phase' = phase /\ turn' = turn
      BY <1>4, <2>1 DEF TakeObserver
    <3>2. GoesTo("gather")
      BY <1>1, <3>1, GotoFacts DEF Taking
    <3> QED
      BY <1>1, <1>2, <1>3, <1>4, <2>1, <3>1, <3>2
      DEF StartKeeps, Considers, TakeObserver, IInv, TypeOK, list, observer, playing
  <2>2. CASE ~IsReadyForCreateGame(ses[turn])
    <3>1. NextAvailable
      BY <1>4, <2>2 DEF TakeObserver
    <3>2. GoesToNext
      BY <1>1, <3>1, NextAvailableFacts
    <3>3. phase' # "idle"
      BY <3>2 DEF GoesToNext
    <3> QED
      BY <1>1, <1>2, <1>3, <1>4, <2>2, <3>2, <3>3
      DEF StartKeeps, Considers, TakeObserver, IInv, TypeOK, list, observer, playing
  <2> QED
    BY <2>1, <2>2
<1>5. CASE NoReplays
  <2>1. GoesToNext /\ phase' # "idle"
    BY <1>1, <1>5, NextAvailableFacts DEF NoReplays, GoesToNext
  <2> QED
    BY <1>1, <1>2, <1>3, <1>5, <2>1
    DEF StartKeeps, FindsNone, NoReplays, IInv, TypeOK, list, observer, playing
<1> QED
  BY <1>4, <1>5

LEMMA InquiresStep ==
    ASSUME IInv, phase = "start", GatherReplayInfo
    PROVE  StartKeeps /\ Inquires
<1>1. pc[turn] \in Taking /\ turn \in Observers
  BY DEF GatherReplayInfo, Taking, IInv, TypeOK
<1>2. /\ pc[turn] = "gather" /\ replays # 0 /\ phase' = phase
      /\ Ask(turn, "replay_info", "gathering", "gathered")
      /\ UNCHANGED <<coordinator, list, observer, playing>>
  BY DEF GatherReplayInfo
<1>3. /\ Called(turn)
      /\ \/ Sent(turn, "replay_info") /\ Goto(turn, "gathering")
         \/ Unsent(turn) /\ Goto(turn, "gathered")
  BY <1>1, <1>2, AskFacts, Requests
<1>4. turn' = turn
  BY <1>2 DEF coordinator
<1>5. \/ Sent(turn, "replay_info") /\ GoesTo("gathering")
      \/ Unsent(turn) /\ GoesTo("gathered")
  BY <1>1, <1>2, <1>3, <1>4, GotoFacts DEF Taking
<1> QED
  BY <1>1, <1>2, <1>3, <1>5
  DEF StartKeeps, Inquires, IInv, TypeOK, coordinator, list, observer, playing

LEMMA LearnsStep ==
    ASSUME IInv, phase = "start", WaitReplayInfo
    PROVE  StartKeeps /\ Learns
<1>1. pc[turn] \in Taking /\ turn \in Observers /\ started
  BY DEF WaitReplayInfo, Taking, IInv, TypeOK, Launched, Resting
<1>2. /\ pc[turn] = "gathering" /\ Wait(turn) /\ Goto(turn, "gathered") /\ phase' = phase
      /\ info' = IF Gets(turn, "replay_info") THEN [info EXCEPT ![turn] = replays] ELSE info
      /\ UNCHANGED <<coordinator, list, build, moved, camera, playing>>
  BY DEF WaitReplayInfo, Gathered
<1>3. Called(turn) /\ (Heard(turn) \/ Unheard(turn))
  BY <1>1, <1>2, WaitFacts
<1>4. GoesTo("gathered")
  BY <1>1, <1>2, GotoFacts DEF Taking, coordinator
<1>5. /\ info' \in [Observers -> {0} \cup Files]
      /\ \A b \in Observers : b # turn => info'[b] = info[b]
      /\ Gets(turn, "replay_info") => info'[turn] = replays
      /\ ~Gets(turn, "replay_info") => info'[turn] = info[turn]
  BY <1>1, <1>2 DEF IInv, TypeOK
<1> QED
  BY <1>1, <1>2, <1>3, <1>4, <1>5
  DEF StartKeeps, Learns, IInv, TypeOK, coordinator, list, playing

\* The replay at the back of the list is taken off it.
LEMMA TakenOff ==
    ASSUME IInv, replays # 0
    PROVE  replays \in Files /\ replays \in Nat /\ replays - 1 \in {0} \cup Files
<1>1. replays \in 1..Len(settings.files)
  BY DEF IInv, TypeOK, Files
<1>2. Len(settings.files) \in Nat
  BY ReplaysAssumption DEF IInv, TypeOK, SettingsType
<1> QED
  BY <1>1, <1>2 DEF Files

LEMMA PassesOverStep ==
    ASSUME IInv, phase = "start", IgnoreReplay
    PROVE  StartKeeps /\ PassesOver
<1>1. pc[turn] \in Taking /\ turn \in Observers
  BY DEF IgnoreReplay, Taking, IInv, TypeOK
<1>2. /\ pc[turn] = "gathered" /\ Ignored /\ phase' = phase /\ replays' = replays - 1
      /\ Becomes(replays, "ignored") /\ Goto(turn, "gather")
      /\ UNCHANGED <<coordinator, observer, playing>> /\ UNCHANGED <<ses, game>>
  BY DEF IgnoreReplay
<1>3. replays # 0
  BY <1>1, <1>2 DEF IInv, Taken
<1>4. replays' \in {0} \cup Files
  BY <1>2, <1>3, TakenOff
<1>5. fate' \in [Files -> Fates]
  BY <1>2, FateTyped DEF Fates
<1>6. GoesTo("gather")
  BY <1>1, <1>2, GotoFacts DEF Taking, coordinator
<1>7. Called(turn) /\ Same(turn)
  BY <1>1, <1>2, StartSame
<1> QED
  BY <1>1, <1>2, <1>3, <1>4, <1>5, <1>6, <1>7
  DEF StartKeeps, PassesOver, IInv, TypeOK, coordinator, observer, playing

LEMMA LeavesStep ==
    ASSUME IInv, phase = "start", WrongGameVersion
    PROVE  StartKeeps /\ LeavesToAnother
<1>1. pc[turn] \in Taking /\ turn \in Observers
  BY DEF WrongGameVersion, Taking, IInv, TypeOK
<1> DEFINE t == Error(ses[turn], "WrongGameVersion")
<1>2. /\ pc[turn] = "gathered" /\ ~Ignored /\ ShouldRelaunch
      /\ version' = FindBaseExe /\ replays' = replays /\ NextAvailable
      /\ ses' = [ses EXCEPT ![turn] = t]
      /\ UNCHANGED <<settings, updated, started, fate, observer, playing, game>>
  BY DEF WrongGameVersion, StaysListed
<1>3. version' \in Versions
  BY <1>2, ReplaysAssumption DEF ShouldRelaunch, FindBaseExe
<1>4. t \in SessionType
  BY <1>1, TypeFacts, ErrorFacts DEF ClientErrors
<1>5. GoesToNext /\ phase' # "idle"
  BY <1>1, <1>2, NextAvailableFacts DEF GoesToNext
<1> HIDE DEF t
<1>6. Called(turn) /\ ses'[turn] = t
  BY <1>1, <1>2, <1>4 DEF Called, Same, IInv, TypeOK, game
<1> QED
  BY <1>1, <1>2, <1>3, <1>5, <1>6
  DEF StartKeeps, LeavesToAnother, IInv, TypeOK, observer, playing, game, t

LEMMA PutsOnStep ==
    ASSUME IInv, phase = "start", LoadReplay
    PROVE  StartKeeps /\ PutsOn
<1>1. pc[turn] \in Taking /\ turn \in Observers
  BY DEF LoadReplay, Taking, IInv, TypeOK
<1> DEFINE sent == Outcome(turn, ses[turn], "start_replay").sent
<1>2. /\ pc[turn] = "gathered" /\ ~Ignored /\ ~ShouldRelaunch
      /\ Request(turn, ses[turn], "start_replay") /\ replays' = replays - 1
      /\ UNCHANGED <<settings, updated, started, version, observer, news, told>>
  BY DEF LoadReplay
<1>3. \/ /\ sent /\ Becomes(replays, "sent") /\ NextAvailable
         /\ replay' = [replay EXCEPT ![turn] = replays]
      \/ /\ ~sent /\ Becomes(replays, "refused") /\ Goto(turn, "gather")
         /\ UNCHANGED <<replay, phase, turn>>
  BY DEF LoadReplay
<1>4. Called(turn) /\ (sent => Sent(turn, "start_replay")) /\ (~sent => Unsent(turn))
  BY <1>1, <1>2, RequestFacts, Requests
<1> HIDE DEF sent
<1>5. replays # 0
  BY <1>1, <1>2 DEF IInv, Taken
<1>6. replays' \in {0} \cup Files /\ replays \in Files
  BY <1>2, <1>5, TakenOff
<1>7. fate' \in [Files -> Fates]
  BY <1>3, FateTyped DEF Fates
<1>8. CASE sent
  <2>1. GoesToNext /\ phase' # "idle"
    BY <1>1, <1>3, <1>8, NextAvailableFacts DEF GoesToNext
  <2>2. /\ replay' \in [Observers -> {0} \cup Files] /\ replay'[turn] = replays
        /\ \A b \in Observers : b # turn => replay'[b] = replay[b]
    BY <1>1, <1>3, <1>6, <1>8 DEF IInv, TypeOK
  <2> QED
    BY <1>1, <1>2, <1>3, <1>4, <1>5, <1>6, <1>7, <1>8, <2>1, <2>2
    DEF StartKeeps, PutsOn, IInv, TypeOK, observer
<1>9. CASE ~sent
  <2>1. GoesTo("gather") /\ UNCHANGED replay /\ phase' = phase
    BY <1>1, <1>3, <1>9, GotoFacts DEF Taking
  <2> QED
    BY <1>1, <1>2, <1>3, <1>4, <1>5, <1>6, <1>7, <1>9, <2>1
    DEF StartKeeps, PutsOn, IInv, TypeOK, observer
<1> QED
  BY <1>8, <1>9

LEMMA StartReplayDoes ==
    ASSUME IInv, phase # "crashed", StartReplay
    PROVE  StartKeeps /\ StartDoes
<1>1. phase = "start"
  BY DEF StartReplay
<1> QED
  BY <1>1, ConsidersStep, InquiresStep, LearnsStep, PassesOverStep, LeavesStep, PutsOnStep
  DEF StartReplay, StartDoes

LEMMA StartReplayKeeps ==
    ASSUME IInv, StartKeeps, StartDoes
    PROVE  IInv'
<1>1. /\ phase = "start" /\ turn \in Observers /\ settings' = settings /\ started' = started
      /\ UNCHANGED <<updated, build, moved, camera, news, told>> /\ Called(turn)
      /\ phase' # "idle"
  BY DEF StartKeeps
<1>2. Observers' = Observers /\ Files' = Files /\ started
  BY <1>1 DEF Observers, N, Files, IInv, Launched, Resting
<1>3. \/ GoesToNext
      \/ \E p \in Taking : GoesTo(p) /\ (p \in {"gathering", "gathered"} => replays' # 0)
  <2>1. pc[turn] = "gathering" => replays # 0
    BY <1>1 DEF IInv, Taken
  <2> QED
    BY <2>1
    DEF StartDoes, Considers, FindsNone, Inquires, Learns, PassesOver, LeavesToAnother,
        PutsOn, Taking
<1>4. Placed
  BY <1>1, <1>3, StartPlaces
<1>5. TypeOK'
  BY <1>1, <1>2, <1>4 DEF StartKeeps, Called, Placed, IInv, TypeOK
<1>6. Answers /\ \A b \in Observers : inst'[b] # "none"
  <2>1. CASE \/ Same(turn) \/ (\E t \in Types : Sent(turn, t)) \/ Unsent(turn)
             \/ Heard(turn) \/ Unheard(turn)
    BY <1>1, <1>2, <2>1, CallKeeps, Requests DEF Answers
  <2>2. CASE LeavesToAnother
    <3>1. PICK r \in Observers : r = turn
      BY <1>1
    <3>2. /\ ses'[r].pending = ses[r].pending /\ ses'[r].app = ses[r].app
          /\ ses'[r].errors # {}
          /\ inst'[r] = inst[r] /\ asked'[r] = asked[r] /\ ready'[r] = ready[r]
      <4>1. "WrongGameVersion" \in ClientErrors /\ ses[r] \in SessionType
        BY TypeFacts DEF ClientErrors
      <4> QED
        BY <2>2, <3>1, <4>1, ErrorFacts DEF LeavesToAnother
    <3>3. Sane(ses'[r])
      BY <3>2 DEF Sane
    <3>4. AnswerOf(r)' /\ inst'[r] # "none"
      BY <1>2, <3>2 DEF IInv, AnswerOf, Launched
    <3>5. ASSUME NEW b \in Observers, b # r
          PROVE  Sane(ses'[b]) /\ AnswerOf(b)' /\ inst'[b] # "none"
      BY <1>1, <1>2, <3>1, <3>5 DEF Called, Same, IInv, AnswerOf, Launched
    <3> QED
      BY <3>3, <3>4, <3>5 DEF Answers
  <2> QED
    BY <2>1, <2>2, Requests
    DEF StartDoes, Considers, FindsNone, Inquires, Learns, PassesOver, PutsOn
<1> QED
  BY <1>1, <1>2, <1>4, <1>5, <1>6, ThreadKeeps

\* CheckErrors relaunches the observers of R, those of S with success.
Fresh(b) ==
    /\ ses'[b] \in Connects /\ inst'[b] = "launched"
    /\ asked'[b] = "none" /\ ready'[b] = NoResponse
    /\ build'[b] = version /\ replay'[b] = 0
Relaunches(R, S) ==
    /\ phase = "errors" /\ phase' = "idle"
    /\ UNCHANGED <<settings, turn, started, version, pc, list, info, camera, told>>
    /\ R = IF Recovery THEN Failed ELSE {}
    /\ S = {b \in R : ses'[b].connected}
    /\ updated' \in BOOLEAN
    /\ updated' <=> (~ErrorOccurred(S) /\ (~AllGamesEnded(ses') \/ S # {}))
    /\ \A b \in R : Fresh(b)
    /\ \A b \in Observers \ R : Same(b) /\ build'[b] = build[b] /\ replay'[b] = replay[b]
    /\ ses' \in [Observers -> SessionType]
    /\ inst' \in [Observers -> Games]
    /\ asked' \in [Observers -> Types \cup {"none"}]
    /\ ready' \in [Observers -> ResponseType \cup {NoResponse}]
    /\ build' \in [Observers -> Versions \cup {"none"}]
    /\ moved' \in [Observers -> BOOLEAN]
    /\ news' \in [Observers -> News]
    /\ replay' \in [Observers -> {0} \cup Files]

\* What Instead makes of a value for each observer.
IsInstead(v, R, x, old, X) ==
    /\ v \in [Observers -> X]
    /\ \A b \in R : v[b] = x
    /\ \A b \in Observers \ R : v[b] = old[b]

LEMMA InsteadFacts ==
    ASSUME NEW R \in SUBSET Observers, NEW X, NEW x \in X, NEW old \in [Observers -> X]
    PROVE  IsInstead(Instead(R, x, old), R, x, old, X)
BY DEF Instead, IsInstead

LEMMA CheckErrorsDoes ==
    ASSUME IInv, CheckErrors
    PROVE  \E R \in SUBSET Observers, S \in SUBSET Observers : Relaunches(R, S)
<1> DEFINE R == IF Recovery THEN Failed ELSE {}
<1>1. PICK new \in [R -> Connects] :
          LET s == [r \in Observers |-> IF r \in R THEN new[r] ELSE ses[r]]
              relaunched == {r \in R : s[r].connected}
          IN  /\ Relaunch(R, s)
              /\ updated' = (/\ ~ErrorOccurred(relaunched)
                             /\ ~AllGamesEnded(s) \/ relaunched # {})
  BY DEF CheckErrors
<1>2. /\ phase = "errors" /\ phase' = "idle"
      /\ UNCHANGED <<settings, turn, started, version, pc, list, info, camera, told>>
  BY DEF CheckErrors
<1>3. R \in SUBSET Observers /\ R = IF Recovery THEN Failed ELSE {}
  BY DEF Failed
<1> HIDE DEF R
<1> DEFINE s == [r \in Observers |-> IF r \in R THEN new[r] ELSE ses[r]]
           S == {b \in R : s[b].connected}
<1>4. /\ Relaunch(R, s)
      /\ updated' = (/\ ~ErrorOccurred(S)
                     /\ ~AllGamesEnded(s) \/ S # {})
  BY <1>1
<1>5. S \in SUBSET Observers
  BY <1>3
<1>6. /\ \A b \in R : s[b] \in Connects
      /\ \A b \in Observers \ R : s[b] = ses[b]
  BY <1>1, <1>3
<1>7. s \in [Observers -> SessionType]
  <2>1. \A b \in Observers : ses[b] \in SessionType
    BY TypeFacts
  <2>2. \A b \in R : new[b] \in SessionType
    BY <1>1, ConnectsFacts
  <2> QED
    BY <2>1, <2>2
<1> HIDE DEF s
<1>8. /\ ses' = s
      /\ inst' = Instead(R, "launched", inst) /\ asked' = Instead(R, "none", asked)
      /\ ready' = Instead(R, NoResponse, ready) /\ build' = Instead(R, version, build)
      /\ moved' = Instead(R, TRUE, moved) /\ news' = Instead(R, "none", news)
      /\ replay' = Instead(R, 0, replay)
  BY <1>4 DEF Relaunch
<1>9. /\ "launched" \in Games /\ "none" \in Types \cup {"none"}
      /\ NoResponse \in ResponseType \cup {NoResponse}
      /\ version \in Versions \cup {"none"} /\ TRUE \in BOOLEAN /\ "none" \in News
      /\ 0 \in {0} \cup Files
  BY DEF Games, News, IInv, TypeOK
<1>10. /\ inst \in [Observers -> Games] /\ asked \in [Observers -> Types \cup {"none"}]
       /\ ready \in [Observers -> ResponseType \cup {NoResponse}]
       /\ build \in [Observers -> Versions \cup {"none"}]
       /\ moved \in [Observers -> BOOLEAN] /\ news \in [Observers -> News]
       /\ replay \in [Observers -> {0} \cup Files]
  BY DEF IInv, TypeOK
<1>11. /\ IsInstead(inst', R, "launched", inst, Games)
       /\ IsInstead(asked', R, "none", asked, Types \cup {"none"})
  <2>1. IsInstead(Instead(R, "launched", inst), R, "launched", inst, Games)
    BY <1>3, <1>9, <1>10, InsteadFacts, Zenon
  <2>2. IsInstead(Instead(R, "none", asked), R, "none", asked, Types \cup {"none"})
    BY <1>3, <1>9, <1>10, InsteadFacts, Zenon
  <2> QED
    BY <1>8, <2>1, <2>2, Zenon
<1>12. /\ IsInstead(ready', R, NoResponse, ready, ResponseType \cup {NoResponse})
       /\ IsInstead(build', R, version, build, Versions \cup {"none"})
  <2>1. IsInstead(Instead(R, NoResponse, ready), R, NoResponse, ready,
                  ResponseType \cup {NoResponse})
    BY <1>3, <1>9, <1>10, InsteadFacts, Zenon
  <2>2. IsInstead(Instead(R, version, build), R, version, build, Versions \cup {"none"})
    BY <1>3, <1>9, <1>10, InsteadFacts, Zenon
  <2> QED
    BY <1>8, <2>1, <2>2, Zenon
<1>13. /\ IsInstead(moved', R, TRUE, moved, BOOLEAN)
       /\ IsInstead(news', R, "none", news, News)
  <2>1. IsInstead(Instead(R, TRUE, moved), R, TRUE, moved, BOOLEAN)
    BY <1>3, <1>9, <1>10, InsteadFacts, Zenon
  <2>2. IsInstead(Instead(R, "none", news), R, "none", news, News)
    BY <1>3, <1>9, <1>10, InsteadFacts, Zenon
  <2> QED
    BY <1>8, <2>1, <2>2, Zenon
<1>14. IsInstead(replay', R, 0, replay, {0} \cup Files)
  <2>1. IsInstead(Instead(R, 0, replay), R, 0, replay, {0} \cup Files)
    BY <1>3, <1>9, <1>10, InsteadFacts, Zenon
  <2> QED
    BY <1>8, <2>1, Zenon
<1>15. S = {b \in R : ses'[b].connected}
  BY <1>8
<1> HIDE DEF S
<1>16. /\ \A b \in R : Fresh(b)
       /\ \A b \in Observers \ R : Same(b) /\ build'[b] = build[b] /\ replay'[b] = replay[b]
  BY <1>6, <1>8, <1>11, <1>12, <1>14 DEF Fresh, Same, IsInstead
<1>17. updated' \in BOOLEAN
  BY <1>4, Zenon
<1>18. updated' <=> (~ErrorOccurred(S) /\ (~AllGamesEnded(ses') \/ S # {}))
  BY <1>4, <1>8
<1>19. Relaunches(R, S)
  BY <1>2, <1>3, <1>7, <1>8, <1>11, <1>12, <1>13, <1>14, <1>15, <1>16, <1>17, <1>18
  DEF Relaunches, IsInstead
<1> QED
  BY <1>3, <1>5, <1>19

LEMMA CheckErrorsKeeps ==
    ASSUME IInv, NEW R \in SUBSET Observers, NEW S \in SUBSET Observers, Relaunches(R, S)
    PROVE  IInv'
<1>1. /\ phase = "errors" /\ phase' = "idle" /\ R \subseteq Failed
      /\ UNCHANGED <<settings, turn, started, version, pc, list, info, camera, told>>
  BY DEF Relaunches
<1>2. Observers' = Observers /\ Files' = Files
  BY <1>1 DEF Observers, N, Files
<1>3. Placed
  BY <1>1 DEF Placed, Phases, PlaceOf, Taken, Resting, IInv, TypeOK, MultiThreaded, Realtime
<1>4. updated' \in BOOLEAN
  BY DEF Relaunches
<1>5. TypeOK'
  BY <1>1, <1>2, <1>3, <1>4 DEF Relaunches, Placed, IInv, TypeOK, list
<1>6. /\ \A b \in R : /\ Sane(ses'[b]) /\ ses'[b].app = "normal"
                      /\ inst'[b] = "launched" /\ asked'[b] = "none" /\ ready'[b] = NoResponse
      /\ \A b \in Observers \ R : Same(b) /\ replay'[b] = replay[b]
  BY ConnectsFacts DEF Relaunches, Fresh
<1>7. Answers
  BY <1>6 DEF Answers, Same, IInv, AnswerOf, NoResponse
<1>8. Launched'
  <2>1. CASE started
    BY <1>1, <1>2, <1>6, <2>1 DEF IInv, Launched, Same
  <2>2. CASE ~started
    <3>1. R = {}
      BY <1>1, <2>2 DEF Failed, IInv, Launched, Unlaunched, NewSession
    <3> QED
      BY <1>1, <1>2, <1>6, <2>2, <3>1 DEF IInv, Launched, Unlaunched, Resting, Same
  <2> QED
    BY <2>1, <2>2
<1>9. GoesOnWithEveryObserver'
  <2> SUFFICES ASSUME updated', N = 1 \/ ~Recovery, NEW b \in Observers
               PROVE  ses'[b].app = "normal" /\ (N = 1 => ses'[b].connected)
    BY <1>1, <1>2 DEF GoesOnWithEveryObserver, N, Recovery
  <2>1. /\ ~ErrorOccurred(S) /\ (~AllGamesEnded(ses') \/ S # {})
        /\ R = IF Recovery THEN Failed ELSE {}
        /\ S = {r \in R : ses'[r].connected}
    BY DEF Relaunches
  <2>2. CASE R = {}
    <3>1. S = {} /\ Failed = {}
      BY <2>1, <2>2 DEF ErrorOccurred
    <3>2. /\ Same(b) /\ ses[b].errors = {} /\ Sane(ses'[b])
          /\ ~AllGamesEnded(ses')
      BY <1>6, <1>7, <2>1, <2>2, <3>1 DEF Failed, Answers
    <3>3. ses'[b].app = "normal" /\ ses'[b].errors = {}
      BY <3>2 DEF Same, Sane
    <3>4. ASSUME N = 1
          PROVE  ses'[b].connected
      <4>1. Observers = {b}
        BY <3>4 DEF Observers
      <4>2. IsInGame(ses'[b]) \/ HasResponsePending(ses'[b])
        BY <3>2, <4>1 DEF AllGamesEnded
      <4> QED
        BY <3>2, <3>3, <4>2 DEF Sane, HasResponsePending
    <3> QED
      BY <3>3, <3>4
  <2>3. CASE R # {}
    <3>1. Observers = {b} /\ R = {b}
      <4>1. N = 1
        BY <2>1, <2>3
      <4>2. Observers = {b}
        BY <4>1 DEF Observers
      <4> QED
        BY <2>3, <4>2
    <3>2. S # {}
      BY <1>1, <2>1, <3>1 DEF ErrorOccurred
    <3> QED
      BY <1>6, <2>1, <3>1, <3>2
  <2> QED
    BY <2>2, <2>3
<1> QED
  BY <1>2, <1>3, <1>5, <1>7, <1>8, <1>9 DEF IInv, Placed, Answers

-----------------------------------------------------------------------------
(* The other steps, and the invariant.                                      *)

\* The game of observer r answers; the replay of observer r ends by itself.
Replies(r) ==
    /\ asked[r] # "none" /\ asked'[r] = "none" /\ inst[r] \notin Lost
    /\ inst'[r] \in Effects(r) \ (Lost \cup {"none"}) /\ ready[r] = NoResponse
    /\ ready'[r] = [type |-> asked[r], status |-> inst'[r], error |-> ~Valid(r, asked[r])]
    /\ ses'[r] = ses[r]
RunsOut(r) ==
    /\ Realtime /\ inst[r] = "in_replay" /\ inst'[r] = "ended"
    /\ ses'[r] = ses[r] /\ asked'[r] = asked[r] /\ ready'[r] = ready[r]
GameKeeps == UNCHANGED <<coordinator, phase, pc, list, observer, playing, ses>>

LEMMA AnswerDoes ==
    ASSUME IInv, NEW r \in Observers, Answer(r)
    PROVE  Called(r) /\ Replies(r) /\ GameKeeps /\ ready'[r] # NoResponse
<1>1. /\ asked[r] # "none" /\ inst[r] \notin Lost /\ asked' = [asked EXCEPT ![r] = "none"]
      /\ GameKeeps
  BY DEF Answer, GameKeeps
<1>2. PICK after \in Effects(r) :
          /\ inst' = [inst EXCEPT ![r] = after]
          /\ ready' = [ready EXCEPT ![r] =
                           [type |-> asked[r], status |-> after, error |-> ~Valid(r, asked[r])]]
  BY DEF Answer
<1>3. started
  BY <1>1 DEF IInv, Launched, Unlaunched
<1>4. /\ inst[r] \in Games \ {"none"} /\ asked[r] \in Types /\ ready[r] = NoResponse
  BY <1>1, <1>3, TypeFacts DEF IInv, Launched, AnswerOf
<1>5. after \in Games \ (Lost \cup {"none"}) /\ after \in Statuses
  BY <1>1, <1>2, <1>4 DEF Effects, StatesAfter, Games, Lost, Statuses
<1> DEFINE e == ~Valid(r, asked[r])
<1>6. e \in BOOLEAN
  BY Zenon
<1> HIDE DEF e
<1> DEFINE p == [type |-> asked[r], status |-> after, error |-> e]
<1>7. p \in ResponseType /\ p.type = asked[r] /\ p # NoResponse
  BY <1>4, <1>5, <1>6, TypesAssumption DEF ResponseType, NoResponse
<1>8. ready' = [ready EXCEPT ![r] = p]
  BY <1>2 DEF e
<1>9. p = [type |-> asked[r], status |-> after, error |-> ~Valid(r, asked[r])]
  BY DEF e
<1> HIDE DEF p
<1>10. /\ ready'[r] = p /\ inst'[r] = after /\ asked'[r] = "none" /\ ses' = ses
       /\ Called(r)
  BY <1>1, <1>2, <1>5, <1>7, <1>8 DEF Called, Same, IInv, TypeOK, GameKeeps
<1> QED
  BY <1>1, <1>2, <1>4, <1>5, <1>7, <1>9, <1>10 DEF Replies

LEMMA ReplayOverDoes ==
    ASSUME IInv, NEW r \in Observers, ReplayOver(r)
    PROVE  Called(r) /\ RunsOut(r) /\ GameKeeps
BY DEF ReplayOver, Called, Same, RunsOut, GameKeeps, IInv, TypeOK, Games

LEMMA GameStepKeeps ==
    ASSUME IInv, NEW r \in Observers, Called(r), Replies(r) \/ RunsOut(r), GameKeeps
    PROVE  IInv'
<1>1. UNCHANGED <<settings, turn, updated, started, version, phase, pc, ses>>
      /\ UNCHANGED <<replays, fate, build, info, moved, camera, news, replay, told>>
  BY DEF GameKeeps, coordinator, list, observer, playing
<1>2. Observers' = Observers /\ Files' = Files
  BY <1>1 DEF Observers, N, Files
<1>3. TypeOK'
  BY <1>1, <1>2 DEF Called, IInv, TypeOK
<1>4. Taken' /\ GoesOnWithEveryObserver' /\ \A b \in Observers : PlaceOf(b)' /\ Sane(ses'[b])
  BY <1>1, <1>2
  DEF IInv, Taken, GoesOnWithEveryObserver, N, Recovery, PlaceOf, MultiThreaded, Realtime
<1>5. started /\ inst'[r] # "none"
  BY DEF Replies, RunsOut, IInv, Launched, Unlaunched
<1>6. Launched'
  BY <1>1, <1>2, <1>5 DEF Called, Same, IInv, Launched
<1>7. AnswerOf(r)'
  <2>1. CASE Replies(r)
    <3>1. asked[r] = "replay_info" => Valid(r, asked[r])
      BY DEF Valid
    <3>2. /\ ready'[r].type = asked[r] /\ asked'[r] = "none"
          /\ ready'[r].error <=> ~Valid(r, asked[r])
      <4> DEFINE e == ~Valid(r, asked[r])
      <4>1. /\ ready'[r] = [type |-> asked[r], status |-> inst'[r], error |-> e]
            /\ asked'[r] = "none"
        BY <2>1 DEF Replies
      <4> HIDE DEF e
      <4>2. ready'[r].type = asked[r] /\ (ready'[r].error <=> e)
        BY <4>1
      <4> QED
        BY <4>1, <4>2 DEF e
    <3>3. ses'[r].pending = asked[r]
      BY <1>1, <2>1 DEF Replies, IInv, AnswerOf
    <3> QED
      BY <3>1, <3>2, <3>3 DEF AnswerOf
  <2>2. CASE RunsOut(r)
    BY <2>2 DEF RunsOut, IInv, AnswerOf
  <2> QED
    BY <2>1, <2>2
<1>8. ASSUME NEW b \in Observers, b # r PROVE AnswerOf(b)'
  BY <1>8 DEF Called, Same, IInv, AnswerOf
<1> QED
  BY <1>2, <1>3, <1>4, <1>6, <1>7, <1>8 DEF IInv

\* The program ends, or nothing happens.
LEMMA ExitKeeps ==
    ASSUME IInv, Exit \/ UNCHANGED vars
    PROVE  IInv'
<1>1. /\ UNCHANGED <<coordinator, pc, list, observer, playing, ses, game>>
      /\ \/ phase' = phase
         \/ phase \in {"idle", "exited"} /\ phase' = "exited"
         \/ phase = "crashed" /\ phase' = "crashed"
  BY DEF Exit, vars
<1>2. settings' = settings /\ started' = started /\ turn' = turn /\ updated' = updated
  BY <1>1 DEF coordinator
<1>3. Observers' = Observers /\ Files' = Files
  BY <1>2 DEF Observers, N, Files
<1>4. Placed
  BY <1>1, <1>2, <1>3
  DEF Placed, PlaceOf, Taken, Phases, Resting, IInv, TypeOK, MultiThreaded, Realtime, list
<1>5. TypeOK'
  BY <1>1, <1>3, <1>4
  DEF IInv, TypeOK, Placed, coordinator, list, observer, playing, game
<1>6. Answers
  BY <1>1, SameAnswers
<1>7. Launched' /\ GoesOnWithEveryObserver'
  BY <1>1, <1>2, <1>3
  DEF IInv, Launched, Unlaunched, Resting, GoesOnWithEveryObserver, N, Recovery, game, playing
<1> QED
  BY <1>3, <1>4, <1>5, <1>6, <1>7 DEF IInv, Placed, Answers

LEMMA InitIInv == Init => IInv
<1> SUFFICES ASSUME Init PROVE IInv
  OBVIOUS
<1>1. /\ N \in Nat \ {0} /\ Len(settings.files) \in Nat /\ settings.version \in Versions
  <2>1. settings \in SettingsType
    BY ReplaysAssumption DEF Init
  <2>2. settings.observers \in 1..MaxObservers
    BY <2>1 DEF SettingsType
  <2>3. settings.files \in Seq(FileType) /\ settings.version \in Versions
    BY <2>1 DEF SettingsType
  <2> QED
    BY <2>2, <2>3, ReplaysAssumption DEF N
<1>2. 1 \in Observers /\ Len(settings.files) \in {0} \cup Files
  BY <1>1 DEF Observers, Files
<1>3. NewSession \in SessionType
  BY DEF NewSession, SessionType, AppStates, Statuses
<1>4. TypeOK
  BY <1>1, <1>2, <1>3
  DEF Init, TypeOK, Phases, Pcs, News, Fates, Games
<1>5. ASSUME NEW r \in Observers PROVE PlaceOf(r) /\ Sane(ses[r]) /\ AnswerOf(r)
  <2>1. /\ ses[r] = NewSession /\ pc[r] = "done" /\ phase = "idle"
        /\ asked[r] = "none" /\ ready[r] = NoResponse
    BY DEF Init
  <2>2. Sane(NewSession)
    BY DEF Sane, NewSession, IsInGame
  <2> QED
    BY <2>1, <2>2 DEF PlaceOf, AnswerOf, NoResponse, Resting
<1>6. Taken /\ Launched /\ GoesOnWithEveryObserver
  BY DEF Init, Taken, Launched, Unlaunched, Resting, GoesOnWithEveryObserver
<1> QED
  BY <1>4, <1>5, <1>6 DEF IInv

LEMMA NextKeepsIInv == IInv /\ [Next]_vars => IInv'
<1> SUFFICES ASSUME IInv, [Next]_vars PROVE IInv'
  OBVIOUS
<1>1. CASE Update
  BY <1>1, UpdateKeeps
<1>2. CASE BeginSecondLoop \/ NextObserver
  BY <1>2, SecondLoopKeeps
<1>3. CASE EndStepping
  BY <1>3, EndSteppingKeeps
<1>4. CASE BeginStartReplay
  BY <1>4, BeginStartReplayKeeps
<1>5. CASE StartReplay
  BY <1>5, StartReplayDoes, StartReplayKeeps DEF StartReplay
<1>6. CASE CheckErrors
  BY <1>6, CheckErrorsDoes, CheckErrorsKeeps
<1>7. CASE Exit \/ UNCHANGED vars
  BY <1>7, ExitKeeps
<1>8. ASSUME NEW r \in Observers, Observer(r) PROVE IInv'
  BY <1>8, ObserverDoes, ObserverKeeps
<1>9. ASSUME NEW r \in Observers, Answer(r) \/ ReplayOver(r) PROVE IInv'
  BY <1>9, AnswerDoes, ReplayOverDoes, GameStepKeeps
<1> QED
  BY <1>1, <1>2, <1>3, <1>4, <1>5, <1>6, <1>7, <1>8, <1>9 DEF Next, Run

\* The invariant holds in every reachable state.
THEOREM Invariance == Spec => []IInv
<1>1. Init => IInv
  BY InitIInv
<1>2. IInv /\ [Next]_vars => IInv'
  BY NextKeepsIInv
<1> QED
  BY <1>1, <1>2, PTL DEF Spec

\* Every variable has its type: a session belongs to an observer, a place to the
\* loop, and a replay in play to the list.
THEOREM TypeCorrect == Spec => []TypeOK
<1>1. IInv => TypeOK
  BY DEF IInv
<1> QED
  BY <1>1, Invariance, PTL

\* Update returns true only when every observer can go on: a game that was given
\* up ends the loop or is replaced by one that is connected (one observer, or no
\* recovery).
THEOREM GoesOnWithEveryObserverAlways == Spec => []GoesOnWithEveryObserver
<1>1. IInv => GoesOnWithEveryObserver
  BY DEF IInv
<1> QED
  BY <1>1, Invariance, PTL

-----------------------------------------------------------------------------
(* All the steps there are, as the proofs below take them.                  *)

\* The thread passes from one loop to another: no observer changes but for where it
\* is.
AllSame ==
    UNCHANGED <<settings, updated, started, version, replays, fate, build, info, camera,
                replay, told, ses, inst, asked, ready>>

\* The observer whose turn it is begins at p; the others are done.
Turns(p) ==
    /\ turn' \in Observers /\ pc'[turn'] = p
    /\ \A b \in Observers : b # turn' => pc'[b] = "done"

Goes ==
    \/ /\ phase = "idle" /\ updated /\ started /\ phase' = "parallel"
       /\ \A b \in Observers : pc'[b] = "poll"
    \/ phase = "idle" /\ updated /\ ~started /\ phase' = "available" /\ pc' = pc
    \/ /\ phase \in {"parallel", "sequence"} /\ phase' = "sequence"
       /\ ~MultiThreaded /\ (phase = "parallel" \/ N > 1)
       /\ Turns("events") \/ Turns("done")
    \/ phase \in {"parallel", "sequence"} /\ phase' = "available" /\ pc' = pc
    \/ /\ phase = "available" /\ phase' = "errors" /\ pc' = pc
       /\ replays # 0 => \A b \in Observers : IsInGame(ses[b])
    \/ /\ phase = "available" /\ phase' = "start" /\ started /\ replays # 0
       /\ turn' = 1 /\ Turns("ready")

Passes ==
    /\ AllSame /\ Goes
    /\ \A b \in Observers : pc[b] = "done"

Launches ==
    /\ phase = "available" /\ phase' = "start" /\ ~started /\ replays # 0
    /\ turn' = 1 /\ Turns("ready")
    /\ UNCHANGED <<settings, updated, version, replays, fate, info, camera, told>>
    /\ \A b \in Observers : pc[b] = "done" /\ Unlaunched(b) /\ Fresh(b)

Stops ==
    /\ AllSame /\ pc' = pc /\ turn' = turn
    /\ phase' = phase \/ (phase \in {"idle", "exited"} /\ phase' = "exited" /\ ~updated)

LEMMA PassesStep ==
    ASSUME IInv, Update \/ BeginSecondLoop \/ NextObserver \/ EndStepping
    PROVE  Passes
<1>1. AllSame
  BY DEF Update, BeginSecondLoop, NextObserver, EndStepping, AllSame,
         coordinator, list, observer, playing, game
<1>2. 1 \in Observers /\ N \in Nat \ {0} /\ turn \in 1..N
  BY ObserverCount DEF IInv, TypeOK, Observers
<1>3. CASE Update
  BY <1>1, <1>3 DEF Update, Passes, Goes, IInv, PlaceOf, Resting
<1>4. CASE BeginSecondLoop \/ NextObserver
  <2>1. /\ phase \in {"parallel", "sequence"} /\ phase' = "sequence" /\ Visit(turn')
        /\ phase = "parallel" \/ N > 1
    BY <1>2, <1>4 DEF BeginSecondLoop, NextObserver, HasLater
  <2>2. turn' \in Observers
    BY <1>2, <1>4 DEF BeginSecondLoop, NextObserver, HasLater, Observers
  <2>3. ~MultiThreaded /\ \A b \in Observers : pc[b] = "done"
    <3>1. CASE BeginSecondLoop
      BY <3>1 DEF BeginSecondLoop, HasSecondLoop, AllDone
    <3>2. CASE NextObserver
      <4>1. phase = "sequence" /\ pc[turn] = "done" /\ turn \in Observers
        BY <1>2, <3>2 DEF NextObserver, Observers
      <4> QED
        BY <4>1 DEF IInv, PlaceOf
    <3> QED
      BY <1>4, <3>1, <3>2
  <2>4. Turns("events") \/ Turns("done")
    BY <2>1, <2>2, <2>3 DEF Visit, Goto, Turns, IInv, TypeOK
  <2> QED
    BY <1>1, <2>1, <2>3, <2>4 DEF Passes, Goes
<1>5. CASE EndStepping
  <2>1. \A b \in Observers : pc[b] = "done"
    BY <1>2, <1>5 DEF EndStepping, AllDone, IInv, PlaceOf
  <2> QED
    BY <1>1, <1>5, <2>1 DEF EndStepping, Passes, Goes
<1> QED
  BY <1>3, <1>4, <1>5

LEMMA BeginStartReplayStep ==
    ASSUME IInv, BeginStartReplay
    PROVE  Passes \/ Launches
<1>1. /\ phase = "available" /\ \A b \in Observers : pc[b] = "done"
      /\ UNCHANGED <<settings, updated, version, replays, fate, info, camera>>
      /\ UNCHANGED <<replay, told, asked, ready>>
  BY DEF BeginStartReplay, IInv, PlaceOf, Resting, list, playing
<1>2. CASE AnyObserverAvailable /\ replays # 0
  <2>1. phase' = "start" /\ turn' = 1 /\ Goto(1, "ready")
    BY <1>2 DEF BeginStartReplay
  <2>2. Turns("ready")
    BY <1>1, <2>1, ObserverCount DEF Goto, Turns, IInv, TypeOK
  <2>3. CASE started
    <3>1. UNCHANGED <<ses, inst, build, started>>
      BY <1>2, <2>3 DEF BeginStartReplay
    <3>2. AllSame
      BY <1>1, <3>1 DEF AllSame
    <3> QED
      BY <1>1, <1>2, <2>1, <2>2, <2>3, <3>2 DEF Passes, Goes
  <2>4. CASE ~started
    <3>1. LaunchProcesses
      BY <1>2, <2>4 DEF BeginStartReplay
    <3>2. \A b \in Observers : Unlaunched(b)
      BY <2>4 DEF IInv, Launched
    <3>3. \A b \in Observers : Fresh(b)
      BY <1>1, <3>1, <3>2 DEF LaunchProcesses, Fresh, Unlaunched
    <3> QED
      BY <1>1, <1>2, <2>1, <2>2, <2>4, <3>2, <3>3 DEF Launches
  <2> QED
    BY <2>3, <2>4
<1>3. CASE ~(AnyObserverAvailable /\ replays # 0)
  <2>1. phase' = "errors" /\ UNCHANGED <<pc, ses, inst, build, started>>
    BY <1>3 DEF BeginStartReplay
  <2>2. AllSame
    BY <1>1, <2>1 DEF AllSame
  <2>3. replays # 0 => \A b \in Observers : IsInGame(ses[b])
    BY <1>3 DEF AnyObserverAvailable
  <2> QED
    BY <1>1, <2>1, <2>2, <2>3 DEF Passes, Goes
<1> QED
  BY <1>2, <1>3

LEMMA StopsStep ==
    ASSUME Exit \/ UNCHANGED vars
    PROVE  Stops
BY DEF Exit, vars, Stops, AllSame, coordinator, list, observer, playing, game

\* A step of the program or of a game.
Relaunching == \E R \in SUBSET Observers, S \in SUBSET Observers : Relaunches(R, S)
Observing == \E r \in Observers : Steps(r) /\ Does(r)
Playing == \E r \in Observers : Called(r) /\ (Replies(r) \/ RunsOut(r)) /\ GameKeeps

LEMMA StepKinds ==
    ASSUME IInv, [Next]_vars
    PROVE  \/ Passes \/ Launches \/ (StartKeeps /\ StartDoes) \/ Relaunching \/ Stops
           \/ Observing \/ Playing
<1>1. CASE Update \/ BeginSecondLoop \/ NextObserver \/ EndStepping
  BY <1>1, PassesStep
<1>2. CASE BeginStartReplay
  BY <1>2, BeginStartReplayStep
<1>3. CASE StartReplay
  BY <1>3, StartReplayDoes DEF StartReplay
<1>4. CASE CheckErrors
  BY <1>4, CheckErrorsDoes DEF Relaunching
<1>5. CASE Exit \/ UNCHANGED vars
  BY <1>5, StopsStep
<1>6. ASSUME NEW r \in Observers, Observer(r) PROVE Observing
  BY <1>6, ObserverDoes DEF Observing
<1>7. ASSUME NEW r \in Observers, Answer(r) \/ ReplayOver(r) PROVE Playing
  BY <1>7, AnswerDoes, ReplayOverDoes DEF Playing
<1> QED
  BY <1>1, <1>2, <1>3, <1>4, <1>5, <1>6, <1>7 DEF Next, Run

-----------------------------------------------------------------------------
(* No response is abandoned.                                                *)

\* Unless something else went wrong, no request was refused; and no response is
\* pending either.
Clean(s) == Mild(s) => s.errors = {}
Clear(s) == Mild(s) => s.errors = {} /\ s.pending = "none"

\* An observer that is about to send a request, or that may come to that before it
\* polls again, has consumed its last response.
Free == {"firstlook", "starting", "play", "look", "endcheck", "gather", "gathered"}
Consumed(r) ==
    \/ pc[r] \in Free
    \/ pc[r] \in {"events", "actions"} /\ (MultiThreaded \/ N = 1)
    \/ phase \in {"parallel", "sequence"} /\ pc[r] = "done" /\ N = 1
Quiet(r) == Clean(ses[r]) /\ (Consumed(r) => Clear(ses[r]))

NoCamera == "obs_action" \notin Asks => \A r \in Observers : ~camera[r]
Refusals == NoCamera /\ (ThreadedOrQuiet \/ N = 1 => \A r \in Observers : Quiet(r))

LEMMA CleanCalls ==
    ASSUME IInv, NEW r \in Observers, NEW t \in Types, Clean(ses[r])
    PROVE  /\ Sent(r, t) => Clean(ses'[r])
           /\ Unsent(r) /\ Clear(ses[r]) => Clear(ses'[r])
           /\ Heard(r) \/ Unheard(r) => Clear(ses'[r])
<1>1. Sent(r, t) => Clean(ses'[r])
  BY DEF Sent, Clean, Mild
<1>2. ASSUME Unsent(r), Clear(ses[r]) PROVE Clear(ses'[r])
  BY <1>2 DEF Unsent, Clear, Mild
<1>3. Heard(r) \/ Unheard(r) => Clear(ses'[r])
  BY DEF Heard, Unheard, Clean, Clear, Mild
<1> QED
  BY <1>1, <1>2, <1>3

\* The same settings.
LEMMA SameSettings ==
    ASSUME settings' = settings
    PROVE  /\ Observers' = Observers /\ Files' = Files /\ N' = N /\ Asks' = Asks
           /\ MultiThreaded' <=> MultiThreaded
           /\ Realtime' <=> Realtime
           /\ Failures' <=> Failures
           /\ Recovery' <=> Recovery
           /\ ThreadedOrQuiet' <=> ThreadedOrQuiet
           /\ NothingTooLate' <=> NothingTooLate
BY DEF Observers, Files, N, Asks, MultiThreaded, Realtime, Failures, Recovery,
       ThreadedOrQuiet, NothingTooLate

\* What a step of observer r leaves of the other observers.
LEMMA OthersSteps ==
    ASSUME IInv, NEW r \in Observers, Steps(r)
    PROVE  /\ settings' = settings /\ phase \in {"parallel", "sequence"}
           /\ phase' \in {phase, "crashed"} /\ started' = started /\ started
           /\ UNCHANGED <<turn, updated, version, replays, build, info, replay>>
           /\ \A b \in Observers : b # r =>
                  /\ Same(b) /\ pc'[b] = pc[b] /\ camera'[b] = camera[b]
                  /\ told'[b] = told[b]
BY DEF Steps, Moves, Keeps, Calls, Called, coordinator, IInv, Launched, Resting

LEMMA ObserverRefusals ==
    ASSUME IInv, Refusals, NEW r \in Observers, Steps(r), Does(r)
    PROVE  Refusals'
<1>1. /\ settings' = settings /\ phase \in {"parallel", "sequence"}
      /\ phase' \in {phase, "crashed"} /\ Called(r)
      /\ \A b \in Observers : b # r =>
             Same(b) /\ pc'[b] = pc[b] /\ camera'[b] = camera[b]
  BY OthersSteps DEF Steps, Calls
<1>2. /\ Observers' = Observers /\ N' = N /\ Asks' = Asks
      /\ MultiThreaded' <=> MultiThreaded
      /\ ThreadedOrQuiet' <=> ThreadedOrQuiet
  BY <1>1, SameSettings
<1>3. NoCamera'
  <2> SUFFICES ASSUME "obs_action" \notin Asks, NEW b \in Observers
               PROVE  ~camera'[b]
    BY <1>2 DEF NoCamera
  <2>1. ~camera[b]
    BY DEF Refusals, NoCamera
  <2> QED
    BY <1>1, <2>1
    DEF Does, Polls, Loads, Starts, Plays, Looks, Waits, Issues, Acts, Dangles, Ends
<1>4. ASSUME ThreadedOrQuiet \/ N = 1, NEW b \in Observers
      PROVE  Quiet(b)'
  <2>1. \A c \in Observers : Quiet(c)
    BY <1>4 DEF Refusals
  <2>2. CASE b # r
    BY <1>1, <1>2, <2>1, <2>2 DEF Quiet, Consumed, Same
  <2>3. CASE b = r
    <3> SUFFICES Clean(ses'[r]) /\ (Consumed(r)' => Clear(ses'[r]))
      BY <2>3 DEF Quiet
    <3>1. /\ Clean(ses[r]) /\ (Consumed(r) => Clear(ses[r]))
          /\ Sane(ses[r]) /\ NoCamera
          /\ Asks = {} \/ MultiThreaded \/ N = 1
      BY <1>4, <2>1 DEF Quiet, IInv, Refusals, ThreadedOrQuiet
    <3>2. /\ \A t \in Types : Sent(r, t) => Clean(ses'[r])
          /\ Unsent(r) /\ Clear(ses[r]) => Clear(ses'[r])
          /\ Heard(r) \/ Unheard(r) => Clear(ses'[r])
          /\ Same(r) => ses'[r] = ses[r]
          /\ \A s : Clear(s) => Clean(s)
      BY <3>1, CleanCalls, Requests DEF Same, Clear, Clean
    <3>3. Consumed(r)' <=>
              \/ pc'[r] \in Free
              \/ pc'[r] \in {"events", "actions"} /\ (MultiThreaded \/ N = 1)
              \/ phase' \in {"parallel", "sequence"} /\ pc'[r] = "done" /\ N = 1
      BY <1>2 DEF Consumed
    <3>4. CASE Polls(r)
      <4>1. ses'[r] = ses[r] /\ pc'[r] \in {"done", "loading", "play"}
        BY <3>2, <3>4 DEF Polls
      <4>2. pc'[r] = "play" => ses[r].pending = "none"
        BY <3>4 DEF Polls, HasResponsePending
      <4>3. pc'[r] = "done" /\ N = 1 => ~Mild(ses[r])
        BY <3>1, <3>4 DEF Polls, Skips, Sane, Clean
      <4> QED
        BY <3>1, <3>3, <4>1, <4>2, <4>3 DEF Clean, Clear, Free
    <3>5. CASE Loads(r)
      BY <3>2, <3>5 DEF Loads
    <3>6. CASE Starts(r)
      BY <3>1, <3>2, <3>6 DEF Starts, Consumed, Free
    <3>7. CASE Plays(r)
      BY <3>1, <3>2, <3>3, <3>7, Requests DEF Plays, Consumed, Free, Tries
    <3>8. CASE Looks(r)
      BY <3>1, <3>2, <3>3, <3>8, Requests DEF Looks, Consumed, Free, Tries
    <3>9. CASE Waits(r)
      BY <3>2, <3>9 DEF Waits
    <3>10. CASE Issues(r)
      BY <1>1, <3>1, <3>2, <3>3, <3>10, Requests
      DEF Issues, Consumed, Free, Tries, AfterEvents, AfterActions
    <3>11. CASE Acts(r)
      <4>1. "obs_action" \in Asks \/ ~camera[r]
        BY <3>1 DEF NoCamera
      <4> QED
        BY <1>1, <3>1, <3>2, <3>3, <3>11, <4>1, Requests
        DEF Acts, Consumed, Free, Tries, AfterActions
    <3>12. CASE Dangles(r)
      BY <1>1, <3>1, <3>2, <3>3, <3>12 DEF Dangles, Consumed
    <3>13. CASE Ends(r)
      BY <3>1, <3>2, <3>13 DEF Ends, Consumed, Free
    <3> QED
      BY <3>4, <3>5, <3>6, <3>7, <3>8, <3>9, <3>10, <3>11, <3>12, <3>13 DEF Does
  <2> QED
    BY <2>2, <2>3
<1> QED
  BY <1>2, <1>3, <1>4 DEF Refusals

LEMMA ThreadRefusals ==
    ASSUME IInv, Refusals, Passes \/ Launches \/ Relaunching \/ Stops
    PROVE  Refusals'
<1>1. settings' = settings /\ camera' = camera
  BY DEF Passes, Launches, Relaunching, Relaunches, Stops, AllSame
<1>2. /\ Observers' = Observers /\ N' = N /\ Asks' = Asks
      /\ MultiThreaded' <=> MultiThreaded
      /\ ThreadedOrQuiet' <=> ThreadedOrQuiet
  BY <1>1, SameSettings
<1>3. NoCamera'
  BY <1>1, <1>2 DEF Refusals, NoCamera
<1>4. ASSUME ThreadedOrQuiet \/ N = 1, NEW b \in Observers
      PROVE  Quiet(b)'
  <2>1. Quiet(b)
    BY <1>4 DEF Refusals
  <2>2. CASE Passes
    <3>1. ses'[b] = ses[b] /\ pc[b] = "done"
      BY <2>2 DEF Passes, AllSame
    <3>2. Consumed(b)' => Consumed(b)
      BY <1>2, <2>2, <3>1 DEF Passes, Goes, Turns, Consumed, Free
    <3> QED
      BY <2>1, <3>1, <3>2 DEF Quiet
  <2>3. CASE Launches
    <3>1. /\ ses'[b] \in Connects /\ phase' = "start" /\ pc'[b] \in {"ready", "done"}
      BY <2>3 DEF Launches, Fresh, Turns
    <3> QED
      BY <3>1, ConnectsFacts DEF Quiet, Consumed, Free, Clean, Mild
  <2>4. CASE Relaunching
    <3>1. PICK R \in SUBSET Observers, S \in SUBSET Observers : Relaunches(R, S)
      BY <2>4 DEF Relaunching
    <3>2. pc'[b] = "done" /\ phase' = "idle"
      BY <3>1 DEF Relaunches, IInv, PlaceOf, Resting
    <3>3. ~Consumed(b)'
      BY <3>2 DEF Consumed, Free
    <3>4. CASE b \in R
      BY <3>1, <3>3, <3>4, ConnectsFacts DEF Relaunches, Fresh, Quiet, Clean, Mild
    <3>5. CASE b \notin R
      BY <2>1, <3>1, <3>3, <3>5 DEF Relaunches, Same, Quiet
    <3> QED
      BY <3>4, <3>5
  <2>5. CASE Stops
    BY <1>2, <2>1, <2>5 DEF Stops, AllSame, Quiet, Consumed
  <2> QED
    BY <2>2, <2>3, <2>4, <2>5
<1> QED
  BY <1>2, <1>3, <1>4 DEF Refusals

\* Where the observers are after a step of StartReplay.
LEMMA StartPcs ==
    ASSUME IInv, StartKeeps, StartDoes, NEW b \in Observers
    PROVE  /\ settings' = settings /\ phase = "start" /\ phase' \in {"start", "errors"}
           /\ b # turn => /\ Same(b) /\ info'[b] = info[b] /\ replay'[b] = replay[b]
                          /\ pc[b] = "done" /\ pc'[b] \in {"ready", "done"}
           /\ started /\ started' = started
<1>1. /\ settings' = settings /\ phase = "start" /\ turn \in Observers /\ started' = started
      /\ b # turn => Same(b) /\ info'[b] = info[b] /\ replay'[b] = replay[b]
  BY DEF StartKeeps, Called
<1>2. started /\ (b # turn => pc[b] = "done")
  BY <1>1 DEF IInv, PlaceOf, Launched, Resting
<1>3. GoesToNext \/ \E p \in Taking : GoesTo(p)
  BY DEF StartDoes, Considers, FindsNone, Inquires, Learns, PassesOver, LeavesToAnother,
         PutsOn, Taking
<1>4. phase' \in {"start", "errors"} /\ (b # turn => pc'[b] \in {"ready", "done"})
  BY <1>3 DEF GoesToNext, GoesTo
<1> QED
  BY <1>1, <1>2, <1>4

LEMMA StartRefusals ==
    ASSUME IInv, Refusals, StartKeeps, StartDoes
    PROVE  Refusals'
<1>1. settings' = settings /\ camera' = camera /\ phase' \notin {"parallel", "sequence"}
  BY StartPcs, ObserverCount DEF StartKeeps
<1>2. /\ Observers' = Observers /\ N' = N /\ Asks' = Asks
      /\ MultiThreaded' <=> MultiThreaded
      /\ ThreadedOrQuiet' <=> ThreadedOrQuiet
  BY <1>1, SameSettings
<1>3. NoCamera'
  BY <1>1, <1>2 DEF Refusals, NoCamera
<1>4. ASSUME ThreadedOrQuiet \/ N = 1, NEW b \in Observers
      PROVE  Quiet(b)'
  <2>1. Quiet(b) /\ Clean(ses[b]) /\ (pc[b] \in Free => Clear(ses[b]))
    BY <1>4 DEF Refusals, Quiet, Consumed
  <2>2. CASE b # turn
    <3>1. ses'[b] = ses[b] /\ pc'[b] \in {"ready", "done"}
      BY <2>2, StartPcs DEF Same
    <3> QED
      BY <1>1, <2>1, <3>1 DEF Quiet, Consumed, Free
  <2>3. CASE b = turn
    <3> SUFFICES Clean(ses'[b]) /\ (Consumed(b)' => Clear(ses'[b]))
      BY DEF Quiet
    <3>1. /\ \A t \in Types : Sent(b, t) => Clean(ses'[b])
          /\ Unsent(b) /\ Clear(ses[b]) => Clear(ses'[b])
          /\ Heard(b) \/ Unheard(b) => Clear(ses'[b])
          /\ Same(b) => ses'[b] = ses[b]
          /\ \A s : Clear(s) => Clean(s)
      BY <2>1, CleanCalls, Requests DEF Same, Clear, Clean
    <3>2. Consumed(b)' => pc'[b] \in Free \cup {"events", "actions"}
      BY <1>1 DEF Consumed
    <3>3. GoesToNext => pc'[b] \in {"ready", "done"}
      BY <2>3 DEF GoesToNext
    <3>4. CASE Considers
      <4>1. /\ ses'[b] = ses[b]
            /\ GoesToNext \/ ses[b].pending = "none"
        BY <2>3, <3>1, <3>4 DEF Considers, IsReadyForCreateGame, HasResponsePending
      <4> QED
        BY <2>1, <3>2, <3>3, <4>1 DEF Clean, Clear, Free
    <3>5. CASE FindsNone
      BY <2>1, <2>3, <3>1, <3>2, <3>3, <3>5 DEF FindsNone, Free
    <3>6. CASE Inquires
      BY <2>1, <2>3, <3>1, <3>2, <3>6, Requests DEF Inquires, GoesTo, Free
    <3>7. CASE Learns
      BY <2>3, <3>1, <3>7 DEF Learns
    <3>8. CASE PassesOver
      BY <2>1, <2>3, <3>1, <3>8 DEF PassesOver, Free
    <3>9. CASE LeavesToAnother
      <4>1. "WrongGameVersion" \in ses'[b].errors
        BY <2>3, <3>9, TypeFacts, ErrorFacts DEF LeavesToAnother, ClientErrors
      <4> QED
        BY <4>1 DEF Clean, Clear, Mild
    <3>10. CASE PutsOn
      BY <2>1, <2>3, <3>1, <3>2, <3>3, <3>10, Requests DEF PutsOn, GoesTo, Free
    <3> QED
      BY <3>4, <3>5, <3>6, <3>7, <3>8, <3>9, <3>10 DEF StartDoes
  <2> QED
    BY <2>2, <2>3
<1> QED
  BY <1>2, <1>3, <1>4 DEF Refusals

LEMMA GameRefusals ==
    ASSUME IInv, Refusals, Playing
    PROVE  Refusals'
<1>1. UNCHANGED <<settings, phase, pc, camera, ses>>
  BY DEF Playing, GameKeeps, coordinator, observer
<1>2. /\ Observers' = Observers /\ N' = N /\ Asks' = Asks
      /\ MultiThreaded' <=> MultiThreaded
      /\ ThreadedOrQuiet' <=> ThreadedOrQuiet
  BY <1>1, SameSettings
<1> QED
  BY <1>1, <1>2 DEF Refusals, NoCamera, Quiet, Consumed

LEMMA RefusalsInvariance == Spec => []Refusals
<1>1. Init => Refusals
  BY DEF Init, Refusals, NoCamera, Quiet, Consumed, Free, Clean, NewSession
<1>2. IInv /\ Refusals /\ [Next]_vars => Refusals'
  BY StepKinds, ThreadRefusals, StartRefusals, GameRefusals, ObserverRefusals DEF Observing
<1> QED
  BY <1>1, <1>2, Invariance, PTL DEF Spec

\* No response is abandoned: the first thing that goes wrong for an observer is
\* never that a request is refused because a response is pending (threads, or
\* callbacks that ask for nothing, or one observer).
THEOREM NothingRefusedAlways == Spec => []NothingRefused
<1>1. Refusals => NothingRefused
  BY DEF Refusals, NothingRefused, Quiet, Clean, Mild
<1> QED
  BY <1>1, RefusalsInvariance, PTL

-----------------------------------------------------------------------------
(* Requests and responses in order, when no game fails.                     *)

\* The places where an observer waits for the response to its last request.
Waiting == {"loading", "looking", "observe", "step", "query", "acting", "gathering"}
AwaitedAt(p) ==
    CASE p = "loading" -> "start_replay"
      [] p \in {"looking", "observe"} -> "observation"
      [] p = "gathering" -> "replay_info"
      [] p = "acting" -> "obs_action"
      [] OTHER -> p

\* Elsewhere a replay may be loading; not when a request is about to be sent, except
\* by a callback of the second loop.
NonePending(r) ==
    pc[r] \in Free \/ (phase = "parallel" /\ pc[r] \in {"events", "actions"})
Order(r) ==
    /\ ses[r].app = "normal" /\ inst[r] \notin Lost
    /\ pc[r] \in Waiting => ses[r].pending = AwaitedAt(pc[r])
    /\ pc[r] \notin Waiting => ses[r].pending \in {"none", "start_replay"}
    /\ NonePending(r) => ses[r].pending = "none"
    /\ phase = "start" /\ pc[r] = "gathered" => info[r] = replays

Ordered == ~Failures =>
    /\ \A r \in Observers : Order(r)
    /\ IgnoredAreShort /\ RunsInItsVersion

\* What a call makes of the session of an observer in order.
LEMMA OrderCalls ==
    ASSUME IInv, ~Failures, NEW r \in Observers, Order(r)
    PROVE  /\ ~Unheard(r)
           /\ NonePending(r) => ~Unsent(r)
           /\ Same(r) \/ Unsent(r) =>
                  /\ ses'[r].app = "normal" /\ inst'[r] = inst[r]
                  /\ ses'[r].pending = ses[r].pending
           /\ \A t \in Types : Sent(r, t) =>
                  /\ ses'[r].app = "normal" /\ inst'[r] = inst[r]
                  /\ ses[r].pending = "none" /\ ses'[r].pending = t
           /\ Heard(r) => /\ ses'[r].app = "normal" /\ inst'[r] = inst[r]
                          /\ ses'[r].pending = "none"
BY DEF Order, Unheard, Unsent, Same, Sent, Heard, Lost

LEMMA ObserverOrder ==
    ASSUME IInv, ~Failures, \A b \in Observers : Order(b), NEW r \in Observers,
           Steps(r), Does(r), NEW b \in Observers
    PROVE  Order(b)'
<1>1. /\ settings' = settings /\ phase \in {"parallel", "sequence"}
      /\ phase' \in {phase, "crashed"} /\ Called(r)
      /\ \A c \in Observers : c # r => Same(c) /\ pc'[c] = pc[c]
      /\ PlaceOf(r) /\ PlaceOf(r)'
  BY OthersSteps DEF Steps, Calls, Moves, IInv
<1>2. CASE b # r
  BY <1>1, <1>2 DEF Order, NonePending, Same
<1>3. CASE b = r
  <2>1. Order(r)
    OBVIOUS
  <2>2. /\ ~Unheard(r)
        /\ NonePending(r) => ~Unsent(r)
        /\ Same(r) \/ Unsent(r) =>
               /\ ses'[r].app = "normal" /\ inst'[r] \notin Lost
               /\ ses'[r].pending = ses[r].pending
        /\ \A t \in Types : Sent(r, t) =>
               /\ ses'[r].app = "normal" /\ inst'[r] \notin Lost
               /\ ses[r].pending = "none" /\ ses'[r].pending = t
        /\ Heard(r) => /\ ses'[r].app = "normal" /\ inst'[r] \notin Lost
                       /\ ses'[r].pending = "none"
    BY <2>1, OrderCalls DEF Order
  <2> SUFFICES /\ ses'[r].app = "normal" /\ inst'[r] \notin Lost
               /\ pc'[r] \in Waiting => ses'[r].pending = AwaitedAt(pc'[r])
               /\ pc'[r] \notin Waiting => ses'[r].pending \in {"none", "start_replay"}
               /\ NonePending(r)' => ses'[r].pending = "none"
    BY <1>1, <1>3 DEF Order, AwaitedAt
  <2>3. NonePending(r)' => pc'[r] \in Free \/ (phase = "parallel" /\ pc'[r] \in {"events", "actions"})
    BY <1>1 DEF NonePending
  <2>4. CASE Polls(r)
    <3>1. pc'[r] = "loading" => ses[r].pending = "start_replay"
      BY <2>1, <2>4 DEF Polls, Order, Waiting, HasResponsePending
    <3> QED
      BY <2>1, <2>2, <2>3, <2>4, <3>1
      DEF Polls, Order, Waiting, Free, AwaitedAt, HasResponsePending
  <2>5. CASE Loads(r)
    BY <2>2, <2>5 DEF Loads, Waiting
  <2>6. CASE Starts(r)
    BY <2>1, <2>2, <2>6 DEF Starts, Order, NonePending, Waiting, Free
  <2>7. CASE Plays(r)
    <3>1. NonePending(r) /\ ses[r].pending = "none"
      BY <2>1, <2>7 DEF Plays, Order, NonePending, Free
    <3> QED
      BY <2>2, <2>3, <2>7, <3>1, Requests DEF Plays, Tries, Waiting, Free, AwaitedAt
  <2>8. CASE Looks(r)
    <3>1. NonePending(r) /\ ses[r].pending = "none" /\ ses[r].app = "normal"
      BY <2>1, <2>8 DEF Looks, Order, NonePending, Free
    <3> QED
      BY <2>2, <2>3, <2>8, <3>1, Requests DEF Looks, Tries, Waiting, Free, AwaitedAt
  <2>9. CASE Waits(r)
    <3>1. pc'[r] \notin Waiting
      BY <2>9 DEF Waits, Waiting, AfterObservation, AfterEvents, AfterActions
    <3> QED
      BY <2>2, <2>9, <3>1 DEF Waits
  <2>10. CASE Issues(r)
    <3>1. phase = "parallel" => NonePending(r) /\ ses[r].pending = "none"
      BY <2>1, <2>10 DEF Issues, Order, NonePending
    <3>2. phase = "sequence" => ~MultiThreaded
      BY <1>1 DEF PlaceOf
    <3>3. /\ ses[r].pending \in {"none", "start_replay"}
          /\ AfterEvents \notin Waiting
          /\ ~MultiThreaded => AfterEvents \notin Free
      BY <2>1, <2>10
      DEF Issues, Order, Waiting, AfterEvents, AfterActions, Free
    <3> QED
      BY <1>1, <2>2, <2>3, <2>10, <3>1, <3>2, <3>3, Requests
      DEF Issues, Tries, Waiting, Free, AwaitedAt
  <2>11. CASE Acts(r)
    <3>1. phase = "parallel" => NonePending(r) /\ ses[r].pending = "none"
      BY <2>1, <2>11 DEF Acts, Order, NonePending
    <3>2. phase = "sequence" => ~MultiThreaded
      BY <1>1 DEF PlaceOf
    <3>3. /\ ses[r].pending \in {"none", "start_replay"}
          /\ AfterActions \notin Waiting
          /\ ~MultiThreaded => AfterActions \notin Free
      BY <2>1, <2>11
      DEF Acts, Order, Waiting, AfterActions, Free
    <3> QED
      BY <1>1, <2>2, <2>3, <2>11, <3>1, <3>2, <3>3, Requests
      DEF Acts, Tries, Waiting, Free, AwaitedAt
  <2>12. CASE Dangles(r)
    BY <2>1, <2>2, <2>3, <2>12 DEF Dangles, Order, NonePending
  <2>13. CASE Ends(r)
    BY <2>1, <2>2, <2>3, <2>13 DEF Ends, Order, NonePending, Waiting, Free
  <2> QED
    BY <2>4, <2>5, <2>6, <2>7, <2>8, <2>9, <2>10, <2>11, <2>12, <2>13 DEF Does
<1> QED
  BY <1>2, <1>3

LEMMA ThreadOrder ==
    ASSUME IInv, ~Failures, \A c \in Observers : Order(c), NEW b \in Observers,
           Passes \/ Launches \/ Relaunching \/ Stops
    PROVE  Order(b)'
<1>1. Order(b)
  OBVIOUS
<1>2. CASE Passes
  <2>1. ses'[b] = ses[b] /\ inst'[b] = inst[b] /\ pc[b] = "done"
    BY <1>2 DEF Passes, AllSame
  <2>2. pc'[b] \in {"done", "poll", "events", "ready"}
        /\ (pc'[b] = "events" => phase' = "sequence")
    BY <1>2, <2>1 DEF Passes, Goes, Turns
  <2> QED
    BY <1>1, <2>1, <2>2 DEF Order, NonePending, Waiting, Free
<1>3. ASSUME Fresh(b), pc'[b] \in {"done", "ready"}
      PROVE  Order(b)'
  <2>1. ses'[b].app = "normal" /\ ses'[b].pending = "none" /\ inst'[b] = "launched"
    BY <1>3, ConnectsFacts DEF Fresh
  <2> QED
    BY <1>3, <2>1 DEF Order, NonePending, Waiting, Free, Lost
<1>4. CASE Launches
  <2>1. Fresh(b) /\ pc'[b] \in {"done", "ready"}
    BY <1>4 DEF Launches, Turns
  <2> QED
    BY <1>3, <2>1
<1>5. CASE Relaunching
  <2>1. PICK R \in SUBSET Observers, S \in SUBSET Observers : Relaunches(R, S)
    BY <1>5 DEF Relaunching
  <2>2. pc'[b] = "done" /\ pc[b] = "done" /\ phase' = "idle"
    BY <2>1 DEF Relaunches, IInv, PlaceOf, Resting
  <2>3. CASE b \in R
    BY <1>3, <2>1, <2>2, <2>3 DEF Relaunches
  <2>4. CASE b \notin R
    BY <1>1, <2>1, <2>2, <2>4 DEF Relaunches, Same, Order, NonePending
  <2> QED
    BY <2>3, <2>4
<1>6. CASE Stops
  BY <1>1, <1>6 DEF Stops, AllSame, Order, NonePending
<1> QED
  BY <1>2, <1>4, <1>5, <1>6

LEMMA GameOrder ==
    ASSUME IInv, ~Failures, \A c \in Observers : Order(c), NEW b \in Observers, Playing
    PROVE  Order(b)'
<1>1. PICK r \in Observers : Called(r) /\ (Replies(r) \/ RunsOut(r)) /\ GameKeeps
  BY DEF Playing
<1>2. UNCHANGED <<phase, pc, ses, info, replays>>
  BY <1>1 DEF GameKeeps, observer, list
<1>3. inst'[b] \notin Lost
  <2>1. CASE b = r
    BY <1>1, <2>1 DEF Replies, RunsOut, Lost
  <2>2. CASE b # r
    BY <1>1, <2>2 DEF Called, Same, Order
  <2> QED
    BY <2>1, <2>2
<1> QED
  BY <1>2, <1>3 DEF Order, NonePending

LEMMA StartOrder ==
    ASSUME IInv, ~Failures, \A c \in Observers : Order(c), NEW b \in Observers,
           StartKeeps, StartDoes
    PROVE  Order(b)'
<1>1. Order(b)
  OBVIOUS
<1>2. phase = "start" /\ phase' \in {"start", "errors"}
  BY StartPcs
<1>3. CASE b # turn
  <2>1. /\ ses'[b] = ses[b] /\ inst'[b] = inst[b] /\ pc[b] = "done"
        /\ pc'[b] \in {"ready", "done"}
    BY <1>3, StartPcs DEF Same
  <2> QED
    BY <1>1, <2>1 DEF Order, NonePending, Waiting, Free
<1>4. CASE b = turn
  <2>1. /\ ~Unheard(b)
        /\ NonePending(b) => ~Unsent(b)
        /\ Same(b) \/ Unsent(b) =>
               /\ ses'[b].app = "normal" /\ inst'[b] \notin Lost
               /\ ses'[b].pending = ses[b].pending
        /\ \A t \in Types : Sent(b, t) =>
               /\ ses'[b].app = "normal" /\ inst'[b] \notin Lost
               /\ ses[b].pending = "none" /\ ses'[b].pending = t
        /\ Heard(b) => /\ ses'[b].app = "normal" /\ inst'[b] \notin Lost
                       /\ ses'[b].pending = "none"
    BY <1>1, OrderCalls DEF Order
  <2>2. GoesToNext => pc'[b] \in {"ready", "done"}
    BY <1>4 DEF GoesToNext
  <2>3. NonePending(b)' => pc'[b] \in Free
    BY <1>2 DEF NonePending
  <2>4. /\ pc[b] \in Free => NonePending(b) /\ ses[b].pending = "none"
        /\ ses[b].pending \in {"none", "start_replay"} \/ pc[b] \in Waiting
    BY <1>1 DEF Order, NonePending
  <2>5. CASE Considers
    <3>1. GoesToNext \/ ses[b].pending = "none"
      BY <1>4, <2>5 DEF Considers, IsReadyForCreateGame, HasResponsePending
    <3> QED
      BY <1>4, <2>1, <2>2, <2>3, <2>4, <2>5, <3>1
      DEF Considers, GoesTo, Order, Waiting, Free
  <2>6. CASE FindsNone
    BY <1>4, <2>1, <2>2, <2>3, <2>4, <2>6 DEF FindsNone, Order, Waiting, Free
  <2>7. CASE Inquires
    <3>1. NonePending(b)
      BY <1>4, <2>4, <2>7 DEF Inquires, Free
    <3> QED
      BY <1>4, <2>1, <2>3, <2>7, <3>1, Requests
      DEF Inquires, GoesTo, Order, Waiting, Free, AwaitedAt
  <2>8. CASE Learns
    <3>1. ses[b].pending = "replay_info" /\ Heard(b)
      BY <1>1, <1>4, <2>1, <2>8 DEF Learns, Order, Waiting, AwaitedAt
    <3>2. Gets(b, "replay_info")
      BY <3>1 DEF Heard, Gets, IInv, AnswerOf
    <3>3. info'[b] = replays /\ replays' = replays
      BY <1>4, <2>8, <3>2 DEF Learns
    <3> QED
      BY <1>4, <2>1, <2>3, <2>8, <3>1, <3>3 DEF Learns, GoesTo, Order, Waiting
  <2>9. CASE PassesOver
    BY <1>4, <2>1, <2>3, <2>4, <2>9 DEF PassesOver, GoesTo, Order, Waiting, Free
  <2>10. CASE LeavesToAnother
    <3>1. ses'[b].app = "normal" /\ ses'[b].pending = ses[b].pending
      BY <1>1, <1>4, <2>10, TypeFacts, ErrorFacts
      DEF LeavesToAnother, ClientErrors, Order
    <3>2. inst'[b] \notin Lost /\ ses[b].pending = "none"
      BY <1>1, <1>4, <2>4, <2>10 DEF LeavesToAnother, Order, Free
    <3>3. pc'[b] \in {"ready", "done"}
      BY <2>2, <2>10 DEF LeavesToAnother
    <3> QED
      BY <2>3, <3>1, <3>2, <3>3 DEF Order, Waiting, Free
  <2>11. CASE PutsOn
    <3>1. NonePending(b)
      BY <1>4, <2>4, <2>11 DEF PutsOn, Free
    <3> QED
      BY <1>4, <2>1, <2>2, <2>3, <2>11, <3>1, Requests
      DEF PutsOn, GoesTo, Order, Waiting, Free, AwaitedAt
  <2> QED
    BY <2>5, <2>6, <2>7, <2>8, <2>9, <2>10, <2>11 DEF StartDoes
<1> QED
  BY <1>3, <1>4

\* What becomes of the files in a step of an observer.
LEMMA ObserverFates ==
    ASSUME IInv, NEW r \in Observers, Does(r), NEW f \in Files
    PROVE  \/ fate'[f] = fate[f]
           \/ f = replay[r] /\ fate'[f] \in {"failed", "started", "ended"}
BY DEF Does, Polls, Loads, Starts, Plays, Looks, Waits, Issues, Acts, Dangles, Ends, Becomes

\* The settings are chosen before the first Update.
LEMMA SettingsStay == ASSUME IInv, [Next]_vars PROVE settings' = settings
  BY StepKinds, OthersSteps
  DEF Passes, Launches, StartKeeps, Relaunching, Relaunches, Stops, AllSame, Observing,
      Playing, GameKeeps, coordinator

LEMMA IgnoredKept ==
    ASSUME IInv, [Next]_vars, ~Failures, \A c \in Observers : Order(c), IgnoredAreShort
    PROVE  IgnoredAreShort'
<1>1. settings' = settings
  BY SettingsStay
<1>2. Files' = Files
  BY <1>1, SameSettings
<1> SUFFICES ASSUME NEW f \in Files, fate'[f] = "ignored"
             PROVE  settings.files[f].short
  BY <1>1, <1>2 DEF IgnoredAreShort
<1>3. CASE fate[f] = "ignored"
  BY <1>3 DEF IgnoredAreShort
<1>4. CASE fate[f] # "ignored"
  <2>1. StartKeeps /\ StartDoes
    BY <1>4, StepKinds, ObserverFates
    DEF Passes, Launches, Relaunching, Relaunches, Stops, AllSame, Observing, Playing,
        GameKeeps, list
  <2>2. PassesOver /\ f = replays
    BY <1>4, <2>1
    DEF StartDoes, Considers, FindsNone, Inquires, Learns, PassesOver, LeavesToAnother,
        PutsOn, Becomes
  <2>3. turn \in Observers /\ phase = "start"
    BY <2>1 DEF StartKeeps
  <2>4. info[turn] = replays /\ replays # 0
    BY <2>2, <2>3 DEF PassesOver, Order
  <2> QED
    BY <2>2, <2>4 DEF PassesOver, Ignored, Described
<1> QED
  BY <1>3, <1>4

LEMMA VersionsKept ==
    ASSUME IInv, [Next]_vars, ~Failures, \A c \in Observers : Order(c), RunsInItsVersion
    PROVE  RunsInItsVersion'
<1>1. settings' = settings
  BY SettingsStay
<1>2. Observers' = Observers
  BY <1>1, SameSettings
<1> SUFFICES ASSUME NEW b \in Observers, replay'[b] # 0,
                    settings.files[replay'[b]].version \in Installed
             PROVE  build'[b] = settings.files[replay'[b]].version
  BY <1>1, <1>2 DEF RunsInItsVersion
<1>3. CASE replay'[b] = replay[b] /\ build'[b] = build[b]
  BY <1>3 DEF RunsInItsVersion
<1>4. CASE ~(replay'[b] = replay[b] /\ build'[b] = build[b])
  <2>1. ~Relaunching /\ ~Launches
    <3>1. Fresh(b) => replay'[b] = 0
      BY DEF Fresh
    <3> QED
      BY <1>4, <3>1 DEF Relaunching, Relaunches, Launches
  <2>2. StartKeeps /\ StartDoes
    BY <1>4, <2>1, StepKinds, OthersSteps
    DEF Passes, Stops, AllSame, Observing, Playing, GameKeeps, playing, observer
  <2>3. b = turn /\ build'[b] = build[b] /\ phase = "start"
    BY <1>4, <2>2 DEF StartKeeps
  <2>4. PutsOn /\ replay'[b] = replays
    BY <1>4, <2>2, <2>3
    DEF StartDoes, Considers, FindsNone, Inquires, Learns, PassesOver, LeavesToAnother,
        PutsOn
  <2>5. info[turn] = replays
    BY <2>3, <2>4 DEF PutsOn, Order
  <2> QED
    BY <2>3, <2>4, <2>5 DEF PutsOn, ShouldRelaunch, VersionMatch, Described
<1> QED
  BY <1>3, <1>4

LEMMA OrderedInvariance == Spec => []Ordered
<1>1. Init => Ordered
  <2> SUFFICES ASSUME Init PROVE Ordered
    OBVIOUS
  <2>1. \A r \in Observers : Order(r)
    BY DEF Init, Order, NonePending, NewSession, Lost, Waiting, Free
  <2>2. IgnoredAreShort /\ RunsInItsVersion
    BY DEF Init, IgnoredAreShort, RunsInItsVersion
  <2> QED
    BY <2>1, <2>2 DEF Ordered
<1>2. ASSUME IInv, Ordered, [Next]_vars PROVE Ordered'
  <2>1. settings' = settings
    BY <1>2, SettingsStay
  <2>2. Observers' = Observers /\ (Failures' <=> Failures)
    BY <2>1, SameSettings
  <2>3. ASSUME ~Failures, NEW b \in Observers PROVE Order(b)'
    <3>1. \A c \in Observers : Order(c)
      BY <1>2, <2>3 DEF Ordered
    <3> QED
      BY <1>2, <2>3, <3>1, StepKinds, ObserverOrder, ThreadOrder, GameOrder, StartOrder
      DEF Observing
  <2>4. ASSUME ~Failures PROVE IgnoredAreShort' /\ RunsInItsVersion'
    BY <1>2, <2>4, IgnoredKept, VersionsKept DEF Ordered
  <2> QED
    BY <2>2, <2>3, <2>4 DEF Ordered
<1>3. IInv /\ Ordered /\ [Next]_vars => Ordered'
  BY <1>2
<1> QED
  BY <1>1, <1>3, Invariance, PTL DEF Spec

\* Only a replay whose own info says that it is short is left out (no game fails).
THEOREM IgnoredAreShortAlways == Spec => []IgnoredAreShort
<1>1. Ordered => IgnoredAreShort
  BY DEF Ordered, IgnoredAreShort
<1> QED
  BY <1>1, OrderedInvariance, PTL

\* A replay runs in the version of the game that recorded it, when that is installed
\* (no game fails).
THEOREM RunsInItsVersionAlways == Spec => []RunsInItsVersion
<1>1. Ordered => RunsInItsVersion
  BY DEF Ordered, RunsInItsVersion
<1> QED
  BY <1>1, OrderedInvariance, PTL

-----------------------------------------------------------------------------
(* What the program knows of a game, when no game fails.                    *)

\* The last status a response told of may be one behind, in realtime.
Behind(s, i) == s = i \/ (Realtime /\ s = "in_replay" /\ i = "ended")
StatusOf(r) ==
    started => IF ready[r] = NoResponse THEN Behind(ses[r].status, inst[r])
               ELSE Behind(ready[r].status, inst[r])
Known == ~Failures => \A r \in Observers : StatusOf(r)

\* A request goes out when no response is there.
LEMMA NothingReady ==
    ASSUME IInv, NEW r \in Observers, ses[r].pending = "none"
    PROVE  ready[r] = NoResponse /\ asked[r] = "none"
<1>1. ready[r] # NoResponse => ready[r].type # "none"
  BY TypeFacts, TypesAssumption DEF ResponseType
<1> QED
  BY <1>1, TypesAssumption, TypeFacts DEF IInv, AnswerOf

LEMMA StatusCalls ==
    ASSUME IInv, ~Failures, started, started', settings' = settings,
           NEW r \in Observers, StatusOf(r),
           Same(r) \/ (\E t \in Types : Sent(r, t)) \/ Unsent(r) \/ Heard(r) \/ Unheard(r)
    PROVE  StatusOf(r)'
<1>1. Realtime' <=> Realtime
  BY SameSettings
<1>2. ~Unheard(r)
  BY DEF Unheard
<1> QED
  BY <1>1, <1>2 DEF StatusOf, Behind, Same, Sent, Unsent, Heard

LEMMA StatusKept ==
    ASSUME IInv, [Next]_vars, ~Failures, \A c \in Observers : StatusOf(c),
           NEW b \in Observers
    PROVE  StatusOf(b)'
<1>1. settings' = settings /\ (Realtime' <=> Realtime)
  BY SettingsStay, SameSettings
<1>2. StatusOf(b)
  OBVIOUS
<1>3. CASE Passes \/ Stops
  BY <1>1, <1>2, <1>3 DEF Passes, Stops, AllSame, StatusOf, Behind
<1>4. ASSUME Fresh(b) PROVE StatusOf(b)'
  BY <1>4, ConnectsFacts DEF Fresh, StatusOf, Behind
<1>5. CASE Launches
  BY <1>4, <1>5 DEF Launches
<1>6. CASE Relaunching
  <2>1. PICK R \in SUBSET Observers, S \in SUBSET Observers : Relaunches(R, S)
    BY <1>6 DEF Relaunching
  <2>2. CASE b \in R
    BY <1>4, <2>1, <2>2 DEF Relaunches
  <2>3. CASE b \notin R
    BY <1>1, <1>2, <2>1, <2>3 DEF Relaunches, Same, StatusOf, Behind
  <2> QED
    BY <2>2, <2>3
<1>7. CASE Observing
  <2>1. PICK r \in Observers : Steps(r) /\ Does(r)
    BY <1>7 DEF Observing
  <2>2. started /\ started' /\ (b # r => Same(b))
    BY <2>1, OthersSteps
  <2> QED
    BY <1>1, <1>2, <2>1, <2>2, StatusCalls DEF Steps, Calls
<1>8. CASE StartKeeps /\ StartDoes
  <2>1. started /\ started' /\ (b # turn => Same(b))
    BY <1>8, StartPcs
  <2>2. CASE b # turn
    BY <1>1, <1>2, <2>1, <2>2, StatusCalls
  <2>3. CASE b = turn /\ ~LeavesToAnother
    BY <1>1, <1>2, <1>8, <2>1, <2>3, StatusCalls, Requests
    DEF StartDoes, Considers, FindsNone, Inquires, Learns, PassesOver, PutsOn
  <2>4. CASE b = turn /\ LeavesToAnother
    <3>1. /\ ses'[b].status = ses[b].status /\ ready'[b] = ready[b] /\ inst'[b] = inst[b]
      BY <2>4, TypeFacts, ErrorFacts DEF LeavesToAnother, ClientErrors
    <3> QED
      BY <1>1, <1>2, <2>1, <3>1 DEF StatusOf, Behind
  <2> QED
    BY <2>2, <2>3, <2>4
<1>9. CASE Playing
  <2>1. PICK r \in Observers : Called(r) /\ (Replies(r) \/ RunsOut(r)) /\ GameKeeps
    BY <1>9 DEF Playing
  <2>2. started' = started
    BY <2>1 DEF GameKeeps, coordinator
  <2>3. CASE b # r
    BY <1>1, <1>2, <2>1, <2>2, <2>3 DEF Called, Same, StatusOf, Behind
  <2>4. CASE b = r /\ RunsOut(r)
    BY <1>1, <1>2, <2>2, <2>4 DEF RunsOut, StatusOf, Behind
  <2>5. CASE b = r /\ Replies(r)
    <3>1. ready'[b] # NoResponse => ready'[b].status = inst'[b]
      BY <2>5 DEF Replies
    <3>2. ready'[b].type # "none"
      BY <2>5 DEF Replies
    <3> QED
      BY <1>1, <3>1, <3>2 DEF StatusOf, Behind, NoResponse
  <2> QED
    BY <2>1, <2>3, <2>4, <2>5
<1> QED
  BY <1>3, <1>5, <1>6, <1>7, <1>8, <1>9, StepKinds

LEMMA KnownInvariance == Spec => []Known
<1>1. Init => Known
  BY DEF Init, Known, StatusOf
<1>2. ASSUME IInv, Known, [Next]_vars PROVE Known'
  <2>1. Observers' = Observers /\ (Failures' <=> Failures)
    BY <1>2, SettingsStay, SameSettings
  <2> QED
    BY <1>2, <2>1, StatusKept DEF Known
<1>3. IInv /\ Known /\ [Next]_vars => Known'
  BY <1>2
<1> QED
  BY <1>1, <1>3, Invariance, PTL DEF Spec

-----------------------------------------------------------------------------
(* The end of a replay is reported.                                         *)

\* Nothing went wrong for an observer, nor does the response say so that is there.
Harmless(r) == ses[r].errors = {} /\ (ready[r] # NoResponse => ~ready[r].error)

\* Until the replay of an observer is started.
Before == {"poll", "loading", "firstlook", "looking", "starting"}
Opening(r) ==
    /\ phase = "idle" /\ updated => ses[r].errors = {}
    /\ phase = "available" /\ ~started => ses[r].errors = {}
    /\ phase = "parallel" /\ pc[r] \in Before => ses[r].errors = {}
    /\ phase = "parallel" /\ pc[r] \in {"firstlook", "looking", "starting"} =>
           ses[r].status = "in_replay" /\ inst[r] = "in_replay" /\ Harmless(r)

\* The step may have ended the replay, and the observer looks at it before it polls
\* again.
Ending(r) == phase # "sequence" /\ pc[r] \in {"look", "observe", "endcheck"} \cup Calling

\* Once it is started: it runs, as long as its end cannot be under way.
NotYet == {"loading", "firstlook", "looking", "starting", "gather", "gathering", "gathered"}
OnAir(r) == told[r] = "start" =>
    /\ pc[r] \notin NotYet
    /\ ~Ending(r) =>
           /\ Harmless(r) /\ ses[r].status = "in_replay"
           /\ pc[r] \notin Waiting => ses[r].pending = "none"
           /\ pc[r] # "step" => inst[r] = "in_replay"
    /\ Ending(r) =>
           /\ asked[r] \notin {"step", "start_replay"}
           /\ inst[r] = "in_replay" => Harmless(r)

Told == ~Failures /\ ~Realtime => \A r \in Observers : Opening(r) /\ OnAir(r)

\* What the proofs use of the layers before.
InOrder == ~Failures /\ \A r \in Observers : Order(r) /\ StatusOf(r)

LEMMA KeptByOthers ==
    ASSUME IInv, InOrder, NEW r \in Observers, Steps(r), Does(r),
           NEW b \in Observers, b # r, Opening(b), OnAir(b)
    PROVE  Opening(b)' /\ OnAir(b)'
<1>1. /\ phase \in {"parallel", "sequence"} /\ phase' \in {phase, "crashed"}
      /\ Same(b) /\ pc'[b] = pc[b] /\ told'[b] = told[b] /\ started' = started
  BY OthersSteps
<1>2. CASE phase = "sequence" /\ phase' = "crashed"
  <2>1. Dangles(r)
    BY <1>2, OrderCalls
    DEF InOrder, Does, Polls, Loads, Starts, Plays, Looks, Waits, Issues, Acts, Ends
  <2>2. r = turn
    BY <1>2, <2>1 DEF Dangles, IInv, PlaceOf
  <2>3. pc[b] = "done"
    BY <1>2, <2>2 DEF IInv, PlaceOf
  <2> QED
    BY <1>1, <1>2, <2>3 DEF Opening, OnAir, Ending, Harmless, Same, Calling
<1>3. CASE ~(phase = "sequence" /\ phase' = "crashed")
  BY <1>1, <1>3 DEF Opening, OnAir, Ending, Harmless, Same
<1> QED
  BY <1>2, <1>3

LEMMA ObserverTold ==
    ASSUME IInv, InOrder, ~Realtime, NEW r \in Observers, Steps(r), Does(r),
           Opening(r), OnAir(r)
    PROVE  Opening(r)' /\ OnAir(r)'
<1>1. /\ phase \in {"parallel", "sequence"} /\ phase' \in {phase, "crashed"}
      /\ started /\ PlaceOf(r)
  BY OthersSteps DEF IInv
<1>2. /\ ses[r].app = "normal" /\ Order(r)
      /\ ready[r] = NoResponse => ses[r].status = inst[r]
      /\ ready[r] # NoResponse => ready[r].status = inst[r] /\ asked[r] = "none"
      /\ ses[r].pending = "none" => ready[r] = NoResponse /\ asked[r] = "none"
  BY <1>1, NothingReady DEF InOrder, Order, StatusOf, Behind, IInv, AnswerOf
<1>3. /\ ~Unheard(r)
      /\ NonePending(r) \/ ses[r].pending = "none" => ~Unsent(r)
  BY <1>2, OrderCalls DEF InOrder, Unsent, Order, Lost
<1>4. /\ Same(r) => /\ ses'[r] = ses[r] /\ inst'[r] = inst[r] /\ ready'[r] = ready[r]
                    /\ asked'[r] = asked[r] /\ (Harmless(r) => Harmless(r)')
      /\ \A t \in Types : Sent(r, t) =>
             /\ ses'[r].status = ses[r].status /\ inst'[r] = inst[r] /\ asked'[r] = t
             /\ ses'[r].errors = ses[r].errors /\ (Harmless(r) => Harmless(r)')
      /\ Heard(r) => /\ ses'[r].status = inst[r] /\ inst'[r] = inst[r]
                     /\ asked'[r] = "none" /\ ses'[r].pending = "none"
                     /\ Harmless(r) => Harmless(r)'
                     /\ ~ready[r].error /\ ses[r].errors = {} => Harmless(r)'
      /\ Harmless(r)' => ses'[r].errors = {}
  BY <1>2 DEF Same, Sent, Heard, Harmless
<1>5. phase = "parallel" =>
          (Ending(r) <=> pc[r] \in {"look", "observe", "endcheck"} \cup Calling)
  BY DEF Ending
<1>6. CASE Polls(r)
  <2>1. /\ phase = "parallel" /\ phase' = "parallel" /\ pc[r] = "poll" /\ Same(r)
        /\ pc'[r] \in {"done", "loading", "play"} /\ told' = told
        /\ pc'[r] = "loading" => ses[r].pending # "none"
    BY <1>6 DEF Polls, HasResponsePending
  <2>2. Opening(r)'
    BY <1>4, <2>1 DEF Opening, Before
  <2>3. OnAir(r)'
    BY <1>4, <2>1 DEF OnAir, Ending, Calling, NotYet, Waiting
  <2> QED
    BY <2>2, <2>3
<1>7. CASE Loads(r)
  <2>1. /\ phase = "parallel" /\ phase' = "parallel" /\ pc[r] = "loading" /\ told' = told
        /\ told[r] # "start" /\ ses[r].errors = {}
    BY <1>7 DEF Loads, OnAir, Opening, NotYet, Before
  <2>2. CASE Loaded(r) /\ Heard(r) /\ pc'[r] = "firstlook"
    <3>1. Harmless(r)' /\ ses'[r].status = "in_replay" /\ inst'[r] = "in_replay"
      BY <1>2, <1>4, <2>1, <2>2 DEF Loaded, Gets, Heard
    <3> QED
      BY <2>1, <2>2, <3>1 DEF Opening, OnAir, Harmless
  <2>3. CASE pc'[r] = "play"
    BY <2>1, <2>3 DEF Opening, OnAir, Before
  <2> QED
    BY <1>7, <2>2, <2>3 DEF Loads
<1>8. CASE Starts(r)
  <2>1. /\ phase = "parallel" /\ phase' = "parallel" /\ pc[r] = "starting" /\ Same(r)
        /\ pc'[r] = "play" /\ ses[r].pending = "none"
        /\ ses[r].status = "in_replay" /\ inst[r] = "in_replay" /\ Harmless(r)
    BY <1>2, <1>8 DEF Starts, Opening, Order, NonePending, Free
  <2> QED
    BY <1>4, <2>1 DEF Opening, OnAir, Before, Ending, Calling, NotYet
<1>9. CASE Plays(r)
  <2>1. /\ phase = "parallel" /\ phase' = "parallel" /\ pc[r] = "play" /\ told' = told
        /\ ses[r].pending = "none"
        /\ ~IsInGame(ses[r]) \/ (Sent(r, "step") /\ pc'[r] = "step")
        /\ pc'[r] \notin Before
    BY <1>2, <1>3, <1>9
    DEF Plays, Tries, Order, NonePending, Free, AfterObservation, Before
  <2>2. Opening(r)'
    BY <2>1 DEF Opening, Before
  <2>3. ASSUME told[r] = "start" PROVE OnAir(r)'
    <3>1. Harmless(r) /\ ses[r].status = "in_replay"
      BY <2>1, <2>3 DEF OnAir, Ending, Calling
    <3>2. IsInGame(ses[r])
      BY <1>2, <3>1 DEF IsInGame
    <3> QED
      BY <1>4, <2>1, <3>1, <3>2, Requests
      DEF OnAir, Ending, Calling, NotYet, Waiting
  <2> QED
    BY <2>1, <2>2, <2>3 DEF OnAir
<1>10. CASE Looks(r)
  <2>1. /\ phase = "parallel" /\ phase' = "parallel" /\ told' = told
        /\ Sent(r, "observation")
        /\ \/ pc[r] = "look" /\ pc'[r] = "observe"
           \/ pc[r] = "firstlook" /\ pc'[r] = "looking"
    BY <1>2, <1>3, <1>10 DEF Looks, Tries, Order, NonePending, Free
  <2>2. Opening(r)'
    BY <1>4, <2>1, Requests DEF Opening, Before
  <2>3. OnAir(r)'
    BY <1>4, <2>1, Requests DEF OnAir, Ending, NotYet
  <2> QED
    BY <2>2, <2>3
<1>11. CASE Waits(r)
  <2>1. Heard(r) /\ phase' = phase /\ told' = told
    BY <1>3, <1>11 DEF Waits
  <2>2. CASE pc[r] \in {"step", "looking", "observe"}
    <3>1. /\ phase = "parallel" /\ phase' = "parallel"
          /\ pc'[r] \in {"look", "events", "endcheck", "starting"}
          /\ pc[r] = "looking" <=> pc'[r] = "starting"
      BY <1>11, <2>1, <2>2 DEF Waits, AfterObservation
    <3>2. Opening(r)'
      BY <1>4, <2>1, <2>2, <3>1 DEF Opening, Before
    <3>3. OnAir(r)'
      BY <1>4, <2>1, <2>2, <3>1 DEF OnAir, Ending, Calling, NotYet
    <3> QED
      BY <3>2, <3>3
  <2>3. CASE pc[r] \in {"query", "acting"}
    <3>1. /\ pc'[r] \in {"actions", "endcheck", "done"}
          /\ phase = "parallel" => pc'[r] # "done"
          /\ phase = "sequence" => pc'[r] # "endcheck"
      BY <1>1, <1>11, <2>3
      DEF Waits, AfterEvents, AfterActions, PlaceOf, Calling
    <3>2. Opening(r)'
      BY <1>1, <2>1, <3>1 DEF Opening, Before
    <3>3. CASE phase = "parallel"
      BY <1>4, <2>1, <2>3, <3>1, <3>2, <3>3 DEF OnAir, Ending, Calling, NotYet
    <3>4. CASE phase = "sequence"
      BY <1>4, <2>1, <2>3, <3>1, <3>2, <3>4 DEF OnAir, Ending, NotYet, Waiting
    <3> QED
      BY <1>1, <3>2, <3>3, <3>4
  <2> QED
    BY <1>11, <2>2, <2>3 DEF Waits
<1>12. ASSUME pc[r] \in {"events", "actions"}, phase' = phase, told' = told,
              NEW t \in {"query", "obs_action"}, NEW p \in {"query", "acting"},
              NEW q \in {AfterEvents, AfterActions},
              (Same(r) /\ pc'[r] = q) \/ Tries(r, t, p, q)
       PROVE  Opening(r)' /\ OnAir(r)'
  <2>1. /\ q \in {"actions", "endcheck", "done"}
        /\ phase = "parallel" => q # "done"
        /\ phase = "sequence" => q # "endcheck"
    BY <1>1, <1>12 DEF AfterEvents, AfterActions, PlaceOf, Calling
  <2>2. Opening(r)'
    BY <1>1, <1>12, <2>1 DEF Opening, Before, Tries
  <2>3. CASE phase = "parallel"
    <3>1. ~Unsent(r)
      BY <1>3, <1>12, <2>3 DEF NonePending
    <3> QED
      BY <1>4, <1>12, <2>1, <2>2, <2>3, <3>1, Requests
      DEF OnAir, Ending, Calling, NotYet, Tries
  <2>4. CASE phase = "sequence"
    <3>1. told[r] = "start" =>
              /\ Harmless(r) /\ ses[r].status = "in_replay" /\ inst[r] = "in_replay"
              /\ ses[r].pending = "none"
      BY <1>12, <2>4 DEF OnAir, Ending, Waiting
    <3> QED
      BY <1>3, <1>4, <1>12, <2>1, <2>2, <2>4, <3>1, Requests
      DEF OnAir, Ending, NotYet, Tries, Waiting
  <2> QED
    BY <1>1, <2>3, <2>4, <2>2
<1>13. CASE Issues(r)
  BY <1>12, <1>13 DEF Issues
<1>14. CASE Acts(r)
  BY <1>12, <1>14 DEF Acts
<1>15. CASE Dangles(r)
  <2>1. /\ pc[r] \in {"events", "actions"} /\ pc'[r] = pc[r] /\ phase' = "crashed"
        /\ Same(r) /\ told' = told
    BY <1>15 DEF Dangles
  <2>2. Opening(r)'
    BY <2>1 DEF Opening
  <2>3. OnAir(r)'
    BY <1>1, <1>2, <1>4, <2>1, Requests, TypesAssumption
    DEF OnAir, Ending, Calling, NotYet, Waiting
  <2> QED
    BY <2>2, <2>3
<1>16. CASE Ends(r)
  <2>1. /\ pc[r] = "endcheck" /\ phase = "parallel" /\ phase' = "parallel" /\ Same(r)
        /\ pc'[r] = "done"
        /\ told' = told \/ told'[r] = "end"
        /\ told'[r] # "end" => IsInGame(ses[r])
        /\ ses[r].pending = "none"
    BY <1>2, <1>16 DEF Ends, Order, NonePending, Free, IInv, TypeOK
  <2>2. Opening(r)'
    BY <2>1 DEF Opening, Before
  <2>3. ASSUME told'[r] = "start" PROVE OnAir(r)'
    <3>1. told[r] = "start" /\ IsInGame(ses[r])
      BY <2>1, <2>3
    <3>2. inst[r] = "in_replay" /\ ses[r].status = "in_replay"
      BY <1>2, <2>1, <3>1, TypeFacts DEF IsInGame, Games, Lost
    <3>3. Harmless(r)
      BY <2>1, <3>1, <3>2 DEF OnAir, Ending
    <3> QED
      BY <1>4, <2>1, <3>2, <3>3 DEF OnAir, Ending, Calling, NotYet
  <2> QED
    BY <2>2, <2>3 DEF OnAir
<1> QED
  BY <1>6, <1>7, <1>8, <1>9, <1>10, <1>11, <1>13, <1>14, <1>15, <1>16 DEF Does

LEMMA ThreadTold ==
    ASSUME IInv, InOrder, ~Realtime, NEW b \in Observers, Opening(b), OnAir(b),
           Passes \/ Launches \/ Relaunching \/ Stops
    PROVE  Opening(b)' /\ OnAir(b)'
<1>1. CASE Passes
  <2>1. /\ ses'[b] = ses[b] /\ inst'[b] = inst[b] /\ pc[b] = "done" /\ asked'[b] = asked[b]
        /\ ready'[b] = ready[b] /\ told'[b] = told[b] /\ started' = started
        /\ updated' = updated /\ ~Ending(b)
    BY <1>1 DEF Passes, AllSame, Ending, Calling
  <2>2. /\ pc'[b] \in {"done", "poll", "events", "ready"}
        /\ pc'[b] = "events" => phase' = "sequence"
        /\ pc'[b] = "poll" => phase' = "parallel" /\ phase = "idle" /\ updated
        /\ phase' = "parallel" => pc'[b] = "poll"
        /\ phase' # "idle"
    BY <1>1, <2>1 DEF Passes, Goes, Turns
  <2>3. phase' = "available" /\ ~started => phase = "idle" /\ updated
    BY <1>1 DEF Passes, Goes, IInv, Launched, Resting
  <2>4. Opening(b)'
    BY <2>1, <2>2, <2>3 DEF Opening
  <2>5. OnAir(b)'
    BY <2>1, <2>2 DEF OnAir, Ending, Calling, NotYet, Waiting, Harmless
  <2> QED
    BY <2>4, <2>5
<1>2. CASE Launches
  BY <1>2 DEF Launches, Unlaunched, Opening, OnAir
<1>3. CASE Relaunching
  <2>1. PICK R \in SUBSET Observers, S \in SUBSET Observers : Relaunches(R, S)
    BY <1>3 DEF Relaunching
  <2>2. /\ phase = "errors" /\ phase' = "idle" /\ pc'[b] = "done" /\ pc[b] = "done"
        /\ told'[b] = told[b]
        /\ R = IF Recovery THEN Failed ELSE {}
        /\ updated' => ~ErrorOccurred(S)
        /\ S \subseteq R
        /\ b \in R => Fresh(b)
        /\ b \notin R => Same(b)
    BY <2>1 DEF Relaunches, IInv, PlaceOf, Resting
  <2>3. ASSUME updated' PROVE ses'[b].errors = {}
    <3>1. CASE b \in R
      BY <2>2, <3>1, ConnectsFacts DEF Fresh, InOrder
    <3>2. CASE b \notin R /\ Recovery
      BY <2>2, <3>2 DEF Same, Failed
    <3>3. CASE b \notin R /\ ~Recovery
      <4>1. R = {} /\ S = {}
        BY <2>2, <3>3
      <4>2. Failed = {}
        BY <2>2, <2>3, <4>1 DEF ErrorOccurred
      <4> QED
        BY <2>2, <3>3, <4>2 DEF Same, Failed
    <3> QED
      BY <3>1, <3>2, <3>3
  <2>4. told[b] = "start" => b \notin R
    BY <2>2 DEF OnAir, Ending, Calling, Harmless, Failed
  <2>5. OnAir(b)'
    BY <2>2, <2>4 DEF OnAir, Ending, Calling, NotYet, Waiting, Harmless, Same
  <2> QED
    BY <2>2, <2>3, <2>5 DEF Opening
<1>4. CASE Stops
  <2>1. phase' = "exited" => ~updated' \/ phase = "exited"
    BY <1>4 DEF Stops, AllSame
  <2> QED
    BY <1>4, <2>1 DEF Stops, AllSame, Opening, OnAir, Ending, Harmless
<1> QED
  BY <1>1, <1>2, <1>3, <1>4

LEMMA StartTold ==
    ASSUME IInv, InOrder, ~Realtime, NEW b \in Observers, OnAir(b), StartKeeps, StartDoes
    PROVE  Opening(b)' /\ OnAir(b)'
<1>1. /\ phase = "start" /\ phase' \in {"start", "errors"} /\ told'[b] = told[b]
  BY StartPcs DEF StartKeeps
<1>2. Opening(b)'
  BY <1>1 DEF Opening
<1>3. ASSUME Same(b), pc[b] \in {"ready", "done"}, pc'[b] \in {"ready", "done"}
      PROVE  OnAir(b)'
  BY <1>1, <1>3 DEF OnAir, Ending, Calling, NotYet, Waiting, Harmless, Same
<1>4. CASE b # turn
  BY <1>2, <1>3, <1>4, StartPcs
<1>5. CASE b = turn /\ told[b] = "start"
  <2>1. pc[b] \notin NotYet /\ pc[b] \in Taking
    BY <1>5 DEF OnAir, StartKeeps
  <2>2. Considers
    BY <1>5, <2>1
    DEF StartDoes, FindsNone, Inquires, Learns, PassesOver, LeavesToAnother, PutsOn, NotYet
  <2>3. ses[b].status = "in_replay"
    BY <1>1, <1>5, <2>2 DEF OnAir, Considers, Ending, Calling
  <2>4. GoesToNext
    BY <1>5, <2>2, <2>3 DEF Considers, IsReadyForCreateGame
  <2>5. pc'[b] \in {"ready", "done"}
    BY <2>4 DEF GoesToNext
  <2> QED
    BY <1>2, <1>3, <1>5, <2>2, <2>5 DEF Considers
<1>6. CASE told[b] # "start"
  BY <1>1, <1>2, <1>6 DEF OnAir
<1> QED
  BY <1>4, <1>5, <1>6

\* What a game may answer.
LEMMA EffectFacts ==
    ASSUME NEW r \in Observers
    PROVE  /\ asked[r] \notin {"step", "start_replay"} => Effects(r) \subseteq {inst[r]}
           /\ inst[r] = "in_replay" /\ asked[r] # "start_replay" => Valid(r, asked[r])
           /\ inst[r] = "in_replay" /\ asked[r] = "step" =>
                  Effects(r) \subseteq {"in_replay", "ended"}
BY DEF Effects, StatesAfter, Valid

LEMMA GameTold ==
    ASSUME IInv, InOrder, ~Realtime, NEW b \in Observers, Opening(b), OnAir(b), Playing
    PROVE  Opening(b)' /\ OnAir(b)'
<1>1. PICK r \in Observers : Called(r) /\ (Replies(r) \/ RunsOut(r)) /\ GameKeeps
  BY DEF Playing
<1>2. UNCHANGED <<phase, pc, ses, told, updated, started>>
  BY <1>1 DEF GameKeeps, coordinator, playing
<1>3. CASE b # r
  BY <1>1, <1>2, <1>3 DEF Called, Same, Opening, OnAir, Ending, Harmless
<1>4. CASE b = r
  <2>1. /\ asked[b] # "none" /\ asked'[b] = "none" /\ inst'[b] \in Effects(b)
        /\ ready[b] = NoResponse /\ ses[b].pending = asked[b] /\ Order(b) /\ started
    BY <1>1, <1>4 DEF Replies, RunsOut, IInv, AnswerOf, InOrder, Launched, Unlaunched
  <2>2. ses[b].status = inst[b]
    BY <2>1 DEF InOrder, StatusOf, Behind
  <2>3. Valid(b, asked[b]) => (Harmless(b) => Harmless(b)')
    <3> DEFINE e == ~Valid(b, asked[b])
    <3>1. ready'[b] = [type |-> asked[b], status |-> inst'[b], error |-> e] /\ ses' = ses
      BY <1>1, <1>2, <1>4 DEF Replies, RunsOut
    <3> HIDE DEF e
    <3>2. ready'[b].error <=> e
      BY <3>1
    <3> QED
      BY <3>1, <3>2 DEF e, Harmless
  <2>4. Opening(b)'
    <3>1. ASSUME phase = "parallel", pc[b] \in {"firstlook", "looking", "starting"}
          PROVE  inst'[b] = "in_replay" /\ Harmless(b)'
      <4>1. asked[b] = "observation"
        BY <2>1, <3>1 DEF Order, NonePending, Free, Waiting, AwaitedAt
      <4> QED
        BY <2>1, <2>3, <3>1, <4>1, EffectFacts DEF Opening
    <3> QED
      BY <1>2, <3>1 DEF Opening
  <2>5. ASSUME told[b] = "start", ~Ending(b) PROVE OnAir(b)'
    <3>1. inst[b] = "in_replay" /\ pc[b] \in Waiting /\ pc[b] \notin NotYet /\ Harmless(b)
      BY <2>1, <2>2, <2>5 DEF OnAir
    <3>2. asked[b] # "start_replay" /\ (asked[b] = "step" => pc[b] = "step")
      BY <2>1, <3>1 DEF Order, Waiting, NotYet, AwaitedAt
    <3>3. Harmless(b)'
      BY <2>3, <3>1, <3>2, EffectFacts
    <3>4. pc[b] # "step" => inst'[b] = "in_replay"
      BY <2>1, <3>1, <3>2, EffectFacts
    <3>5. ~Ending(b)'
      BY <1>2, <2>5 DEF Ending
    <3> QED
      BY <1>2, <2>5, <3>3, <3>4, <3>5 DEF OnAir
  <2>6. ASSUME told[b] = "start", Ending(b) PROVE OnAir(b)'
    <3>1. asked[b] \notin {"step", "start_replay"} /\ (inst[b] = "in_replay" => Harmless(b))
      BY <2>6 DEF OnAir
    <3>2. inst'[b] = inst[b]
      BY <2>1, <3>1, EffectFacts
    <3>3. inst'[b] = "in_replay" => Harmless(b)'
      BY <2>3, <3>1, <3>2, EffectFacts
    <3>4. Ending(b)'
      BY <1>2, <2>6 DEF Ending
    <3> QED
      BY <1>2, <2>1, <2>6, <3>3, <3>4 DEF OnAir
  <2> QED
    BY <1>2, <2>4, <2>5, <2>6 DEF OnAir
<1> QED
  BY <1>3, <1>4

LEMMA ToldInvariance == Spec => []Told
<1>1. Init => Told
  BY DEF Init, Told, Opening, OnAir, NewSession
<1>2. ASSUME IInv, Ordered, Known, Told, [Next]_vars PROVE Told'
  <2>1. settings' = settings
    BY <1>2, SettingsStay
  <2>2. Observers' = Observers /\ (Failures' <=> Failures) /\ (Realtime' <=> Realtime)
    BY <2>1, SameSettings
  <2>3. ASSUME ~Failures, ~Realtime, NEW b \in Observers
        PROVE  Opening(b)' /\ OnAir(b)'
    <3>1. InOrder /\ \A c \in Observers : Opening(c) /\ OnAir(c)
      BY <1>2, <2>3 DEF Ordered, Known, InOrder, Told
    <3>2. CASE Observing
      <4>1. PICK r \in Observers : Steps(r) /\ Does(r)
        BY <3>2 DEF Observing
      <4> QED
        BY <1>2, <2>3, <3>1, <4>1, ObserverTold, KeptByOthers
    <3> QED
      BY <1>2, <2>3, <3>1, <3>2, StepKinds, ThreadTold, StartTold, GameTold
  <2> QED
    BY <2>2, <2>3 DEF Told
<1>3. IInv /\ Ordered /\ Known /\ Told /\ [Next]_vars => Told'
  BY <1>2
<1> QED
  BY <1>1, <1>3, Invariance, OrderedInvariance, KnownInvariance, PTL DEF Spec

\* The end of a replay is reported: after an Update, a replay that was started and not
\* reported to have ended is still running (no game fails, not in realtime).
THEOREM EndsAreReportedAlways == Spec => []EndsAreReported
<1>1. ASSUME IInv, Ordered, Told PROVE EndsAreReported
  <2> SUFFICES ASSUME phase = "idle", ~Realtime, ~Failures, NEW r \in Observers,
                      told[r] = "start"
               PROVE  IsInGame(ses[r])
    BY DEF EndsAreReported
  <2>1. ses[r].app = "normal" /\ OnAir(r) /\ pc[r] = "done"
    BY <1>1 DEF Ordered, Order, Told, IInv, PlaceOf, Resting
  <2> QED
    BY <2>1 DEF OnAir, Ending, Calling, IsInGame
<1>2. IInv /\ Ordered /\ Told => EndsAreReported
  BY <1>1
<1> QED
  BY <1>2, Invariance, OrderedInvariance, ToldInvariance, PTL

-----------------------------------------------------------------------------
(* No replay is forgotten, when no game fails and no callback asks for too  *)
(* much.                                                                    *)

Peaceful == ~Failures /\ Recovery /\ NothingTooLate

\* A game is only asked what it can answer, and the only error there is tells that the
\* replay needs another version: it lasts until the next Relaunch.
Played == {"firstlook", "looking", "starting", "look", "observe", "endcheck", "step"}
Peace(r) ==
    /\ asked[r] # "none" => Valid(r, asked[r])
    /\ ready[r] # NoResponse => ~ready[r].error
    /\ pc[r] \in Played => inst[r] \in {"in_replay", "ended"}
    /\ phase = "parallel" /\ pc[r] \in Calling => inst[r] \in {"in_replay", "ended"}
    /\ pc[r] \in {"gather", "gathering", "gathered"} => inst[r] \in {"launched", "ended"}
    /\ ses[r].errors # {} => /\ phase = "errors" \/ (phase = "start" /\ r < turn)
                             /\ ses[r].pending = "none"
    /\ started /\ ready[r] = NoResponse =>
           ses[r].status \in {"launched", "in_replay", "ended"}
    /\ pc[r] # "acting" /\ (phase = "sequence" => pc[r] # "query")

\* The replay of an observer is on its way; an observer has no place for a replay.
Loading(r) ==
    /\ ses[r].errors = {}
    /\ ses[r].pending = "start_replay" \/ pc[r] \in {"firstlook", "looking", "starting"}
Busy(r) == ses[r].errors # {} \/ ses[r].pending # "none" \/ IsInGame(ses[r])

\* Every replay that was taken off the list went to an observer, and one is left only
\* while there is no place for it.
Fated ==
    /\ \A f \in Files : f > replays => fate[f] # "listed"
    /\ \A f \in Files : fate[f] # "refused"
    /\ \A f \in Files : fate[f] = "sent" => \E r \in Observers : replay[r] = f /\ Loading(r)
    /\ phase = "errors" /\ replays # 0 => \A r \in Observers : Busy(r)
    /\ phase = "start" /\ replays # 0 => \A r \in Observers : r < turn => Busy(r)
    /\ LoopEnded => replays = 0 /\ \A f \in Files : fate[f] # "sent"

InPeace == Peaceful => Fated /\ \A r \in Observers : Peace(r)

\* What the game of an observer is at.
LEMMA PeaceFacts ==
    ASSUME IInv, InOrder, Peaceful, NoCamera, NEW r \in Observers, Peace(r), started
    PROVE  /\ ~Unheard(r) /\ ~camera[r]
           /\ NonePending(r) \/ ses[r].pending = "none" =>
                  ~Unsent(r) /\ ready[r] = NoResponse /\ asked[r] = "none"
           /\ ready[r] = NoResponse => Behind(ses[r].status, inst[r])
           /\ ready[r] # NoResponse => Behind(ready[r].status, inst[r]) /\ asked[r] = "none"
           /\ inst[r] \in {"launched", "in_replay", "ended"}
           /\ Heard(r) => /\ ses'[r].status \in {"launched", "in_replay", "ended"}
                          /\ ses'[r].errors = ses[r].errors
<1>1. /\ ~Unheard(r) /\ Order(r) /\ StatusOf(r) /\ ~camera[r]
      /\ NonePending(r) => ~Unsent(r) /\ ses[r].pending = "none"
      /\ inst[r] \in Games /\ inst[r] # "none"
  BY OrderCalls, TypeFacts DEF InOrder, Order, Peaceful, NothingTooLate, NoCamera, IInv, Launched
<1>2. ses[r].pending = "none" => ~Unsent(r) /\ ready[r] = NoResponse /\ asked[r] = "none"
  BY <1>1, NothingReady DEF Unsent, Order, Lost
<1>3. inst[r] \in {"launched", "in_replay", "ended"}
  BY <1>1 DEF Order, Games
<1>4. ready[r] # NoResponse => asked[r] = "none"
  BY DEF IInv, AnswerOf
<1>5. /\ ready[r] = NoResponse => Behind(ses[r].status, inst[r])
      /\ ready[r] # NoResponse => Behind(ready[r].status, inst[r])
  BY <1>1 DEF StatusOf
<1>6. Heard(r) => /\ ses'[r].status \in {"launched", "in_replay", "ended"}
                  /\ ses'[r].errors = ses[r].errors
  BY <1>3, <1>5 DEF Heard, Behind, Peace
<1> QED
  BY <1>1, <1>2, <1>3, <1>4, <1>5, <1>6

\* What a call of an observer in peace leaves.
LEMMA PeaceCalls ==
    ASSUME IInv, InOrder, Peaceful, NoCamera, NEW r \in Observers, Peace(r), started, started',
           phase \in {"parallel", "sequence"}, phase' \in {phase, "crashed"},
           Same(r) \/ Heard(r) \/ \E t \in Types : Sent(r, t) /\ Valid(r, t),
           pc'[r] \in Played => inst[r] \in {"in_replay", "ended"},
           phase' = "parallel" /\ pc'[r] \in Calling => inst[r] \in {"in_replay", "ended"},
           pc'[r] \notin {"gather", "gathering", "gathered", "acting"},
           phase' = "sequence" => pc'[r] # "query"
    PROVE  Peace(r)'
<1>1. /\ ready[r] # NoResponse => asked[r] = "none"
      /\ Heard(r) => /\ ses'[r].status \in {"launched", "in_replay", "ended"}
                     /\ ses'[r].errors = ses[r].errors
  BY PeaceFacts
<1>2. ses[r].errors = {}
  BY DEF Peace
<1>3. CASE Same(r)
  BY <1>2, <1>3 DEF Same, Peace, Valid
<1>4. CASE Heard(r)
  BY <1>1, <1>2, <1>4 DEF Heard, Peace
<1>5. ASSUME NEW t \in Types, Sent(r, t), Valid(r, t) PROVE Peace(r)'
  <2>1. /\ ses'[r].errors = {} /\ ses'[r].status = ses[r].status /\ asked'[r] = t
        /\ inst'[r] = inst[r] /\ ready'[r] = ready[r]
    BY <1>2, <1>5 DEF Sent
  <2>2. Valid(r, asked[r])'
    BY <1>5, <2>1 DEF Valid
  <2> QED
    BY <2>1, <2>2 DEF Peace
<1> QED
  BY <1>3, <1>4, <1>5

LEMMA ObserverPeace ==
    ASSUME IInv, InOrder, Peaceful, NoCamera, NEW r \in Observers, Steps(r), Does(r), Peace(r)
    PROVE  Peace(r)'
<1>1. /\ phase \in {"parallel", "sequence"} /\ phase' \in {phase, "crashed"}
      /\ started /\ started' /\ PlaceOf(r)
  BY OthersSteps DEF IInv
<1>2. /\ ~Unheard(r) /\ ~camera[r] /\ ses[r].app = "normal"
      /\ NonePending(r) => ~Unsent(r) /\ ready[r] = NoResponse
      /\ ready[r] = NoResponse => /\ Behind(ses[r].status, inst[r])
                                  /\ ses[r].status \in {"launched", "in_replay", "ended"}
      /\ ready[r] # NoResponse => Behind(ready[r].status, inst[r])
  BY <1>1, PeaceFacts DEF Peace, InOrder, Order
<1>3. /\ pc[r] \in Played => inst[r] \in {"in_replay", "ended"}
      /\ phase = "parallel" /\ pc[r] \in Calling => inst[r] \in {"in_replay", "ended"}
      /\ pc[r] # "acting"
      /\ phase = "sequence" => pc[r] # "query"
  BY DEF Peace
<1>4. phase = "sequence" => "query" \notin Asks /\ AfterActions = "done" /\ ~MultiThreaded
  BY <1>1 DEF PlaceOf, Peaceful, NothingTooLate, ThreadedOrQuiet, AfterActions
<1>5. AfterObservation \in {"events", "endcheck"} /\ AfterActions \in {"endcheck", "done"}
      /\ AfterEvents \in {"actions", AfterActions}
  BY DEF AfterObservation, AfterEvents, AfterActions
<1>6. inst[r] \in {"in_replay", "ended"} => Valid(r, "observation") /\ Valid(r, "query")
  BY DEF Valid
<1>7. CASE Polls(r)
  <2>1. Same(r) /\ pc'[r] \in {"done", "loading", "play"}
    BY <1>7 DEF Polls
  <2> QED
    BY <1>1, <2>1, PeaceCalls DEF Played, Calling
<1>8. CASE Loads(r)
  <2>1. Heard(r) /\ pc'[r] \in {"firstlook", "play"}
    BY <1>2, <1>8 DEF Loads
  <2>2. pc'[r] = "firstlook" => inst[r] \in {"in_replay", "ended"}
    BY <1>2, <1>8 DEF Loads, Loaded, Gets, Behind, Heard
  <2> QED
    BY <1>1, <2>1, <2>2, PeaceCalls DEF Played, Calling
<1>9. CASE Starts(r)
  <2>1. Same(r) /\ pc'[r] = "play"
    BY <1>9 DEF Starts
  <2> QED
    BY <1>1, <2>1, PeaceCalls DEF Played, Calling
<1>10. CASE Plays(r)
  <2>1. NonePending(r)
    BY <1>10 DEF Plays, NonePending, Free
  <2>2. CASE ~IsInGame(ses[r])
    <3>1. Same(r) /\ pc'[r] = "done"
      BY <1>10, <2>2 DEF Plays
    <3> QED
      BY <1>1, <3>1, PeaceCalls DEF Played, Calling
  <2>3. CASE IsInGame(ses[r])
    <3>1. ses[r].status = "in_replay" /\ Behind("in_replay", inst[r])
      BY <1>2, <2>1, <2>3 DEF IsInGame
    <3>2. inst[r] \in {"in_replay", "ended"} /\ (~Realtime => inst[r] = "in_replay")
      BY <3>1 DEF Behind
    <3>3. \/ Sent(r, "observation") /\ pc'[r] = "observe"
          \/ ~Realtime /\ Sent(r, "step") /\ pc'[r] = "step"
      BY <1>2, <1>10, <2>1, <2>3 DEF Plays, Tries
    <3>4. ~Realtime => Valid(r, "step")
      BY <3>2 DEF Valid
    <3> QED
      BY <1>1, <1>6, <3>2, <3>3, <3>4, PeaceCalls, Requests DEF Played, Calling
  <2> QED
    BY <2>2, <2>3
<1>11. CASE Looks(r)
  <2>1. NonePending(r) /\ inst[r] \in {"in_replay", "ended"}
    BY <1>3, <1>11 DEF Looks, NonePending, Free, Played
  <2>2. Sent(r, "observation") /\ pc'[r] \in {"observe", "looking"}
    BY <1>2, <1>11, <2>1 DEF Looks, Tries
  <2> QED
    BY <1>1, <1>6, <2>1, <2>2, PeaceCalls, Requests DEF Played, Calling
<1>12. CASE Waits(r)
  <2>1. Heard(r) /\ phase = "parallel" /\ inst[r] \in {"in_replay", "ended"}
    BY <1>1, <1>2, <1>3, <1>12 DEF Waits, Played, Calling
  <2>2. pc'[r] \in {"look", "starting", "events", "endcheck", "actions", "done"}
    BY <1>3, <1>5, <1>12 DEF Waits
  <2> QED
    BY <1>1, <2>1, <2>2, PeaceCalls DEF Played, Calling
<1>13. CASE Issues(r)
  <2>1. pc[r] \in Calling /\ (phase = "parallel" => NonePending(r))
    BY <1>13 DEF Issues, NonePending, Calling
  <2>2. \/ Same(r) /\ pc'[r] \in {"actions", AfterActions}
        \/ phase = "parallel" /\ Sent(r, "query") /\ pc'[r] = "query"
    BY <1>1, <1>2, <1>4, <1>5, <1>13, <2>1 DEF Issues, Tries
  <2> QED
    BY <1>1, <1>3, <1>4, <1>5, <1>6, <2>1, <2>2, PeaceCalls, Requests DEF Played, Calling
<1>14. CASE Acts(r)
  <2>1. pc[r] \in Calling /\ Same(r) /\ pc'[r] = AfterActions
    BY <1>2, <1>14 DEF Acts, Calling
  <2> QED
    BY <1>1, <1>3, <1>4, <1>5, <2>1, PeaceCalls DEF Played, Calling
<1>15. CASE Dangles(r)
  <2>1. pc[r] \in {"events", "actions"} /\ pc'[r] = pc[r] /\ phase' = "crashed" /\ Same(r)
    BY <1>15 DEF Dangles
  <2> QED
    BY <1>1, <2>1, PeaceCalls DEF Played, Calling
<1>16. CASE Ends(r)
  <2>1. Same(r) /\ pc'[r] = "done"
    BY <1>16 DEF Ends
  <2> QED
    BY <1>1, <2>1, PeaceCalls DEF Played, Calling
<1> QED
  BY <1>7, <1>8, <1>9, <1>10, <1>11, <1>12, <1>13, <1>14, <1>15, <1>16 DEF Does

LEMMA ThreadPeace ==
    ASSUME IInv, InOrder, Peaceful, NEW b \in Observers, Peace(b),
           Passes \/ Launches \/ Relaunching \/ Stops
    PROVE  Peace(b)'
<1>1. CASE Passes
  <2>1. /\ Same(b) /\ pc[b] = "done" /\ started' = started
        /\ phase \notin {"errors", "start"}
    BY <1>1 DEF Passes, AllSame, Same, Goes
  <2>2. /\ pc'[b] \in {"done", "poll", "events", "ready"}
        /\ pc'[b] = "events" => phase' = "sequence"
    BY <1>1, <2>1 DEF Passes, Goes, Turns
  <2> QED
    BY <2>1, <2>2 DEF Same, Peace, Valid, Played, Calling
<1>2. ASSUME Fresh(b), pc'[b] \in {"done", "ready"}
      PROVE  Peace(b)'
  <2>1. ses'[b].errors = {} /\ ses'[b].status = "launched"
    BY <1>2, ConnectsFacts DEF Fresh, Peaceful
  <2> QED
    BY <1>2, <2>1 DEF Fresh, Peace, Played, Calling
<1>3. CASE Launches
  <2>1. Fresh(b) /\ pc'[b] \in {"done", "ready"}
    BY <1>3 DEF Launches, Turns
  <2> QED
    BY <1>2, <2>1
<1>4. CASE Relaunching
  <2>1. PICK R \in SUBSET Observers, S \in SUBSET Observers : Relaunches(R, S)
    BY <1>4 DEF Relaunching
  <2>2. pc'[b] = "done" /\ pc[b] = "done" /\ started' = started /\ R = Failed
    BY <2>1 DEF Relaunches, IInv, PlaceOf, Resting, Peaceful
  <2>3. CASE b \in R
    BY <1>2, <2>1, <2>2, <2>3 DEF Relaunches
  <2>4. CASE b \notin R
    <3>1. Same(b) /\ ses[b].errors = {}
      BY <2>1, <2>2, <2>4 DEF Relaunches, Failed
    <3> QED
      BY <2>2, <3>1 DEF Same, Peace, Valid, Played, Calling
  <2> QED
    BY <2>3, <2>4
<1>5. CASE Stops
  BY <1>5 DEF Stops, AllSame, Peace, Valid, Played, Calling, IInv, PlaceOf, Resting
<1> QED
  BY <1>1, <1>3, <1>4, <1>5

\* The turn goes on, or the loop is over.
LEMMA StartMoves ==
    ASSUME IInv, StartKeeps, StartDoes
    PROVE  /\ phase = "start" /\ started /\ started' /\ turn \in Nat /\ Observers \subseteq Nat
           /\ \/ phase' = "errors" /\ ~HasLater /\ turn' = turn
              \/ phase' = "start" /\ turn' \in {turn, turn + 1}
<1>1. turn \in Observers /\ N \in Nat
  BY ObserverCount DEF StartKeeps
<1>2. turn \in Nat /\ Observers \subseteq Nat
  BY <1>1 DEF Observers
<1>3. phase = "start" /\ started /\ started'
  BY <1>1, StartPcs
<1>4. GoesToNext \/ \E p \in Taking : GoesTo(p)
  BY DEF StartDoes, Considers, FindsNone, Inquires, Learns, PassesOver, LeavesToAnother,
         PutsOn, Taking
<1> QED
  BY <1>2, <1>3, <1>4 DEF GoesToNext, GoesTo

LEMMA StartPeace ==
    ASSUME IInv, InOrder, Peaceful, NoCamera, NEW b \in Observers, Peace(b),
           StartKeeps, StartDoes
    PROVE  Peace(b)'
<1>1. /\ phase = "start" /\ started /\ started' /\ b \in Nat /\ turn \in Nat
      /\ \/ phase' = "errors"
         \/ phase' = "start" /\ turn' \in {turn, turn + 1}
  BY StartMoves
<1>2. CASE b # turn
  <2>1. Same(b) /\ pc'[b] \in {"ready", "done"}
    BY <1>2, StartPcs
  <2> QED
    BY <1>1, <2>1 DEF Same, Peace, Valid, Played, Calling
<1>3. CASE b = turn
  <2>1. /\ ses[b].errors = {} /\ ~Unheard(b)
        /\ pc[b] \in Free \/ ses[b].pending = "none" =>
               ~Unsent(b) /\ ready[b] = NoResponse /\ asked[b] = "none"
        /\ ready[b] = NoResponse => Behind(ses[b].status, inst[b])
        /\ ready[b] # NoResponse => asked[b] = "none"
        /\ Heard(b) => /\ ses'[b].status \in {"launched", "in_replay", "ended"}
                       /\ ses'[b].errors = ses[b].errors
    BY <1>1, <1>3, PeaceFacts DEF Peace, NonePending
  <2>2. GoesToNext => pc'[b] \in {"ready", "done"}
    BY <1>3 DEF GoesToNext
  <2>3. pc[b] \in {"gather", "gathering", "gathered"} => inst[b] \in {"launched", "ended"}
    BY DEF Peace
  <2>4. ASSUME Same(b) \/ Heard(b) \/ \E t \in Types : Sent(b, t) /\ Valid(b, t),
               pc'[b] \in Taking \cup {"done"},
               pc'[b] \in {"gather", "gathering", "gathered"} => inst[b] \in {"launched", "ended"}
        PROVE  Peace(b)'
    <3>1. /\ pc'[b] \notin Played \cup Calling
          /\ pc'[b] \in {"gather", "gathering", "gathered"} => inst[b] \in {"launched", "ended"}
      BY <2>4 DEF Taking, Played, Calling
    <3>2. CASE Same(b)
      BY <1>1, <2>1, <3>1, <3>2 DEF Same, Peace, Valid, Calling
    <3>3. CASE Heard(b)
      BY <1>1, <2>1, <3>1, <3>3 DEF Heard, Peace, Calling
    <3>4. ASSUME NEW t \in Types, Sent(b, t), Valid(b, t) PROVE Peace(b)'
      <4>1. /\ ses'[b].errors = {} /\ ses'[b].status = ses[b].status /\ asked'[b] = t
            /\ inst'[b] = inst[b] /\ ready'[b] = ready[b]
        BY <2>1, <3>4 DEF Sent
      <4>2. Valid(b, asked[b])'
        BY <3>4, <4>1 DEF Valid
      <4> QED
        BY <1>1, <3>1, <4>1, <4>2 DEF Peace, Calling
    <3> QED
      BY <2>4, <3>2, <3>3, <3>4
  <2>5. CASE Considers
    <3>1. Same(b) /\ pc'[b] \in {"gather", "ready", "done"}
      BY <1>3, <2>2, <2>5 DEF Considers, GoesTo
    <3>2. pc'[b] = "gather" => inst[b] \in {"launched", "ended"}
      BY <1>3, <2>1, <2>2, <2>5
      DEF Considers, IsReadyForCreateGame, HasResponsePending, Behind
    <3> QED
      BY <2>4, <3>1, <3>2 DEF Taking
  <2>6. CASE FindsNone
    BY <1>3, <2>2, <2>4, <2>6 DEF FindsNone, Taking
  <2>7. CASE Inquires
    <3>1. Sent(b, "replay_info") /\ pc'[b] = "gathering" /\ Valid(b, "replay_info")
      BY <1>3, <2>1, <2>7 DEF Inquires, GoesTo, Free, Valid
    <3>2. inst[b] \in {"launched", "ended"}
      BY <1>3, <2>3, <2>7 DEF Inquires
    <3> QED
      BY <2>4, <3>1, <3>2, Requests DEF Taking
  <2>8. CASE Learns
    BY <1>3, <2>1, <2>3, <2>4, <2>8 DEF Learns, GoesTo, Taking
  <2>9. CASE PassesOver
    BY <1>3, <2>3, <2>4, <2>9 DEF PassesOver, GoesTo, Taking
  <2>10. CASE LeavesToAnother
    <3>1. /\ ses'[b].status = ses[b].status /\ ses'[b].pending = ses[b].pending
          /\ inst'[b] = inst[b] /\ asked'[b] = asked[b] /\ ready'[b] = ready[b]
      BY <1>3, <2>10, TypeFacts, ErrorFacts DEF LeavesToAnother, ClientErrors
    <3>2. ses[b].pending = "none" /\ ready[b] = NoResponse /\ asked[b] = "none"
      BY <1>3, <2>1, <2>10 DEF LeavesToAnother, Free, InOrder, Order, NonePending
    <3>3. phase' = "errors" \/ (phase' = "start" /\ b < turn')
      BY <1>1, <1>3, <2>10 DEF LeavesToAnother, GoesToNext
    <3>4. pc'[b] \in {"ready", "done"}
      BY <2>2, <2>10 DEF LeavesToAnother
    <3> QED
      BY <1>1, <3>1, <3>2, <3>3, <3>4 DEF Peace, Played, Calling
  <2>11. CASE PutsOn
    <3>1. Sent(b, "start_replay") /\ GoesToNext /\ inst[b] \in {"launched", "ended"}
      BY <1>3, <2>1, <2>3, <2>11 DEF PutsOn, Free
    <3>2. Valid(b, "start_replay")
      BY <3>1 DEF Valid
    <3> QED
      BY <2>2, <2>4, <3>1, <3>2, Requests DEF Taking
  <2> QED
    BY <2>5, <2>6, <2>7, <2>8, <2>9, <2>10, <2>11 DEF StartDoes
<1> QED
  BY <1>2, <1>3

LEMMA GamePeace ==
    ASSUME IInv, InOrder, Peaceful, NEW b \in Observers, Peace(b), Playing
    PROVE  Peace(b)'
<1>1. PICK r \in Observers : Called(r) /\ (Replies(r) \/ RunsOut(r)) /\ GameKeeps
  BY DEF Playing
<1>2. UNCHANGED <<phase, pc, ses, started, turn>>
  BY <1>1 DEF GameKeeps, coordinator
<1>3. CASE b # r
  <2>1. Same(b)
    BY <1>1, <1>3 DEF Called
  <2> QED
    BY <1>2, <2>1 DEF Same, Peace, Valid
<1>4. Order(b) /\ PlaceOf(b)
  BY DEF InOrder, IInv
<1>5. asked[b] # "none" => ses[b].pending = asked[b] /\ Valid(b, asked[b])
  BY DEF IInv, AnswerOf, Peace
<1>6. CASE b = r /\ Replies(r)
  <2>1. /\ asked[b] # "none" /\ asked'[b] = "none" /\ inst'[b] \in Effects(b)
        /\ ready'[b].type = asked[b]
    <3> DEFINE e == ~Valid(b, asked[b])
    <3>1. /\ asked[b] # "none" /\ asked'[b] = "none" /\ inst'[b] \in Effects(b)
          /\ ready'[b] = [type |-> asked[b], status |-> inst'[b], error |-> e]
      BY <1>6 DEF Replies
    <3> HIDE DEF e
    <3> QED
      BY <3>1
  <2>2. ready'[b] # NoResponse /\ ~ready'[b].error
    <3> DEFINE e == ~Valid(b, asked[b])
    <3>1. /\ ready'[b] = [type |-> asked[b], status |-> inst'[b], error |-> e] /\ ~e
      BY <1>5, <1>6, <2>1 DEF Replies
    <3> HIDE DEF e
    <3>2. ready'[b].error <=> e
      BY <3>1
    <3> QED
      BY <2>1, <3>1, <3>2 DEF NoResponse
  <2>3. /\ asked[b] = "step" => inst'[b] \in {"in_replay", "ended"}
        /\ asked[b] \notin {"step", "start_replay"} => inst'[b] = inst[b]
    BY <1>5, <2>1 DEF Effects, StatesAfter
  <2>4. /\ pc[b] \in Played => asked[b] \in {"observation", "step"}
        /\ phase = "parallel" /\ pc[b] \in Calling => asked[b] = "query"
        /\ pc[b] \in {"gather", "gathering", "gathered"} => asked[b] = "replay_info"
    BY <1>4, <1>5, <2>1
    DEF Order, NonePending, Free, Waiting, AwaitedAt, Played, Calling, Peace
  <2> QED
    BY <1>2, <2>1, <2>2, <2>3, <2>4 DEF Peace
<1>7. CASE b = r /\ RunsOut(r)
  <2>1. /\ Realtime /\ inst[b] = "in_replay" /\ inst'[b] = "ended"
        /\ asked'[b] = asked[b] /\ ready'[b] = ready[b]
    BY <1>7 DEF RunsOut
  <2>2. asked[b] \notin {"step", "obs_action"}
    BY <1>4, <1>5, <2>1 DEF PlaceOf, Order, Waiting, AwaitedAt, Peace
  <2>3. asked'[b] # "none" => Valid(b, asked[b])'
    BY <2>1, <2>2 DEF Valid
  <2> QED
    BY <1>2, <2>1, <2>3 DEF Peace
<1> QED
  BY <1>1, <1>3, <1>6, <1>7

\* The step leaves every observer in peace.
LEMMA PeaceKept ==
    ASSUME IInv, InOrder, Peaceful, NoCamera, \A c \in Observers : Peace(c), [Next]_vars,
           NEW b \in Observers
    PROVE  Peace(b)'
<1>1. CASE Observing
  <2>1. PICK r \in Observers : Steps(r) /\ Does(r)
    BY <1>1 DEF Observing
  <2>2. CASE b # r
    <3>1. /\ phase \in {"parallel", "sequence"} /\ phase' \in {phase, "crashed"}
          /\ Same(b) /\ pc'[b] = pc[b] /\ started' = started
      BY <2>1, <2>2, OthersSteps
    <3> QED
      BY <3>1 DEF Same, Peace, Valid
  <2> QED
    BY <2>1, <2>2, ObserverPeace
<1> QED
  BY <1>1, StepKinds, ThreadPeace, StartPeace, GamePeace

\* A replay that is on its way to an observer stays so, or its fate is known.
LEMMA StillLoading ==
    ASSUME IInv, InOrder, Peaceful, NoCamera, NEW r \in Observers, Peace(r), Steps(r), Does(r),
           Loading(r), replay[r] \in Files
    PROVE  Loading(r)' \/ fate'[replay[r]] # "sent"
<1>1. phase \in {"parallel", "sequence"} /\ started /\ PlaceOf(r) /\ Order(r)
  BY OthersSteps DEF IInv, InOrder
<1>2. /\ ~Unheard(r) /\ ~camera[r] /\ ses[r].app = "normal"
      /\ NonePending(r) => ~Unsent(r)
      /\ Heard(r) => ses'[r].errors = ses[r].errors
  BY <1>1, PeaceFacts DEF Order
<1>3. phase = "sequence" => "query" \notin Asks
  BY <1>1 DEF PlaceOf, Peaceful, NothingTooLate, ThreadedOrQuiet
<1>4. CASE pc[r] \in {"firstlook", "looking", "starting"}
  <2>1. Looks(r) \/ Waits(r) \/ Starts(r)
    BY <1>4 DEF Does, Polls, Loads, Plays, Issues, Acts, Dangles, Ends
  <2>2. CASE Looks(r)
    <3>1. NonePending(r) /\ Sent(r, "observation") /\ pc'[r] = "looking"
      BY <1>2, <1>4, <2>2 DEF Looks, Tries, NonePending, Free
    <3> QED
      BY <3>1 DEF Sent, Loading
  <2>3. CASE Waits(r)
    <3>1. Heard(r) /\ pc'[r] = "starting"
      BY <1>2, <1>4, <2>3 DEF Waits
    <3> QED
      BY <1>2, <3>1 DEF Loading
  <2>4. CASE Starts(r)
    BY <2>4 DEF Starts, Becomes
  <2> QED
    BY <2>1, <2>2, <2>3, <2>4
<1>5. CASE pc[r] \notin {"firstlook", "looking", "starting"}
  <2>1. ses[r].pending = "start_replay" /\ ses[r].errors = {}
    BY <1>5 DEF Loading
  <2>2. /\ ~NonePending(r)
        /\ pc[r] \in Waiting => pc[r] = "loading"
    BY <1>1, <2>1, TypesAssumption DEF Order, Waiting, AwaitedAt
  <2>3. Polls(r) \/ Loads(r) \/ Issues(r) \/ Acts(r) \/ Dangles(r)
    BY <2>2
    DEF Does, Starts, Plays, Looks, Waits, Ends, NonePending, Free, Waiting
  <2>4. CASE Loads(r)
    <3>1. Heard(r)
      BY <1>2, <2>4 DEF Loads
    <3>2. CASE pc'[r] = "firstlook"
      BY <1>2, <2>1, <3>1, <3>2 DEF Loading
    <3>3. CASE Becomes(replay[r], "failed")
      BY <3>3 DEF Becomes
    <3> QED
      BY <2>4, <3>2, <3>3 DEF Loads
  <2>5. CASE Same(r)
    BY <2>1, <2>5 DEF Same, Loading
  <2>6. Issues(r) => Same(r)
    BY <1>1, <1>3, <2>2 DEF Issues, NonePending
  <2> QED
    BY <1>2, <2>3, <2>4, <2>5, <2>6 DEF Polls, Acts, Dangles
<1> QED
  BY <1>4, <1>5

LEMMA ObserverFated ==
    ASSUME IInv, InOrder, Peaceful, NoCamera, Fated, NEW r \in Observers, Peace(r),
           Steps(r), Does(r)
    PROVE  Fated'
<1>1. /\ settings' = settings /\ phase' \in {"parallel", "sequence", "crashed"}
      /\ UNCHANGED <<replays, replay>>
      /\ \A b \in Observers : b # r => Same(b) /\ pc'[b] = pc[b]
  BY OthersSteps
<1>2. Observers' = Observers /\ Files' = Files
  BY <1>1, SameSettings
<1>3. \A f \in Files : /\ fate'[f] = "sent" => fate[f] = "sent"
                       /\ fate'[f] \in {"listed", "refused"} => fate'[f] = fate[f]
  BY ObserverFates
<1>4. ASSUME NEW f \in Files, fate'[f] = "sent"
      PROVE  \E c \in Observers : replay'[c] = f /\ Loading(c)'
  <2>1. PICK c \in Observers : replay[c] = f /\ Loading(c)
    BY <1>3, <1>4 DEF Fated
  <2>2. CASE c = r
    BY <1>1, <1>4, <2>1, <2>2, StillLoading
  <2>3. CASE c # r
    BY <1>1, <2>1, <2>3 DEF Same, Loading
  <2> QED
    BY <2>2, <2>3
<1> QED
  BY <1>1, <1>2, <1>3, <1>4 DEF Fated, LoopEnded

LEMMA ThreadFated ==
    ASSUME IInv, InOrder, Peaceful, Fated, Passes \/ Launches \/ Stops \/ Playing
    PROVE  Fated'
<1>1. settings' = settings /\ replays' = replays /\ fate' = fate
  BY DEF Passes, Launches, Stops, AllSame, Playing, GameKeeps, coordinator, list
<1>2. Observers' = Observers /\ Files' = Files /\ Observers \subseteq Nat \ {0}
  BY <1>1, SameSettings, ObserverCount DEF Observers
<1>3. CASE Passes
  <2>1. /\ \A b \in Observers : ses'[b] = ses[b] /\ replay'[b] = replay[b] /\ pc[b] = "done"
        /\ phase' \notin {"idle", "exited"}
        /\ phase' = "start" => turn' = 1
        /\ phase' = "errors" /\ replays # 0 => \A b \in Observers : IsInGame(ses[b])
    BY <1>3 DEF Passes, AllSame, Goes
  <2>2. \A b \in Observers : Loading(b) => Loading(b)'
    BY <2>1 DEF Loading
  <2>3. \A b \in Observers : phase' = "start" => ~(b < turn')
    BY <1>2, <2>1
  <2>4. \A b \in Observers : IsInGame(ses[b]) => Busy(b)'
    BY <2>1 DEF Busy
  <2> QED
    BY <1>1, <1>2, <2>1, <2>2, <2>3, <2>4 DEF Fated, LoopEnded
<1>4. CASE Launches
  <2>1. \A b \in Observers : ~Loading(b)
    BY <1>4, Requests, TypesAssumption DEF Launches, Unlaunched, NewSession, Loading
  <2>2. phase' = "start" /\ \A b \in Observers : ~(b < turn')
    BY <1>2, <1>4 DEF Launches
  <2> QED
    BY <1>1, <1>2, <2>1, <2>2 DEF Fated, LoopEnded
<1>5. CASE Stops
  <2>1. /\ ses' = ses /\ replay' = replay /\ pc' = pc /\ turn' = turn /\ updated' = updated
        /\ \/ phase' = phase
           \/ phase' = "exited" /\ LoopEnded
    BY <1>5 DEF Stops, AllSame, LoopEnded
  <2> QED
    BY <1>1, <1>2, <2>1 DEF Fated, LoopEnded, Loading, Busy
<1>6. CASE Playing
  <2>1. UNCHANGED <<ses, replay, pc, phase, turn, updated>>
    BY <1>6 DEF Playing, GameKeeps, coordinator, playing
  <2> QED
    BY <1>1, <1>2, <2>1 DEF Fated, LoopEnded, Loading, Busy
<1> QED
  BY <1>3, <1>4, <1>5, <1>6

LEMMA RelaunchingFated ==
    ASSUME IInv, InOrder, Peaceful, Fated, Relaunching
    PROVE  Fated'
<1>1. PICK R \in SUBSET Observers, S \in SUBSET Observers : Relaunches(R, S)
  BY DEF Relaunching
<1>2. /\ phase = "errors" /\ phase' = "idle" /\ UNCHANGED <<settings, pc, replays, fate>>
      /\ R = Failed /\ S = {b \in R : ses'[b].connected}
      /\ updated' <=> (~ErrorOccurred(S) /\ (~AllGamesEnded(ses') \/ S # {}))
      /\ \A b \in R : Fresh(b)
      /\ \A b \in Observers : b \notin R => ses'[b] = ses[b] /\ replay'[b] = replay[b]
  BY <1>1 DEF Relaunches, list, Same, Peaceful
<1>3. /\ Observers' = Observers /\ Files' = Files /\ 1 \in Observers
      /\ \A b \in Observers : pc[b] = "done" /\ (b \notin R => ses[b].errors = {})
  BY <1>2, SameSettings, ObserverCount DEF IInv, PlaceOf, Resting, Failed
<1>4. ASSUME NEW f \in Files, fate[f] = "sent"
      PROVE  \E c \in Observers : replay'[c] = f /\ Loading(c)'
  <2>1. PICK c \in Observers : replay[c] = f /\ Loading(c)
    BY <1>4 DEF Fated
  <2>2. c \notin R
    BY <1>2, <2>1 DEF Failed, Loading
  <2> QED
    BY <1>2, <2>1, <2>2 DEF Loading
<1>5. ASSUME ~updated' PROVE replays = 0 /\ \A f \in Files : fate[f] # "sent"
  <2>1. \A b \in R : ses'[b].connected
    BY <1>2, ConnectsFacts DEF Fresh, Peaceful
  <2>2. S = R
    BY <1>2, <2>1
  <2>3. ~ErrorOccurred(S)
    BY <1>2, <2>2 DEF ErrorOccurred
  <2>4. AllGamesEnded(ses') /\ R = {}
    BY <1>2, <1>5, <2>2, <2>3
  <2>5. \A b \in Observers : /\ ~IsInGame(ses[b]) /\ ses[b].pending = "none"
                             /\ ses[b].errors = {}
    BY <1>2, <1>3, <2>4 DEF AllGamesEnded, HasResponsePending
  <2>6. replays = 0
    BY <1>2, <1>3, <2>5 DEF Fated, Busy
  <2>7. \A b \in Observers : ~Loading(b)
    BY <1>3, <2>5, Requests, TypesAssumption DEF Loading
  <2> QED
    BY <2>6, <2>7 DEF Fated
<1> QED
  BY <1>2, <1>3, <1>4, <1>5 DEF Fated, LoopEnded

\* An observer that StartReplay leaves behind has no place for a replay.
LEMMA TurnBusy ==
    ASSUME IInv, InOrder, Peaceful, NoCamera, StartKeeps, StartDoes,
           NEW b \in Observers, b = turn, Peace(b),
           replays' # 0, phase' = "errors" \/ turn' # turn
    PROVE  Busy(b)'
<1>1. started /\ ses[b].app = "normal"
  BY StartMoves DEF InOrder, Order
<1>2. /\ ready[b] = NoResponse => ses[b].status \in {"launched", "in_replay", "ended"}
      /\ ready[b] # NoResponse => ses[b].pending # "none"
  BY <1>1, NothingReady DEF Peace
<1>3. \A p : ~GoesTo(p)
  BY DEF GoesTo
<1>4. \/ Considers /\ ~IsReadyForCreateGame(ses[b])
      \/ LeavesToAnother
      \/ Sent(b, "start_replay")
  BY <1>3 DEF StartDoes, Considers, FindsNone, Inquires, Learns, PassesOver, PutsOn
<1>5. CASE Considers /\ ~IsReadyForCreateGame(ses[b])
  BY <1>1, <1>2, <1>5
  DEF Considers, Same, Busy, IsReadyForCreateGame, IsInGame, HasResponsePending
<1>6. CASE LeavesToAnother
  BY <1>6, TypeFacts, ErrorFacts DEF LeavesToAnother, ClientErrors, Busy
<1>7. CASE Sent(b, "start_replay")
  BY <1>7, Requests, TypesAssumption DEF Sent, Busy
<1> QED
  BY <1>4, <1>5, <1>6, <1>7

LEMMA StartFated ==
    ASSUME IInv, InOrder, Peaceful, NoCamera, Fated, \A c \in Observers : Peace(c),
           StartKeeps, StartDoes
    PROVE  Fated'
<1>1. /\ settings' = settings /\ turn \in Observers /\ replays \in Nat
      /\ pc[turn] \in Taking
  BY DEF StartKeeps, IInv, TypeOK, Files
<1>2. Observers' = Observers /\ Files' = Files /\ N \in Nat /\ Files \subseteq Nat
  BY <1>1, SameSettings, ObserverCount DEF Files
<1>3. /\ phase = "start" /\ started /\ turn \in Nat /\ Observers \subseteq Nat
      /\ \/ phase' = "errors" /\ ~HasLater /\ turn' = turn
         \/ phase' = "start" /\ turn' \in {turn, turn + 1}
  BY StartMoves
<1>4. /\ ses[turn].errors = {} /\ Order(turn)
      /\ pc[turn] \in Free => ~Unsent(turn) /\ ses[turn].pending = "none"
  BY <1>1, <1>3, PeaceFacts DEF Peace, InOrder, Order, NonePending
<1>5. \/ replays' = replays /\ fate' = fate
      \/ replays' = replays - 1 /\ Becomes(replays, "ignored") /\ replays # 0
      \/ /\ replays' = replays - 1 /\ Becomes(replays, "sent") /\ replays # 0
         /\ Sent(turn, "start_replay") /\ replay'[turn] = replays
  BY <1>4
  DEF StartDoes, Considers, FindsNone, Inquires, Learns, PassesOver, LeavesToAnother, PutsOn,
      Free
<1>6. \A f \in Files : f > replays' => fate'[f] # "listed"
  BY <1>1, <1>2, <1>5 DEF Fated, Becomes
<1>7. \A f \in Files : fate'[f] # "refused"
  BY <1>5 DEF Fated, Becomes
<1>8. ASSUME NEW f \in Files, fate'[f] = "sent"
      PROVE  \E c \in Observers : replay'[c] = f /\ Loading(c)'
  <2>1. CASE fate[f] = "sent" /\ fate'[f] = fate[f]
    <3>1. PICK c \in Observers : replay[c] = f /\ Loading(c)
      BY <2>1 DEF Fated
    <3>2. CASE c # turn
      <4>1. Same(c) /\ replay'[c] = replay[c] /\ pc[c] = "done"
        BY <3>2, StartPcs
      <4> QED
        BY <3>1, <4>1 DEF Same, Loading
    <3>3. CASE c = turn
      <4>1. ses[turn].pending = "start_replay"
        BY <1>1, <3>1, <3>3 DEF Loading, Taking
      <4>2. pc[turn] = "ready"
        BY <1>1, <1>4, <4>1, TypesAssumption, Requests
        DEF Order, Taking, Free, Waiting, AwaitedAt
      <4>3. Considers
        BY <4>2
        DEF StartDoes, FindsNone, Inquires, Learns, PassesOver, LeavesToAnother, PutsOn
      <4> QED
        BY <3>1, <3>3, <4>1, <4>3 DEF Considers, Same, Loading
    <3> QED
      BY <3>2, <3>3
  <2>2. CASE ~(fate[f] = "sent" /\ fate'[f] = fate[f])
    <3>1. f = replays /\ Sent(turn, "start_replay") /\ replay'[turn] = replays
      BY <1>5, <1>8, <2>2 DEF Becomes
    <3>2. \A c \in Observers : c = turn => Loading(c)'
      BY <1>4, <3>1 DEF Sent, Loading
    <3> QED
      BY <1>1, <3>1, <3>2
  <2> QED
    BY <2>1, <2>2
<1>9. ASSUME replays' # 0, NEW b \in Observers,
             phase' = "errors" \/ (phase' = "start" /\ b < turn')
      PROVE  Busy(b)'
  <2>1. b \in Nat /\ (b = turn \/ b < turn)
    BY <1>2, <1>3, <1>9 DEF HasLater, Observers
  <2>2. CASE b < turn
    <3>1. replays # 0
      BY <1>5, <1>9
    <3>2. Busy(b)
      BY <1>3, <2>2, <3>1 DEF Fated
    <3>3. b # turn
      BY <1>3, <2>1, <2>2
    <3>4. Same(b)
      BY <3>3, StartPcs
    <3> QED
      BY <3>2, <3>4 DEF Same, Busy
  <2>3. CASE b = turn
    <3>1. phase' = "errors" \/ turn' # turn
      BY <1>3, <1>9, <2>3
    <3> QED
      BY <1>9, <2>3, <3>1, TurnBusy
  <2> QED
    BY <2>1, <2>2, <2>3
<1> QED
  BY <1>2, <1>3, <1>6, <1>7, <1>8, <1>9 DEF Fated, LoopEnded

LEMMA InPeaceInvariance == Spec => []InPeace
<1>1. Init => InPeace
  <2> SUFFICES ASSUME Init PROVE InPeace
    OBVIOUS
  <2>1. \A f \in Files : fate[f] = "listed" /\ ~(f > replays)
    BY DEF Init, Files
  <2>2. ~LoopEnded /\ phase = "idle"
    BY DEF Init, LoopEnded
  <2>3. \A r \in Observers : Peace(r)
    BY DEF Init, Peace, NewSession, Played, Calling
  <2> QED
    BY <2>1, <2>2, <2>3 DEF InPeace, Fated
<1>2. ASSUME IInv, Refusals, Ordered, Known, InPeace, [Next]_vars PROVE InPeace'
  <2>1. settings' = settings
    BY <1>2, SettingsStay
  <2>2. Observers' = Observers /\ (Peaceful' <=> Peaceful)
    BY <2>1, SameSettings DEF Peaceful
  <2>3. ASSUME Peaceful PROVE Fated' /\ \A b \in Observers : Peace(b)'
    <3>1. InOrder /\ NoCamera /\ Fated /\ \A c \in Observers : Peace(c)
      BY <1>2, <2>3 DEF Peaceful, Ordered, Known, Refusals, InOrder, InPeace
    <3>2. \A b \in Observers : Peace(b)'
      BY <1>2, <2>3, <3>1, PeaceKept
    <3>3. ASSUME Observing PROVE Fated'
      <4>1. PICK r \in Observers : Steps(r) /\ Does(r)
        BY <3>3 DEF Observing
      <4> QED
        BY <1>2, <2>3, <3>1, <4>1, ObserverFated
    <3>4. Fated'
      BY <1>2, <2>3, <3>1, <3>3, StepKinds, ThreadFated, RelaunchingFated, StartFated
    <3> QED
      BY <3>2, <3>4
  <2> QED
    BY <2>2, <2>3 DEF InPeace
<1>3. IInv /\ Refusals /\ Ordered /\ Known /\ InPeace /\ [Next]_vars => InPeace'
  BY <1>2
<1> QED
  BY <1>1, <1>3, Invariance, RefusalsInvariance, OrderedInvariance, KnownInvariance, PTL
  DEF Spec

\* Every replay that is not ignored is started, or fails to load, before the loop ends,
\* when errors are recovered from (no game fails, OnStep asks for nothing too late).
THEOREM RecoveredReplaysStartAlways == Spec => []RecoveredReplaysStart
<1>1. ASSUME IInv, InPeace, IgnoredAreShort PROVE RecoveredReplaysStart
  <2> SUFFICES ASSUME Peaceful, LoopEnded, NEW f \in Files, ~settings.files[f].short
               PROVE  fate[f] \in {"failed", "started", "ended"}
    BY DEF RecoveredReplaysStart, OthersAreStarted, Peaceful
  <2>1. fate[f] \in Fates /\ fate[f] # "ignored"
    BY <1>1 DEF IInv, TypeOK, IgnoredAreShort, Peaceful
  <2>2. f > 0
    BY DEF Files
  <2> QED
    BY <1>1, <2>1, <2>2 DEF InPeace, Fated, Fates
<1>2. IInv /\ InPeace /\ IgnoredAreShort => RecoveredReplaysStart
  BY <1>1
<1> QED
  BY <1>2, Invariance, InPeaceInvariance, IgnoredAreShortAlways, PTL

=============================================================================
