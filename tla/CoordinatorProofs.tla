--------------------------- MODULE CoordinatorProofs ---------------------------
(***************************************************************************)
(* The coordinator, for any number of agents and games and whatever its    *)
(* settings.  In layers, each on top of those before: no call waits for a  *)
(* game that failed (IInv); no response is abandoned (Refusals); what the  *)
(* games owe (Owed); the games are asked for what they can do, and each    *)
(* end is reported (Protocol); nobody is told twice (Once).                *)
(***************************************************************************)
EXTENDS Coordinator, TLAPS

Normal(a) == ses[a].app = "normal"

\* The places of an agent's processing that a failure does not lead to, and those
\* it leads to with the response still pending that did not come: there
\* SendActions is refused.
Working(p, s) ==
    /\ p = "step" => ~Realtime
    /\ p \in {"look", "events"} => s.app = "normal"
    /\ p \in {"query", "acting", "featuring"} => HasResponsePending(s)
    /\ p \in {"actions", "feature"} => s.app = "normal" \/ HasResponsePending(s)
AllWorking == phase # "crashed" => \A a \in Agents : Working(pc[a], ses[a])

\* Agents are processed in Update, one at a time in its loops, and in two loops
\* of StartGame.
AtRest ==
    /\ phase \notin {"parallel", "sequence", "firstlook", "start", "crashed"} =>
           \A a \in Agents : pc[a] = "done"
    /\ phase \in {"sequence", "firstlook", "start"} =>
           /\ turn \in Agents
           /\ \A a \in Agents : a # turn => pc[a] = "done"
    /\ phase = "firstlook" => pc[turn] \in {"done", "observe"}
    /\ phase \in {"joining", "waitjoin", "joined"} => turn \in Agents

\* A game that failed shows in the errors, so no game starts with it.
FailureShows == \A a \in Agents : ~Normal(a) => ses[a].errors # {}
NoneFailed ==
    /\ phase \in {"firstlook", "started"} => \A a \in Agents : Normal(a)
    /\ phase = "start" => \A a \in Agents : a > turn => Normal(a)

IInv == /\ TypeOK /\ NoWaitAfterFailure /\ AllWorking /\ AtRest /\ FailureShows
        /\ NoneFailed

-----------------------------------------------------------------------------
(* What the calls of ClientSession keep of a session.                      *)

LEMMA ErrorFacts ==
    ASSUME NEW s \in SessionType, NEW e \in ClientErrors
    PROVE  /\ Error(s, e) \in SessionType
           /\ Error(s, e).app = s.app /\ Error(s, e).status = s.status
           /\ Error(s, e).pending = s.pending
           /\ Error(s, e).errors = s.errors \cup {e}
BY DEF Error, SessionType

LEMMA BeginWaitFacts ==
    ASSUME NEW s \in SessionType
    PROVE  /\ BeginWait(s) \in SessionType
           /\ BeginWait(s).app = s.app /\ BeginWait(s).pending = s.pending
           /\ BeginWait(s).errors = s.errors
<1> DEFINE t == [s EXCEPT !.status = "unknown"]
<1>1. "unknown" \in Statuses
  BY DEF Statuses
<1>2. t \in SessionType /\ t.app = s.app /\ t.pending = s.pending /\ t.errors = s.errors
  BY <1>1 DEF SessionType
<1>3. BeginWait(s) = t
  BY DEF BeginWait
<1> HIDE DEF t
<1> QED
  BY <1>2, <1>3

LEMMA ReceiveNothingFacts ==
    ASSUME NEW s \in SessionType
    PROVE  /\ ReceiveNothing(s) \in SessionType
           /\ ReceiveNothing(s).app = s.app /\ ReceiveNothing(s).pending = s.pending
           /\ s.errors \cup {"ConnectionClosed"} \subseteq ReceiveNothing(s).errors
<1> DEFINE t == [s EXCEPT !.connected = FALSE]
<1>1. t \in SessionType /\ t.app = s.app /\ t.pending = s.pending /\ t.errors = s.errors
  BY DEF SessionType
<1>2. "ConnectionClosed" \in ClientErrors /\ ReceiveNothing(s) = Error(t, "ConnectionClosed")
  BY DEF ClientErrors, ReceiveNothing
<1> HIDE DEF t
<1> QED
  BY <1>1, <1>2, ErrorFacts

LEMMA ReceiveFacts ==
    ASSUME NEW s \in SessionType, NEW r \in ResponseType
    PROVE  /\ Receive(s, r) \in SessionType
           /\ Receive(s, r).app = s.app /\ Receive(s, r).status = r.status
           /\ s.errors \subseteq Receive(s, r).errors
<1> DEFINE known == [s EXCEPT !.status = r.status]
           taken == [known EXCEPT !.pending = "none"]
<1>1. /\ known \in SessionType /\ known.app = s.app /\ known.status = r.status
      /\ known.errors = s.errors
  BY DEF SessionType, ResponseType
<1>2. Receive(s, r) = taken \/ Receive(s, r) = Error(taken, "ResponseMismatch")
  BY DEF Receive, NoLongerPending
<1> HIDE DEF known
<1>3. /\ taken \in SessionType /\ taken.app = known.app /\ taken.status = known.status
      /\ taken.errors = known.errors
  BY <1>1 DEF SessionType
<1>4. "ResponseMismatch" \in ClientErrors
  BY DEF ClientErrors
<1> HIDE DEF taken
<1> QED
  BY <1>1, <1>2, <1>3, <1>4, ErrorFacts

LEMMA AnsweredFacts ==
    ASSUME NEW s \in SessionType, NEW r \in ResponseType
    PROVE  /\ Answered(s, r) \in SessionType
           /\ Answered(s, r).app = s.app
           /\ s.errors \subseteq Answered(s, r).errors
<1>1. "SC2ProtocolError" \in ClientErrors
  BY DEF ClientErrors
<1>2. \/ Answered(s, r) = Error(Receive(s, r), "SC2ProtocolError")
      \/ Answered(s, r) = Receive(s, r)
  BY DEF Answered
<1> QED
  BY <1>1, <1>2, ReceiveFacts, ErrorFacts

\* What gives the application up.
LEMMA GivenUpFacts ==
    ASSUME NEW s \in SessionType, NEW a \in AppStates, NEW e \in ClientErrors
    PROVE  LET t == Error([s EXCEPT !.app = a], e) IN
           /\ t \in SessionType /\ t.app = a /\ t.pending = s.pending
           /\ s.errors \subseteq t.errors /\ e \in t.errors
<1> DEFINE t == [s EXCEPT !.app = a]
<1>1. t \in SessionType /\ t.app = a /\ t.pending = s.pending /\ t.errors = s.errors
  BY DEF SessionType
<1> HIDE DEF t
<1>2. /\ Error(t, e) \in SessionType /\ Error(t, e).app = a
      /\ Error(t, e).pending = s.pending /\ Error(t, e).errors = s.errors \cup {e}
  BY <1>1, ErrorFacts
<1> QED
  BY <1>2 DEF t

\* SendRequest sends nothing while a response is pending, except a ping.
IsSent(s, t, ignore, reachable, o) ==
    /\ o.sent \in BOOLEAN /\ o.session \in SessionType
    /\ o.session.app = s.app
    /\ s.errors \subseteq o.session.errors
    /\ o.sent => (ignore \/ s.pending = "none") /\ o.session.pending = t
    /\ ~o.sent => o.session.pending = s.pending
    /\ (s.connected \/ reachable) /\ ignore => o.sent

LEMMA SendFacts ==
    ASSUME NEW s \in SessionType, NEW t \in Types, NEW ignore \in BOOLEAN,
           NEW reachable \in BOOLEAN
    PROVE  IsSent(s, t, ignore, reachable, SendRequest(s, t, ignore, reachable))
<1> DEFINE o == SendRequest(s, t, ignore, reachable)
<1> SUFFICES IsSent(s, t, ignore, reachable, o)
  OBVIOUS
<1> USE DEF IsSent
<1> DEFINE open == [s EXCEPT !.connected = TRUE]
           asks == [open EXCEPT !.pending = t]
<1>1. /\ open \in SessionType /\ open.app = s.app /\ open.pending = s.pending
      /\ open.errors = s.errors
  BY DEF SessionType
<1>2. /\ asks \in SessionType /\ asks.app = s.app /\ asks.pending = t
      /\ asks.errors = s.errors
  BY DEF SessionType
<1>3. "ResponseNotConsumed" \in ClientErrors
  BY DEF ClientErrors
<1>4. CASE ~CanSend(s, reachable)
  BY <1>4 DEF SendRequest, CanSend
<1>5. CASE CanSend(s, reachable) /\ Refuses(s, ignore)
  <2>1. o = [sent |-> FALSE, session |-> Error(open, "ResponseNotConsumed")]
    BY <1>5 DEF SendRequest
  <2> HIDE DEF open
  <2> QED
    BY <1>1, <1>3, <1>5, <2>1, ErrorFacts DEF CanSend, Refuses, HasResponsePending
<1>6. CASE CanSend(s, reachable) /\ ~Refuses(s, ignore)
  <2>1. o = [sent |-> TRUE, session |-> asks]
    BY <1>6 DEF SendRequest
  <2> HIDE DEF open, asks
  <2> QED
    BY <1>2, <1>6, <2>1 DEF CanSend, Refuses, HasResponsePending
<1> QED
  BY <1>4, <1>5, <1>6

\* Nothing went wrong with a session, except that a request may have been refused.
Mild(s) == s.errors \subseteq {"ResponseNotConsumed"}

\* What is left of a session, and of the game's state, by a wait without response.
Failed(s, t) ==
    /\ t.app \in {"crashed", "timeout", "timeout_zombie"} /\ t.errors # {}
    /\ HasResponsePending(s) => HasResponsePending(t)
Survived(s, t, P) == t.app = s.app /\ \E r \in P : t.status = r.status

LEMMA WaitFails ==
    ASSUME NEW s \in SessionType, NEW P \in SUBSET ResponseType,
           NEW o \in WaitOutcomes(s, {}, P)
    PROVE  /\ o.session \in SessionType /\ s.errors \subseteq o.session.errors
           /\ "ConnectionClosed" \in o.session.errors
           /\ Failed(s, o.session) \/ Survived(s, o.session, P)
<1> DEFINE nothing == ReceiveNothing(BeginWait(s))
           pinging == SendRequest(nothing, "ping", TRUE, TRUE).session
           unanswered == ReceiveNothing(BeginWait(pinging))
<1>1. /\ nothing \in SessionType /\ nothing.app = s.app /\ nothing.pending = s.pending
      /\ s.errors \cup {"ConnectionClosed"} \subseteq nothing.errors
  BY BeginWaitFacts, ReceiveNothingFacts
<1>2. /\ pinging \in SessionType /\ pinging.app = s.app /\ pinging.pending = "ping"
      /\ s.errors \cup {"ConnectionClosed"} \subseteq pinging.errors
  <2> DEFINE q == SendRequest(nothing, "ping", TRUE, TRUE)
  <2> HIDE DEF nothing
  <2>1. "ping" \in Types /\ TRUE \in BOOLEAN
    BY TypesAssumption
  <2>2. IsSent(nothing, "ping", TRUE, TRUE, q)
    BY <1>1, <2>1, SendFacts, Zenon
  <2> HIDE DEF q
  <2>3. q.session \in SessionType /\ q.session.app = s.app /\ q.session.pending = "ping"
        /\ s.errors \cup {"ConnectionClosed"} \subseteq q.session.errors
    BY <1>1, <2>2 DEF IsSent
  <2> QED
    BY <2>3 DEF q
<1>3. \/ o = [got |-> FALSE, session |-> Crashed(nothing)]
      \/ \E r \in P : o = [got |-> FALSE, session |-> Recovered(BeginWait(pinging), r)]
      \/ \E u \in {nothing, unanswered} :
             \/ o = [got |-> FALSE, session |-> Terminated(Unresponsive(u), TRUE)]
             \/ o = [got |-> FALSE, session |-> Terminated(Unresponsive(u), FALSE)]
  BY Zenon DEF WaitOutcomes
<1> HIDE DEF nothing, pinging
<1>4. /\ unanswered \in SessionType /\ unanswered.pending = "ping"
      /\ s.errors \cup {"ConnectionClosed"} \subseteq unanswered.errors
  BY <1>2, BeginWaitFacts, ReceiveNothingFacts
<1> HIDE DEF unanswered
<1>5. /\ "crashed" \in AppStates /\ "timeout" \in AppStates /\ "timeout_zombie" \in AppStates
      /\ "SC2AppFailure" \in ClientErrors /\ "SC2ProtocolTimeout" \in ClientErrors
      /\ "SC2UnknownStatus" \in ClientErrors
  BY DEF AppStates, ClientErrors
<1>6. CASE o = [got |-> FALSE, session |-> Crashed(nothing)]
  <2> DEFINE t == Error([nothing EXCEPT !.app = "crashed"], "SC2AppFailure")
  <2>1. /\ t \in SessionType /\ t.app = "crashed" /\ t.pending = nothing.pending
        /\ nothing.errors \subseteq t.errors /\ "SC2AppFailure" \in t.errors
    BY <1>1, <1>5, GivenUpFacts
  <2>2. o.session = t
    BY <1>6 DEF Crashed
  <2> HIDE DEF t
  <2> QED
    BY <1>1, <2>1, <2>2 DEF Failed, HasResponsePending
<1>7. ASSUME NEW r \in P, o = [got |-> FALSE, session |-> Recovered(BeginWait(pinging), r)]
      PROVE  /\ o.session \in SessionType /\ s.errors \subseteq o.session.errors
             /\ "ConnectionClosed" \in o.session.errors
             /\ Survived(s, o.session, P)
  <2> DEFINE w == BeginWait(pinging)
             c == Receive(w, r)
             t == Error(c, "SC2UnknownStatus")
  <2>1. w \in SessionType /\ w.app = s.app /\ s.errors \cup {"ConnectionClosed"} \subseteq w.errors
    BY <1>2, BeginWaitFacts
  <2> HIDE DEF w
  <2>2. /\ c \in SessionType /\ c.app = s.app /\ c.status = r.status
        /\ s.errors \cup {"ConnectionClosed"} \subseteq c.errors
    BY <2>1, ReceiveFacts
  <2> HIDE DEF c
  <2>3. /\ t \in SessionType /\ t.app = s.app /\ t.status = r.status
        /\ s.errors \cup {"ConnectionClosed"} \subseteq t.errors
    BY <1>5, <2>2, ErrorFacts
  <2>4. o.session = t
    BY <1>7 DEF Recovered, c, w
  <2> HIDE DEF t
  <2> QED
    BY <2>3, <2>4 DEF Survived
<1>8. ASSUME NEW u \in {nothing, unanswered}, NEW a \in {"timeout", "timeout_zombie"},
             o.session = Error([Unresponsive(u) EXCEPT !.app = a], "SC2AppFailure")
      PROVE  /\ o.session \in SessionType /\ s.errors \subseteq o.session.errors
             /\ "ConnectionClosed" \in o.session.errors
             /\ Failed(s, o.session)
  <2>1. /\ u \in SessionType /\ s.errors \cup {"ConnectionClosed"} \subseteq u.errors
        /\ HasResponsePending(s) => u.pending # "none"
    BY <1>1, <1>4 DEF HasResponsePending
  <2> DEFINE v == Unresponsive(u)
  <2>2. /\ v \in SessionType /\ v.pending = u.pending /\ u.errors \subseteq v.errors
    BY <1>5, <2>1, GivenUpFacts DEF Unresponsive
  <2> HIDE DEF v
  <2> DEFINE t == Error([v EXCEPT !.app = a], "SC2AppFailure")
  <2>3. /\ t \in SessionType /\ t.app = a /\ t.pending = v.pending
        /\ v.errors \subseteq t.errors /\ "SC2AppFailure" \in t.errors
    BY <1>5, <2>2, GivenUpFacts
  <2>4. o.session = t
    BY <1>8 DEF v
  <2> HIDE DEF t
  <2> QED
    BY <2>1, <2>2, <2>3, <2>4 DEF Failed, HasResponsePending
<1>9. ASSUME NEW u \in {nothing, unanswered},
             \/ o = [got |-> FALSE, session |-> Terminated(Unresponsive(u), TRUE)]
             \/ o = [got |-> FALSE, session |-> Terminated(Unresponsive(u), FALSE)]
      PROVE  /\ o.session \in SessionType /\ s.errors \subseteq o.session.errors
             /\ "ConnectionClosed" \in o.session.errors
             /\ Failed(s, o.session)
  <2>1. CASE o = [got |-> FALSE, session |-> Terminated(Unresponsive(u), TRUE)]
    <3>1. o.session = Error([Unresponsive(u) EXCEPT !.app = "timeout_zombie"],
                            "SC2AppFailure")
      BY <2>1 DEF Terminated
    <3> QED
      BY <1>8, <3>1
  <2>2. CASE o = [got |-> FALSE, session |-> Terminated(Unresponsive(u), FALSE)]
    <3>1. o.session = Error([Unresponsive(u) EXCEPT !.app = "timeout"], "SC2AppFailure")
      BY <2>2 DEF Terminated
    <3> QED
      BY <1>8, <3>1
  <2> QED
    BY <1>9, <2>1, <2>2
<1> QED
  BY <1>3, <1>6, <1>7, <1>9

-----------------------------------------------------------------------------
(* What the calls of Clients keep.                                         *)

Shown(s) == s.app # "normal" => s.errors # {}

\* A call was made for client a: no other session changed.
Called(a) ==
    /\ ses' \in [Agents -> SessionType]
    /\ \A b \in Agents : b # a => ses'[b] = ses[b]
    /\ ses[a].errors \subseteq ses'[a].errors /\ Shown(ses'[a])
    /\ inst' \in [Agents -> Games]
    /\ asked' \in [Agents -> Types \cup {"none"}]
    /\ ready' \in [Agents -> ResponseType \cup {NoResponse}]

LEMMA NothingCalled ==
    ASSUME IInv, NEW a \in Agents, UNCHANGED <<ses, game>>
    PROVE  Called(a)
BY DEF Called, IInv, TypeOK, FailureShows, Normal, Shown, game

LEMMA OneSession ==
    ASSUME IInv, NEW a \in Agents, NEW t \in SessionType, Shown(t),
           ses[a].errors \subseteq t.errors,
           ses' = [ses EXCEPT ![a] = t], UNCHANGED game
    PROVE  Called(a) /\ ses'[a] = t
BY DEF Called, IInv, TypeOK, game

\* What is left of the session s by a request that was sent or not.
Requested(s, t, sent, r) ==
    /\ r.app = s.app
    /\ sent => s.pending = "none" /\ r.pending = t
    /\ ~sent => r.pending = s.pending

LEMMA OutcomeFacts ==
    ASSUME IInv, NEW a \in Agents, NEW s \in SessionType, Shown(s), NEW t \in Types
    PROVE  /\ Outcome(a, s, t).session \in SessionType
           /\ Shown(Outcome(a, s, t).session)
           /\ s.errors \subseteq Outcome(a, s, t).session.errors
           /\ Outcome(a, s, t).sent \in BOOLEAN
           /\ Requested(s, t, Outcome(a, s, t).sent, Outcome(a, s, t).session)
<1> DEFINE o == Outcome(a, s, t)
<1>1. IsSent(s, t, FALSE, inst[a] # "dead", o)
  <2>1. FALSE \in BOOLEAN /\ (inst[a] # "dead") \in BOOLEAN
    OBVIOUS
  <2>2. IsSent(s, t, FALSE, inst[a] # "dead", SendRequest(s, t, FALSE, inst[a] # "dead"))
    BY <2>1, SendFacts, Zenon
  <2> QED
    BY <2>2, Zenon DEF Outcome
<1> HIDE DEF o
<1>2. /\ o.session \in SessionType /\ o.sent \in BOOLEAN
      /\ o.session.app = s.app /\ s.errors \subseteq o.session.errors
      /\ o.sent => s.pending = "none" /\ o.session.pending = t
      /\ ~o.sent => o.session.pending = s.pending
  BY <1>1 DEF IsSent
<1>3. Shown(o.session) /\ Requested(s, t, o.sent, o.session)
  BY <1>2 DEF Shown, Requested
<1> QED
  BY <1>2, <1>3 DEF o

LEMMA RequestFacts ==
    ASSUME IInv, NEW a \in Agents, NEW s \in SessionType, Shown(s), NEW t \in Types,
           ses[a].errors \subseteq s.errors, Request(a, s, t)
    PROVE  Called(a) /\ Requested(s, t, Outcome(a, s, t).sent, ses'[a])
<1> DEFINE o == Outcome(a, s, t)
<1>1. /\ o.session \in SessionType /\ Shown(o.session) /\ o.sent \in BOOLEAN
      /\ s.errors \subseteq o.session.errors
      /\ Requested(s, t, o.sent, o.session)
  BY OutcomeFacts
<1>2. /\ ses' = [ses EXCEPT ![a] = o.session]
      /\ asked' = IF o.sent THEN [asked EXCEPT ![a] = t] ELSE asked
      /\ UNCHANGED <<inst, ready>>
  BY Zenon DEF Request, o
<1> HIDE DEF o
<1>3. Called(a) /\ ses'[a] = o.session
  BY <1>1, <1>2 DEF Called, IInv, TypeOK
<1> QED
  BY <1>1, <1>3 DEF o

LEMMA ResponseFacts ==
    ASSUME IInv, NEW a \in Agents, ResponseComes(a)
    PROVE  Called(a) /\ ses'[a].app = ses[a].app /\ ready[a] \in ResponseType
<1> DEFINE w == BeginWait(ses[a])
           t == Answered(w, ready[a])
<1>1. ses[a] \in SessionType /\ ready[a] \in ResponseType /\ Shown(ses[a])
  BY DEF IInv, TypeOK, ResponseComes, PollResponse, FailureShows, Normal, Shown
<1>2. w \in SessionType /\ w.app = ses[a].app /\ w.errors = ses[a].errors
  BY <1>1, BeginWaitFacts
<1>3. ses' = [ses EXCEPT ![a] = t]
  BY DEF ResponseComes, IInv, TypeOK
<1> HIDE DEF w
<1>4. t \in SessionType /\ t.app = w.app /\ w.errors \subseteq t.errors
  BY <1>1, <1>2, AnsweredFacts
<1> HIDE DEF t
<1>5. Shown(t)
  BY <1>1, <1>2, <1>4 DEF Shown
<1>6. UNCHANGED <<inst, asked>> /\ ready' = [ready EXCEPT ![a] = NoResponse]
  BY DEF ResponseComes
<1> QED
  BY <1>1, <1>2, <1>3, <1>4, <1>5, <1>6 DEF Called, IInv, TypeOK

LEMMA PongsAreResponses ==
    ASSUME IInv, NEW a \in Agents
    PROVE  /\ Pongs(a, LateEffects(a)) \in SUBSET ResponseType
           /\ \A r \in Pongs(a, LateEffects(a)) : r.status \in Games
<1>1. inst[a] \in Games
  BY DEF IInv, TypeOK
<1>2. LateEffects(a) \in SUBSET Games
  BY <1>1 DEF LateEffects, StateAfter, Games
<1>3. ASSUME NEW r \in Pongs(a, LateEffects(a))
      PROVE  r \in ResponseType /\ r.status \in Games
  <2>1. PICK i \in ({inst[a]} \cup LateEffects(a)) \ Lost :
            r = [type |-> "ping", status |-> i, error |-> FALSE]
    BY <1>3, Zenon DEF Pongs
  <2>2. i \in Games /\ i \in Statuses
    BY <1>1, <1>2, <2>1 DEF Games, Lost, Statuses
  <2> QED
    BY <2>1, <2>2, TypesAssumption DEF ResponseType
<1> QED
  BY <1>3

\* A wait without a response leaves a game that works, or a failure with the
\* response still pending.
LEMMA NoResponseFacts ==
    ASSUME IInv, NEW a \in Agents, NoResponseComes(a, LateEffects(a))
    PROVE  /\ Called(a)
           /\ \/ ses'[a].app = ses[a].app
              \/ HasResponsePending(ses[a]) => HasResponsePending(ses'[a])
<1> DEFINE P == Pongs(a, LateEffects(a))
<1>1. ses[a] \in SessionType /\ Shown(ses[a])
  BY DEF IInv, TypeOK, FailureShows, Normal, Shown
<1>2. P \in SUBSET ResponseType /\ \A r \in P : r.status \in Games
  BY PongsAreResponses
<1> HIDE DEF P
<1>3. PICK o \in WaitOutcomes(ses[a], {}, P) :
          /\ ses' = [ses EXCEPT ![a] = o.session]
          /\ \E after \in GameAfter(o.session) : inst' = [inst EXCEPT ![a] = after]
  BY DEF NoResponseComes, P
<1>4. /\ o.session \in SessionType /\ ses[a].errors \subseteq o.session.errors
      /\ Failed(ses[a], o.session) \/ Survived(ses[a], o.session, P)
  BY <1>1, <1>2, <1>3, WaitFails
<1>5. GameAfter(o.session) \subseteq Games
  BY <1>2, <1>4 DEF GameAfter, Failed, Survived, Games, Lost
<1>6. Shown(o.session)
  BY <1>1, <1>4 DEF Shown, Failed, Survived
<1>7. asked' = [asked EXCEPT ![a] = "none"] /\ ready' = ready
  BY DEF NoResponseComes
<1>8. Called(a) /\ ses'[a] = o.session
  BY <1>3, <1>4, <1>5, <1>6, <1>7 DEF Called, IInv, TypeOK
<1> QED
  BY <1>4, <1>8 DEF Failed, Survived

LEMMA WaitFacts ==
    ASSUME IInv, NEW a \in Agents, Wait(a)
    PROVE  /\ Called(a)
           /\ \/ ses'[a].app = ses[a].app
              \/ HasResponsePending(ses[a]) => HasResponsePending(ses'[a])
           /\ PollResponse(a) => ses'[a].app = ses[a].app
<1>1. CASE ResponseComes(a)
  BY <1>1, ResponseFacts
<1>2. CASE NoResponseComes(a, LateEffects(a))
  BY <1>2, NoResponseFacts DEF NoResponseComes
<1> QED
  BY <1>1, <1>2 DEF Wait

-----------------------------------------------------------------------------
(* The processing of an agent keeps the invariant.                         *)

\* The variables of the program's thread have their types.
Typed ==
    /\ settings \in Settings /\ turn \in 0..N /\ updated \in BOOLEAN
    /\ games \in 0..MaxGames /\ left \in BOOLEAN
    /\ ends \in [Agents -> 0..2]

LEMMA SameAgents ==
    ASSUME settings' = settings
    PROVE  N' = N /\ Agents' = Agents /\ (Realtime' <=> Realtime)
BY DEF N, Agents, Realtime

LEMMA NumberOfAgents ==
    ASSUME IInv
    PROVE  N \in 1..MaxAgents /\ MaxAgents \in Nat /\ 1 \in Agents
BY CoordinatorAssumption DEF IInv, TypeOK, SettingsType, N, Agents

\* Whose processing goes on, and when.
LEMMA AgentIsBusy ==
    ASSUME IInv, phase # "crashed", NEW a \in Agents, pc[a] # "done",
           ~(phase = "firstlook" /\ pc[a] = "observe")
    PROVE  /\ phase \in {"parallel", "sequence", "start"}
           /\ phase \in {"sequence", "start"} => a = turn
BY DEF IInv, AtRest

\* Agent a goes on at p after what was called for it.
GoesTo(a, p) ==
    /\ settings' = settings /\ turn' = turn
    /\ phase' \in {phase, "crashed"}
    /\ pc' = [pc EXCEPT ![a] = p] /\ p \in Pcs
    /\ p \in WaitingPcs => ses'[a].app = "normal"
    /\ phase' # "crashed" => Working(p, ses'[a])

\* What every step of agent a leaves alone.
Frame(a) ==
    /\ settings' = settings /\ turn' = turn /\ updated' = updated /\ left' = left
    /\ phase \in {"parallel", "sequence", "start"} /\ phase' \in {phase, "crashed"}
    /\ \A b \in Agents : b # a => pc'[b] = pc[b]
    /\ Called(a)

LEMMA AgentKeeps ==
    ASSUME IInv, phase # "crashed", NEW a \in Agents, pc[a] # "done",
           ~(phase = "firstlook" /\ pc[a] = "observe"),
           NEW p, GoesTo(a, p), Called(a), Typed', UNCHANGED <<updated, left>>
    PROVE  IInv' /\ Frame(a)
<1> USE DEF GoesTo
<1>1. /\ phase \in {"parallel", "sequence", "start"}
      /\ phase \in {"sequence", "start"} => a = turn
  BY AgentIsBusy
<1>2. N' = N /\ Agents' = Agents /\ (Realtime' <=> Realtime)
  BY SameAgents
<1>3. pc \in [Agents -> Pcs] /\ phase' \in Phases
  BY <1>1 DEF IInv, TypeOK, Phases
<1>4. TypeOK'
  BY <1>2, <1>3 DEF TypeOK, Typed, Called
<1>5. pc'[a] = p /\ \A b \in Agents : b # a => pc'[b] = pc[b] /\ ses'[b] = ses[b]
  BY <1>3 DEF Called
<1>6. NoWaitAfterFailure'
  BY <1>2, <1>5 DEF IInv, NoWaitAfterFailure
<1>7. AllWorking'
  <2>1. ASSUME NEW b \in Agents, phase' # "crashed" PROVE Working(pc[b], ses[b])'
    <3>1. Working(pc'[b], ses'[b])
      BY <1>5, <2>1 DEF IInv, AllWorking
    <3> QED
      BY <1>2, <3>1 DEF Working, HasResponsePending
  <2> QED
    BY <1>2, <2>1 DEF AllWorking
<1>8. AtRest'
  BY <1>1, <1>2, <1>5 DEF IInv, AtRest
<1>9. FailureShows'
  BY <1>2, <1>5 DEF IInv, FailureShows, Normal, Called, Shown
<1>10. NoneFailed'
  <2>1. ASSUME NEW b \in Agents, phase' = "start", b > turn PROVE Normal(b)'
    <3>1. phase = "start" /\ b # a
      BY <1>1, <2>1 DEF IInv, TypeOK, Agents
    <3> QED
      BY <1>5, <2>1, <3>1 DEF IInv, NoneFailed, Normal
  <2> QED
    BY <1>1, <1>2, <2>1 DEF NoneFailed
<1> QED
  BY <1>1, <1>4, <1>5, <1>6, <1>7, <1>8, <1>9, <1>10 DEF IInv, Frame

LEMMA StillTyped ==
    ASSUME IInv, UNCHANGED <<coordinator, ends>>
    PROVE  /\ Typed' /\ settings' = settings /\ turn' = turn /\ phase' = phase
           /\ UNCHANGED <<updated, left>>
BY SameAgents DEF IInv, TypeOK, Typed, coordinator

\* What an agent at pc[a] knows of its session.
LEMMA AgentFacts ==
    ASSUME IInv, phase # "crashed", NEW a \in Agents
    PROVE  /\ ses[a] \in SessionType /\ Shown(ses[a])
           /\ pc[a] \in WaitingPcs => ses[a].app = "normal"
           /\ Working(pc[a], ses[a])
           /\ ready[a] \in ResponseType \cup {NoResponse}
BY DEF IInv, TypeOK, FailureShows, Shown, Normal, NoWaitAfterFailure, AllWorking

LEMMA PollLeaveFacts ==
    ASSUME NEW s \in SessionType, Shown(s)
    PROVE  /\ PollLeaveErrors(s) \in SessionType /\ Shown(PollLeaveErrors(s))
           /\ s.errors \subseteq PollLeaveErrors(s).errors
           /\ PollLeaveErrors(s).app = s.app
<1>1. "ResponseNotConsumed" \in ClientErrors
  BY DEF ClientErrors
<1>2. PollLeaveErrors(s) = Error(s, "ResponseNotConsumed") \/ PollLeaveErrors(s) = s
  BY DEF PollLeaveErrors
<1> QED
  BY <1>1, <1>2, ErrorFacts DEF Shown

LEMMA SkipAgentKeeps ==
    ASSUME IInv, phase # "crashed", NEW a \in Agents, SkipAgent(a)
    PROVE  IInv' /\ Frame(a)
<1>1. /\ Typed' /\ settings' = settings /\ turn' = turn /\ phase' = phase
      /\ UNCHANGED <<updated, left>>
  BY StillTyped DEF SkipAgent
<1>2. pc[a] \in {"poll", "recheck"} /\ pc' = [pc EXCEPT ![a] = "done"]
  BY DEF SkipAgent, Goto
<1>3. Called(a)
  <2>1. CASE ResponseComes(a)
    BY <2>1, ResponseFacts
  <2>2. CASE ses' = [ses EXCEPT ![a] = PollLeaveErrors(@)] /\ UNCHANGED game
    <3> DEFINE t == PollLeaveErrors(ses[a])
    <3>1. t \in SessionType /\ Shown(t) /\ ses[a].errors \subseteq t.errors
      BY AgentFacts, PollLeaveFacts
    <3>2. ses' = [ses EXCEPT ![a] = t]
      BY <2>2
    <3> HIDE DEF t
    <3> QED
      BY <2>2, <3>1, <3>2, OneSession
  <2>3. CASE UNCHANGED <<ses, game>>
    BY <2>3, NothingCalled
  <2> QED
    BY <2>1, <2>2, <2>3 DEF SkipAgent, PollLeaveGame
<1>4. GoesTo(a, "done")
  BY <1>1, <1>2 DEF GoesTo, Pcs, WaitingPcs, Working
<1> QED
  BY <1>1, <1>2, <1>3, <1>4, AgentKeeps

LEMMA StepKeeps ==
    ASSUME IInv, phase # "crashed", NEW a \in Agents, Step(a)
    PROVE  IInv' /\ Frame(a)
<1> DEFINE s == PollLeaveErrors(ses[a])
<1>1. /\ Typed' /\ settings' = settings /\ turn' = turn /\ phase' = phase
      /\ UNCHANGED <<updated, left>>
  BY StillTyped DEF Step
<1>2. pc[a] = "poll" /\ pc' = [pc EXCEPT ![a] = "step"] /\ ~Realtime
  BY DEF Step, Goto
<1>3. /\ s \in SessionType /\ Shown(s) /\ s.app = "normal"
      /\ ses[a].errors \subseteq s.errors
  BY AgentFacts, PollLeaveFacts DEF Step, Passes
<1>4. "step" \in Types /\ Request(a, s, "step")
  BY CoordinatorAssumption DEF Step
<1> HIDE DEF s
<1>5. Called(a) /\ ses'[a].app = "normal"
  BY <1>3, <1>4, RequestFacts DEF Requested
<1>6. GoesTo(a, "step")
  BY <1>1, <1>2, <1>5 DEF GoesTo, Pcs, Working
<1> QED
  BY <1>1, <1>2, <1>5, <1>6, AgentKeeps

\* Where an agent goes on when it has an observation or none.
LEMMA AfterObservationFacts ==
    /\ AfterObservation \in {"events", "call", "done"}
    /\ AfterObservation = "events" => Realtime
BY DEF AfterObservation

LEMMA WaitStepKeeps ==
    ASSUME IInv, phase # "crashed", NEW a \in Agents, WaitStep(a)
    PROVE  IInv' /\ Frame(a)
<1> DEFINE p == IF ready[a].type = "step" /\ ~ready[a].error THEN "look"
                ELSE AfterObservation
<1>1. /\ Typed' /\ settings' = settings /\ turn' = turn /\ phase' = phase
      /\ UNCHANGED <<updated, left>>
  BY StillTyped DEF WaitStep
<1>2. pc[a] = "step" /\ pc' = [pc EXCEPT ![a] = p] /\ Wait(a)
  BY DEF WaitStep, Goto
<1>3. Called(a) /\ (PollResponse(a) => ses'[a].app = ses[a].app)
  BY <1>2, WaitFacts
<1>4. ses[a].app = "normal" /\ ~Realtime
  BY <1>2, AgentFacts DEF WaitingPcs, Working
<1>5. p \in {"look", "call", "done"} /\ (p = "look" => PollResponse(a))
  BY <1>4, AfterObservationFacts DEF PollResponse, NoResponse
<1> HIDE DEF p
<1>6. GoesTo(a, p)
  BY <1>1, <1>2, <1>3, <1>4, <1>5 DEF GoesTo, Pcs, WaitingPcs, Working
<1> QED
  BY <1>1, <1>2, <1>3, <1>6, AgentKeeps

LEMMA ObservationFacts ==
    ASSUME IInv, NEW a \in Agents, NEW s \in SessionType, Shown(s),
           ses[a].errors \subseteq s.errors, NEW next, GetObservation(a, s, next)
    PROVE  /\ Called(a) /\ ses'[a].app = s.app
           /\ pc' = [pc EXCEPT ![a] = IF Observes(a, s) THEN "observe" ELSE next]
           /\ Observes(a, s) => s.app = "normal"
<1>1. CASE s.app = "normal"
  <2>1. "observation" \in Types /\ Request(a, s, "observation")
    BY <1>1, CoordinatorAssumption DEF GetObservation
  <2>2. Called(a) /\ ses'[a].app = s.app
    BY <2>1, RequestFacts DEF Requested
  <2> QED
    BY <1>1, <2>2 DEF GetObservation, Goto
<1>2. CASE s.app # "normal"
  <2>1. ses' = [ses EXCEPT ![a] = s] /\ UNCHANGED game
    BY <1>2 DEF GetObservation
  <2>2. Called(a) /\ ses'[a] = s
    BY <2>1, OneSession
  <2> QED
    BY <1>2, <2>2 DEF GetObservation, Goto, Observes
<1> QED
  BY <1>1, <1>2

LEMMA ObserveKeeps ==
    ASSUME IInv, phase # "crashed", NEW a \in Agents, Observe(a)
    PROVE  IInv' /\ Frame(a)
<1>1. /\ Typed' /\ settings' = settings /\ turn' = turn /\ phase' = phase
      /\ UNCHANGED <<updated, left>>
  BY StillTyped DEF Observe
<1>2. PICK s \in SessionType :
          /\ s.app = "normal" /\ Shown(s) /\ ses[a].errors \subseteq s.errors
          /\ GetObservation(a, s, AfterObservation)
  <2>1. CASE pc[a] = "look" /\ GetObservation(a, ses[a], AfterObservation)
    BY <2>1, AgentFacts DEF Working
  <2>2. CASE Passes(a, "poll") /\ GetObservation(a, PollLeaveErrors(ses[a]), AfterObservation)
    BY <2>2, AgentFacts, PollLeaveFacts DEF Passes
  <2> QED
    BY <2>1, <2>2 DEF Observe
<1> DEFINE p == IF Observes(a, s) THEN "observe" ELSE AfterObservation
<1>3. Called(a) /\ ses'[a].app = "normal" /\ pc' = [pc EXCEPT ![a] = p]
  BY <1>2, ObservationFacts
<1>4. p \in {"observe", "events", "call", "done"}
  BY AfterObservationFacts
<1> HIDE DEF p
<1>5. GoesTo(a, p)
  BY <1>1, <1>3, <1>4 DEF GoesTo, Pcs, Working
<1>6. pc[a] \in {"look", "poll"}
  BY DEF Observe
<1> QED
  BY <1>1, <1>3, <1>5, <1>6, AgentKeeps

LEMMA WaitObservationKeeps ==
    ASSUME IInv, phase # "crashed", NEW a \in Agents, WaitObservation(a)
    PROVE  IInv' /\ Frame(a)
<1>1. /\ phase # "firstlook" /\ pc[a] = "observe" /\ Wait(a)
      /\ phase' = IF PollResponse(a) THEN phase ELSE "crashed"
      /\ pc' = [pc EXCEPT ![a] = AfterObservation]
      /\ UNCHANGED <<settings, turn, updated, games, left, ends>>
  BY DEF WaitObservation, Goto
<1>2. Typed'
  BY <1>1, SameAgents DEF IInv, TypeOK, Typed
<1>3. Called(a) /\ (PollResponse(a) => ses'[a].app = "normal")
  BY <1>1, WaitFacts, AgentFacts DEF WaitingPcs
<1>4. GoesTo(a, AfterObservation)
  BY <1>1, <1>3, AfterObservationFacts DEF GoesTo, Pcs, WaitingPcs, Working
<1> QED
  BY <1>1, <1>2, <1>3, <1>4, AgentKeeps

LEMMA RecheckKeeps ==
    ASSUME IInv, phase # "crashed", NEW a \in Agents, Recheck(a)
    PROVE  IInv' /\ Frame(a)
<1> DEFINE t == PollLeaveErrors(ses[a])
<1>1. /\ Typed' /\ settings' = settings /\ turn' = turn /\ phase' = phase
      /\ UNCHANGED <<updated, left>>
  BY StillTyped DEF Recheck
<1>2. pc[a] = "recheck" /\ pc' = [pc EXCEPT ![a] = "call"]
  BY DEF Recheck, Goto
<1>3. t \in SessionType /\ Shown(t) /\ ses[a].errors \subseteq t.errors
  BY AgentFacts, PollLeaveFacts
<1>4. ses' = [ses EXCEPT ![a] = t] /\ UNCHANGED game
  BY DEF Recheck
<1> HIDE DEF t
<1>5. Called(a)
  BY <1>3, <1>4, OneSession
<1>6. GoesTo(a, "call")
  BY <1>1, <1>2 DEF GoesTo, Pcs, WaitingPcs, Working
<1> QED
  BY <1>1, <1>2, <1>5, <1>6, AgentKeeps

LEMMA EndGameKeeps ==
    ASSUME IInv, phase # "crashed", NEW a \in Agents, EndGame(a)
    PROVE  IInv' /\ Frame(a)
<1>1. /\ pc[a] \in {"call", "endcheck"} /\ pc' = [pc EXCEPT ![a] = "done"]
      /\ UNCHANGED coordinator /\ RequestLeaveGame(a)
      /\ ends' = [ends EXCEPT ![a] = IF @ = 2 THEN 2 ELSE @ + 1]
  BY DEF EndGame, Goto, AfterEnd
<1>2. /\ settings' = settings /\ turn' = turn /\ phase' = phase
      /\ UNCHANGED <<updated, left>>
  BY <1>1 DEF coordinator
<1>3. Typed'
  <2>1. ends \in [Agents -> 0..2]
    BY DEF IInv, TypeOK
  <2>2. (IF ends[a] = 2 THEN 2 ELSE ends[a] + 1) \in 0..2
    BY <2>1
  <2>3. ends' \in [Agents -> 0..2]
    BY <1>1, <2>1, <2>2
  <2> QED
    BY <1>1, <1>2, <2>3, SameAgents DEF IInv, TypeOK, Typed, coordinator
<1>4. Called(a)
  <2>1. ses[a] \in SessionType /\ Shown(ses[a]) /\ "leave_game" \in Types
    BY AgentFacts, CoordinatorAssumption
  <2>2. CASE Request(a, ses[a], "leave_game")
    BY <2>1, <2>2, RequestFacts
  <2>3. CASE UNCHANGED <<ses, game>>
    BY <2>3, NothingCalled
  <2> QED
    BY <1>1, <2>2, <2>3 DEF RequestLeaveGame
<1>5. GoesTo(a, "done")
  BY <1>1, <1>2 DEF GoesTo, Pcs, WaitingPcs, Working
<1> QED
  BY <1>1, <1>2, <1>3, <1>4, <1>5, AgentKeeps

LEMMA StayInGameKeeps ==
    ASSUME IInv, phase # "crashed", NEW a \in Agents, StayInGame(a)
    PROVE  IInv' /\ Frame(a)
<1> DEFINE p == IF pc[a] = "call" THEN "events" ELSE "done"
<1>1. /\ Typed' /\ settings' = settings /\ turn' = turn /\ phase' = phase
      /\ UNCHANGED <<updated, left>>
  BY StillTyped DEF StayInGame
<1>2. pc[a] \in {"call", "endcheck"} /\ pc' = [pc EXCEPT ![a] = p]
  BY DEF StayInGame, Goto
<1>3. Called(a) /\ ses'[a].app = "normal"
  BY NothingCalled DEF StayInGame, IsInGame
<1>4. p \in {"events", "done"}
  OBVIOUS
<1> HIDE DEF p
<1>5. GoesTo(a, p)
  BY <1>1, <1>2, <1>3, <1>4 DEF GoesTo, Pcs, Working
<1> QED
  BY <1>1, <1>2, <1>3, <1>5, AgentKeeps

LEMMA IssueEventsKeeps ==
    ASSUME IInv, phase # "crashed", NEW a \in Agents, IssueEvents(a)
    PROVE  IInv' /\ Frame(a)
<1>1. /\ Typed' /\ settings' = settings /\ turn' = turn /\ phase' = phase
      /\ UNCHANGED <<updated, left>>
  BY StillTyped DEF IssueEvents
<1>2. /\ pc[a] = "events" /\ ses[a].app = "normal"
      /\ ses[a] \in SessionType /\ Shown(ses[a]) /\ "query" \in Types
  BY AgentFacts, CoordinatorAssumption DEF IssueEvents, Working
<1>3. AfterEvents \in {"done", "actions"}
  BY DEF AfterEvents
<1>4. PICK p \in {"done", "actions", "query"} :
          /\ Called(a) /\ ses'[a].app = "normal" /\ pc' = [pc EXCEPT ![a] = p]
          /\ p = "query" => HasResponsePending(ses'[a])
  <2>1. CASE Goto(a, AfterEvents) /\ UNCHANGED <<ses, game>>
    BY <1>2, <1>3, <2>1, NothingCalled DEF Goto
  <2>2. CASE /\ Request(a, ses[a], "query")
             /\ Goto(a, IF Outcome(a, ses[a], "query").sent THEN "query" ELSE AfterEvents)
    <3>1. Called(a) /\ Requested(ses[a], "query", Outcome(a, ses[a], "query").sent, ses'[a])
      BY <1>2, <2>2, RequestFacts
    <3> QED
      BY <1>2, <1>3, <2>2, <3>1 DEF Goto, Requested, HasResponsePending
  <2> QED
    BY <2>1, <2>2 DEF IssueEvents
<1>5. GoesTo(a, p)
  BY <1>1, <1>4 DEF GoesTo, Pcs, Working
<1> QED
  BY <1>1, <1>2, <1>4, <1>5, AgentKeeps

LEMMA WaitQueryKeeps ==
    ASSUME IInv, phase # "crashed", NEW a \in Agents, WaitQuery(a)
    PROVE  IInv' /\ Frame(a)
<1>1. /\ Typed' /\ settings' = settings /\ turn' = turn /\ phase' = phase
      /\ UNCHANGED <<updated, left>>
  BY StillTyped DEF WaitQuery
<1>2. pc[a] = "query" /\ pc' = [pc EXCEPT ![a] = AfterEvents] /\ Wait(a)
  BY DEF WaitQuery, Goto
<1>3. ses[a].app = "normal" /\ HasResponsePending(ses[a])
  BY <1>2, AgentFacts DEF WaitingPcs, Working
<1>4. Called(a) /\ (ses'[a].app = "normal" \/ HasResponsePending(ses'[a]))
  BY <1>2, <1>3, WaitFacts
<1>5. AfterEvents \in {"done", "actions"}
  BY DEF AfterEvents
<1>6. GoesTo(a, AfterEvents)
  BY <1>1, <1>2, <1>4, <1>5 DEF GoesTo, Pcs, WaitingPcs, Working
<1> QED
  BY <1>1, <1>2, <1>4, <1>6, AgentKeeps

LEMMA SendActionsKeeps ==
    ASSUME IInv, phase # "crashed", NEW a \in Agents, SendActions(a)
    PROVE  IInv' /\ Frame(a)
<1>1. /\ Typed' /\ settings' = settings /\ turn' = turn /\ phase' = phase
      /\ UNCHANGED <<updated, left>>
  BY StillTyped DEF SendActions
<1>2. /\ pc[a] \in {"actions", "feature"}
      /\ ses[a].app = "normal" \/ HasResponsePending(ses[a])
      /\ ses[a] \in SessionType /\ Shown(ses[a]) /\ "action" \in Types
  BY AgentFacts, CoordinatorAssumption DEF SendActions, Working
<1>3. AfterActions(pc[a]) \in {"done", "endcheck", "feature"}
  BY DEF AfterActions
<1>4. PICK p \in {"done", "endcheck", "feature", "acting", "featuring"} :
          /\ Called(a) /\ pc' = [pc EXCEPT ![a] = p]
          /\ ses'[a].app = "normal" \/ HasResponsePending(ses'[a])
          /\ p \in {"acting", "featuring"} =>
                 ses'[a].app = "normal" /\ HasResponsePending(ses'[a])
  <2>1. CASE Goto(a, AfterActions(pc[a])) /\ UNCHANGED <<ses, game>>
    BY <1>2, <1>3, <2>1, NothingCalled DEF Goto, HasResponsePending
  <2>2. CASE /\ Request(a, ses[a], "action")
             /\ Goto(a, IF ~Outcome(a, ses[a], "action").sent THEN AfterActions(pc[a])
                        ELSE IF pc[a] = "actions" THEN "acting" ELSE "featuring")
    <3>1. Called(a) /\ Requested(ses[a], "action", Outcome(a, ses[a], "action").sent, ses'[a])
      BY <1>2, <2>2, RequestFacts
    <3> QED
      BY <1>2, <1>3, <2>2, <3>1 DEF Goto, Requested, HasResponsePending
  <2> QED
    BY <2>1, <2>2 DEF SendActions
<1>5. GoesTo(a, p)
  BY <1>1, <1>4 DEF GoesTo, Pcs, WaitingPcs, Working
<1> QED
  BY <1>1, <1>2, <1>4, <1>5, AgentKeeps

LEMMA WaitActionsKeeps ==
    ASSUME IInv, phase # "crashed", NEW a \in Agents, WaitActions(a)
    PROVE  IInv' /\ Frame(a)
<1> DEFINE p == AfterActions(pc[a])
<1>1. /\ Typed' /\ settings' = settings /\ turn' = turn /\ phase' = phase
      /\ UNCHANGED <<updated, left>>
  BY StillTyped DEF WaitActions
<1>2. pc[a] \in {"acting", "featuring"} /\ pc' = [pc EXCEPT ![a] = p] /\ Wait(a)
  BY DEF WaitActions, Goto
<1>3. ses[a].app = "normal" /\ HasResponsePending(ses[a])
  BY <1>2, AgentFacts DEF WaitingPcs, Working
<1>4. Called(a) /\ (ses'[a].app = "normal" \/ HasResponsePending(ses'[a]))
  BY <1>2, <1>3, WaitFacts
<1>5. p \in {"done", "endcheck", "feature"}
  BY DEF AfterActions
<1> HIDE DEF p
<1>6. GoesTo(a, p)
  BY <1>1, <1>2, <1>4, <1>5 DEF GoesTo, Pcs, WaitingPcs, Working
<1> QED
  BY <1>1, <1>2, <1>4, <1>6, AgentKeeps

LEMMA EveryAgentKeeps ==
    ASSUME IInv, NEW a \in Agents, Agent(a)
    PROVE  IInv' /\ Frame(a)
BY SkipAgentKeeps, StepKeeps, WaitStepKeeps, ObserveKeeps, WaitObservationKeeps,
   RecheckKeeps, EndGameKeeps, StayInGameKeeps, IssueEventsKeeps, WaitQueryKeeps,
   SendActionsKeeps, WaitActionsKeeps DEF Agent

-----------------------------------------------------------------------------
(* The program's thread keeps the invariant.                               *)

ClientsTyped ==
    /\ ses \in [Agents -> SessionType] /\ inst \in [Agents -> Games]
    /\ asked \in [Agents -> Types \cup {"none"}]
    /\ ready \in [Agents -> ResponseType \cup {NoResponse}]
    /\ \A a \in Agents : Shown(ses[a])

LEMMA CalledTyped ==
    ASSUME IInv, settings' = settings, NEW a \in Agents, Called(a)
    PROVE  ClientsTyped'
<1>1. Agents' = Agents
  BY SameAgents
<1>2. ASSUME NEW b \in Agents PROVE Shown(ses'[b])
  BY DEF Called, IInv, FailureShows, Normal, Shown
<1> QED
  BY <1>1, <1>2 DEF ClientsTyped, Called, Shown

LEMMA SameClients ==
    ASSUME IInv, settings' = settings, UNCHANGED <<ses, game>>
    PROVE  ClientsTyped'
<1>1. 1 \in Agents
  BY NumberOfAgents
<1> QED
  BY <1>1, NothingCalled, CalledTyped

\* Where the agents are when the thread is done with a step.
LEMMA ThreadKeeps ==
    ASSUME IInv, settings' = settings, Typed', ClientsTyped', phase' \in Phases,
           pc' \in [Agents -> Pcs],
           \A a \in Agents : \/ pc'[a] \in {"done", "poll", "recheck"}
                             \/ pc'[a] \in {"events", "observe"} /\ ses'[a].app = "normal",
           AtRest', NoneFailed'
    PROVE  IInv'
<1>1. Agents' = Agents
  BY SameAgents
<1>2. TypeOK'
  BY <1>1 DEF TypeOK, Typed, ClientsTyped
<1>3. NoWaitAfterFailure'
  BY <1>1 DEF NoWaitAfterFailure, WaitingPcs
<1>4. AllWorking'
  BY <1>1 DEF AllWorking, Working
<1>5. FailureShows'
  BY <1>1 DEF FailureShows, Normal, ClientsTyped, Shown
<1> QED
  BY <1>2, <1>3, <1>4, <1>5 DEF IInv

\* Between the loops over the agents, all of them rest.
LEMMA RestKeeps ==
    ASSUME IInv, settings' = settings, Typed', ClientsTyped',
           \A a \in Agents : pc[a] = "done", pc' = pc,
           phase' \in Phases \ {"parallel", "sequence", "firstlook", "start", "started"},
           phase' \in {"joining", "waitjoin", "joined"} => turn' \in Agents
    PROVE  IInv'
<1>1. Agents' = Agents
  BY SameAgents
<1>2. AtRest' /\ NoneFailed'
  BY <1>1 DEF AtRest, NoneFailed
<1>3. pc' \in [Agents -> Pcs]
  BY DEF IInv, TypeOK
<1> QED
  BY <1>2, <1>3, ThreadKeeps

\* The agents rest in these phases.
LEMMA AllRest ==
    ASSUME IInv, phase \notin {"parallel", "sequence", "firstlook", "start", "crashed"}
    PROVE  \A a \in Agents : pc[a] = "done"
BY DEF IInv, AtRest

LEMMA CreateGameKeeps ==
    ASSUME IInv, CreateGame PROVE IInv'
<1>1. /\ phase = "idle" /\ Request(1, ses[1], "create_game")
      /\ phase' \in {"create", "exited"}
      /\ UNCHANGED <<settings, turn, updated, left, pc, ends>>
      /\ games < settings.games /\ games' = games + 1
  BY DEF CreateGame
<1>2. Typed'
  <2>1. settings.games \in 0..MaxGames /\ MaxGames \in Nat /\ games \in 0..MaxGames
    BY CoordinatorAssumption DEF IInv, TypeOK, SettingsType
  <2>2. games' \in 0..MaxGames
    BY <1>1, <2>1
  <2> QED
    BY <1>1, <2>2, SameAgents DEF IInv, TypeOK, Typed
<1>3. ClientsTyped'
  <2>1. 1 \in Agents /\ "create_game" \in Types
    BY NumberOfAgents, CoordinatorAssumption
  <2>2. ses[1] \in SessionType /\ Shown(ses[1])
    BY <1>1, <2>1, AgentFacts
  <2>3. Called(1)
    BY <1>1, <2>1, <2>2, RequestFacts
  <2> QED
    BY <1>1, <2>1, <2>3, CalledTyped
<1> QED
  BY <1>1, <1>2, <1>3, AllRest, RestKeeps DEF Phases

LEMMA WaitCreateGameKeeps ==
    ASSUME IInv, WaitCreateGame PROVE IInv'
<1>1. /\ phase = "create" /\ Wait(1) /\ phase' \in {"joining", "exited"} /\ turn' = 1
      /\ UNCHANGED <<settings, updated, games, left, pc, ends>>
  BY DEF WaitCreateGame
<1>2. 1 \in Agents
  BY NumberOfAgents
<1>3. Typed'
  BY <1>1, <1>2, SameAgents DEF IInv, TypeOK, Typed, Agents, N
<1>4. ClientsTyped'
  BY <1>1, <1>2, WaitFacts, CalledTyped
<1> QED
  BY <1>1, <1>2, <1>3, <1>4, AllRest, RestKeeps DEF Phases

LEMMA NextTurnFacts ==
    ASSUME IInv, turn \in Agents, NEW p, NEW q, NextTurn(p, q)
    PROVE  turn' \in Agents /\ turn' \in 0..N /\ phase' \in {p, q}
BY NumberOfAgents DEF NextTurn, HasNext, Agents

LEMMA RequestJoinGameKeeps ==
    ASSUME IInv, RequestJoinGame PROVE IInv'
<1>1. /\ phase = "joining" /\ Request(turn, ses[turn], "join_game")
      /\ AfterJoinRequest(Outcome(turn, ses[turn], "join_game").sent)
      /\ UNCHANGED <<settings, updated, games, left, pc, ends>>
  BY DEF RequestJoinGame
<1>2. turn \in Agents /\ "join_game" \in Types
  BY <1>1, CoordinatorAssumption DEF IInv, AtRest
<1>3. turn' \in Agents /\ turn' \in 0..N /\ phase' \in {"joining", "waitjoin", "exited"}
  BY <1>1, <1>2, NextTurnFacts DEF AfterJoinRequest, IInv, TypeOK
<1>4. Typed'
  BY <1>1, <1>3, SameAgents DEF IInv, TypeOK, Typed
<1>5. ClientsTyped'
  BY <1>1, <1>2, AgentFacts, RequestFacts, CalledTyped
<1> QED
  BY <1>1, <1>3, <1>4, <1>5, AllRest, RestKeeps DEF Phases

LEMMA WaitJoinGameKeeps ==
    ASSUME IInv, WaitJoinGame PROVE IInv'
<1>1. /\ phase = "waitjoin" /\ Wait(turn) /\ NextTurn("waitjoin", "joined")
      /\ UNCHANGED <<settings, updated, games, left, pc, ends>>
  BY DEF WaitJoinGame
<1>2. turn \in Agents
  BY <1>1 DEF IInv, AtRest
<1>3. turn' \in Agents /\ turn' \in 0..N /\ phase' \in {"waitjoin", "joined"}
  BY <1>1, <1>2, NextTurnFacts
<1>4. Typed'
  BY <1>1, <1>3, SameAgents DEF IInv, TypeOK, Typed
<1>5. ClientsTyped'
  BY <1>1, <1>2, WaitFacts, CalledTyped
<1> QED
  BY <1>1, <1>3, <1>4, <1>5, AllRest, RestKeeps DEF Phases

LEMMA CheckJoinErrorsKeeps ==
    ASSUME IInv, CheckJoinErrors PROVE IInv'
<1>1. /\ phase = "joined" /\ phase' = IF HasErrors THEN "idle" ELSE "firstlook"
      /\ updated' = FALSE
      /\ UNCHANGED <<settings, turn, games, left, pc, ses, ends, game>>
  BY DEF CheckJoinErrors, clients
<1>2. Agents' = Agents /\ N' = N
  BY <1>1, SameAgents
<1>3. Typed' /\ ClientsTyped'
  BY <1>1, <1>2, SameClients DEF IInv, TypeOK, Typed
<1>4. turn \in Agents /\ \A a \in Agents : pc[a] = "done"
  BY <1>1 DEF IInv, AtRest
<1>5. AtRest'
  BY <1>1, <1>2, <1>4 DEF AtRest
<1>6. NoneFailed'
  BY <1>1, <1>2 DEF NoneFailed, IInv, FailureShows, Normal, HasErrors
<1>7. pc' \in [Agents -> Pcs] /\ phase' \in Phases
  BY <1>1 DEF IInv, TypeOK, Phases
<1> QED
  BY <1>1, <1>3, <1>4, <1>5, <1>6, <1>7, ThreadKeeps

\* The observations of StartGame: every agent's game still works.
LEMMA FirstLookKeeps ==
    ASSUME IInv, FirstLook PROVE IInv'
<1> DEFINE p == IF Observes(turn, ses[turn]) THEN "observe" ELSE "done"
<1>1. /\ phase = "firstlook" /\ GetObservation(turn, ses[turn], "done")
      /\ IF Observes(turn, ses[turn])
         THEN UNCHANGED <<phase, turn>> ELSE NextTurn("firstlook", "started")
      /\ UNCHANGED <<settings, updated, games, left, ends>>
  BY DEF FirstLook
<1>2. turn \in Agents /\ Agents' = Agents /\ N' = N /\ pc \in [Agents -> Pcs]
  BY <1>1, SameAgents DEF IInv, AtRest, TypeOK
<1>3. /\ Called(turn) /\ ses'[turn].app = ses[turn].app
      /\ pc' = [pc EXCEPT ![turn] = p]
  BY <1>1, <1>2, AgentFacts, ObservationFacts
<1>4. /\ p \in {"observe", "done"}
      /\ p = "observe" => phase' = "firstlook" /\ turn' = turn
      /\ p = "done" => phase' \in {"firstlook", "started"}
      /\ turn' \in Agents /\ turn' \in 0..N
  BY <1>1, <1>2, NextTurnFacts DEF IInv, TypeOK
<1>5. Typed' /\ ClientsTyped'
  BY <1>1, <1>2, <1>3, <1>4, CalledTyped DEF IInv, TypeOK, Typed
<1>6. \A a \in Agents : ses'[a].app = "normal"
  BY <1>1, <1>3 DEF Called, IInv, NoneFailed, Normal
<1>7. \A a \in Agents : pc'[a] = IF a = turn THEN p ELSE "done"
  BY <1>1, <1>2, <1>3 DEF IInv, AtRest
<1> HIDE DEF p
<1>8. AtRest' /\ NoneFailed'
  BY <1>2, <1>4, <1>6, <1>7 DEF AtRest, NoneFailed, Normal
<1>9. pc' \in [Agents -> Pcs] /\ phase' \in Phases
  BY <1>2, <1>3, <1>4 DEF Pcs, Phases
<1> QED
  BY <1>1, <1>4, <1>5, <1>6, <1>7, <1>8, <1>9, ThreadKeeps

LEMMA WaitFirstLookKeeps ==
    ASSUME IInv, WaitFirstLook PROVE IInv'
<1>1. /\ phase = "firstlook" /\ Wait(turn) /\ pc' = [pc EXCEPT ![turn] = "done"]
      /\ IF PollResponse(turn) THEN NextTurn("firstlook", "started")
         ELSE phase' = "crashed" /\ UNCHANGED turn
      /\ UNCHANGED <<settings, updated, games, left, ends>>
  BY DEF WaitFirstLook, Goto
<1>2. turn \in Agents /\ Agents' = Agents /\ N' = N /\ pc \in [Agents -> Pcs]
  BY <1>1, SameAgents DEF IInv, AtRest, TypeOK
<1>3. Called(turn) /\ (PollResponse(turn) => ses'[turn].app = ses[turn].app)
  BY <1>1, <1>2, WaitFacts
<1>4. /\ phase' \in {"firstlook", "started", "crashed"}
      /\ phase' # "crashed" => PollResponse(turn)
      /\ turn' \in Agents /\ turn' \in 0..N
  BY <1>1, <1>2, NextTurnFacts DEF IInv, TypeOK
<1>5. Typed' /\ ClientsTyped'
  BY <1>1, <1>2, <1>3, <1>4, CalledTyped DEF IInv, TypeOK, Typed
<1>6. phase' # "crashed" => \A a \in Agents : ses'[a].app = "normal"
  BY <1>1, <1>3, <1>4 DEF Called, IInv, NoneFailed, Normal
<1>7. \A a \in Agents : pc'[a] = "done"
  BY <1>1, <1>2 DEF IInv, AtRest
<1>8. AtRest' /\ NoneFailed'
  BY <1>2, <1>4, <1>6, <1>7 DEF AtRest, NoneFailed, Normal
<1>9. pc' \in [Agents -> Pcs] /\ phase' \in Phases
  BY <1>1, <1>2, <1>4 DEF Pcs, Phases
<1> QED
  BY <1>1, <1>5, <1>7, <1>8, <1>9, ThreadKeeps

LEMMA OnGameStartKeeps ==
    ASSUME IInv, OnGameStart PROVE IInv'
<1>1. /\ phase = "started" /\ phase' = "start" /\ turn' = 1
      /\ pc' = [pc EXCEPT ![1] = "events"] /\ left' = FALSE
      /\ ends' = [a \in Agents |-> 0]
      /\ UNCHANGED <<settings, updated, games, ses, game>>
  BY DEF OnGameStart, Goto
<1>2. 1 \in Agents /\ Agents' = Agents /\ N' = N /\ pc \in [Agents -> Pcs]
  BY <1>1, NumberOfAgents, SameAgents DEF IInv, TypeOK
<1>3. Typed'
  <2>1. 1 \in 0..N /\ ends' \in [Agents -> 0..2]
    BY <1>1, <1>2, NumberOfAgents DEF Agents
  <2> QED
    BY <1>1, <1>2, <2>1 DEF IInv, TypeOK, Typed
<1>4. ClientsTyped'
  BY <1>1, SameClients
<1>5. /\ \A a \in Agents : ses'[a].app = "normal"
      /\ \A a \in Agents : pc'[a] = IF a = 1 THEN "events" ELSE "done"
  BY <1>1, <1>2 DEF IInv, NoneFailed, Normal, AtRest
<1>6. AtRest' /\ NoneFailed'
  BY <1>1, <1>2, <1>5 DEF AtRest, NoneFailed, Normal
<1>7. pc' \in [Agents -> Pcs] /\ phase' \in Phases
  BY <1>1, <1>2 DEF Pcs, Phases
<1> QED
  BY <1>1, <1>3, <1>4, <1>5, <1>6, <1>7, ThreadKeeps

LEMMA NextStartKeeps ==
    ASSUME IInv, NextStart PROVE IInv'
<1>1. /\ phase = "start" /\ pc[turn] = "done"
      /\ IF turn < N
         THEN turn' = turn + 1 /\ pc' = [pc EXCEPT ![turn + 1] = "events"]
              /\ UNCHANGED <<phase, updated>>
         ELSE phase' = "idle" /\ updated' = TRUE /\ UNCHANGED <<turn, pc>>
      /\ UNCHANGED <<settings, games, left, ses, ends, game>>
  BY DEF NextStart, Goto
<1>2. turn \in Agents /\ Agents' = Agents /\ N' = N /\ \A a \in Agents : pc[a] = "done"
  BY <1>1, SameAgents DEF IInv, AtRest
<1>3. N \in Nat /\ pc \in [Agents -> Pcs] /\ ClientsTyped'
  BY <1>1, NumberOfAgents, SameClients DEF IInv, TypeOK
<1>4. CASE turn < N
  <2>1. turn + 1 \in Agents /\ turn + 1 \in 0..N /\ turn < turn + 1
    BY <1>2, <1>3, <1>4 DEF Agents
  <2>2. Typed'
    BY <1>1, <1>2, <1>4, <2>1 DEF IInv, TypeOK, Typed
  <2>3. \A a \in Agents : pc'[a] = IF a = turn + 1 THEN "events" ELSE "done"
    BY <1>1, <1>2, <1>3, <1>4
  <2>4. /\ ses'[turn + 1].app = "normal"
        /\ \A a \in Agents : a > turn + 1 => ses'[a].app = "normal"
    <3>1. \A a \in Agents : a > turn => ses[a].app = "normal"
      BY <1>1 DEF IInv, NoneFailed, Normal
    <3>2. \A a \in Agents : a > turn + 1 => a > turn
      BY <1>2 DEF Agents
    <3> QED
      BY <1>1, <2>1, <3>1, <3>2
  <2>5. AtRest' /\ NoneFailed'
    BY <1>1, <1>2, <1>4, <2>1, <2>3, <2>4 DEF AtRest, NoneFailed, Normal
  <2>6. pc' \in [Agents -> Pcs] /\ phase' \in Phases
    BY <1>1, <1>3, <1>4 DEF Pcs, Phases
  <2> QED
    BY <1>1, <1>3, <2>2, <2>3, <2>4, <2>5, <2>6, ThreadKeeps
<1>5. CASE ~(turn < N)
  BY <1>1, <1>2, <1>3, <1>5, RestKeeps DEF IInv, TypeOK, Typed, Phases
<1> QED
  BY <1>4, <1>5

LEMMA StartGameKeeps ==
    ASSUME IInv, StartGame PROVE IInv'
BY CreateGameKeeps, WaitCreateGameKeeps, RequestJoinGameKeeps, WaitJoinGameKeeps,
   CheckJoinErrorsKeeps, FirstLookKeeps, WaitFirstLookKeeps, OnGameStartKeeps,
   NextStartKeeps DEF StartGame

LEMMA UpdateKeeps ==
    ASSUME IInv, Update PROVE IInv'
<1>1. /\ phase = "idle" /\ turn' = 1
      /\ \/ phase' = "sequence" /\ pc' = [pc EXCEPT ![1] = "poll"]
         \/ phase' = "parallel" /\ pc' = [a \in Agents |-> "poll"]
      /\ UNCHANGED <<settings, updated, games, left, ses, ends, game>>
  BY DEF Update, Goto
<1>2. /\ 1 \in Agents /\ 1 \in 0..N /\ Agents' = Agents /\ N' = N
      /\ pc \in [Agents -> Pcs] /\ \A a \in Agents : pc[a] = "done"
  BY <1>1, NumberOfAgents, AllRest, SameAgents DEF IInv, TypeOK
<1>3. Typed' /\ ClientsTyped'
  BY <1>1, <1>2, SameClients DEF IInv, TypeOK, Typed
<1>4. /\ \A a \in Agents : pc'[a] \in {"done", "poll"}
      /\ phase' = "sequence" => \A a \in Agents : a # 1 => pc'[a] = "done"
  BY <1>1, <1>2
<1>5. AtRest' /\ NoneFailed'
  BY <1>1, <1>2, <1>4 DEF AtRest, NoneFailed
<1>6. pc' \in [Agents -> Pcs] /\ phase' \in Phases
  BY <1>1, <1>2 DEF Pcs, Phases
<1>7. \A a \in Agents : pc'[a] \in {"done", "poll", "recheck"}
  BY <1>4
<1> QED
  BY <1>1, <1>3, <1>5, <1>6, <1>7, ThreadKeeps

\* A loop over the agents on the program's thread turns to agent b.
LEMMA TurnKeeps ==
    ASSUME IInv, phase' = "sequence", NEW b \in Agents, turn' = b,
           NEW p \in {"poll", "recheck"}, pc' = [pc EXCEPT ![b] = p],
           \A a \in Agents : pc[a] = "done",
           UNCHANGED <<settings, updated, games, left, ses, ends, game>>
    PROVE  IInv'
<1>1. /\ b \in 0..N /\ Agents' = Agents /\ N' = N /\ pc \in [Agents -> Pcs]
  BY NumberOfAgents, SameAgents DEF IInv, TypeOK, Agents
<1>2. Typed' /\ ClientsTyped'
  BY <1>1, SameClients DEF IInv, TypeOK, Typed
<1>3. \A a \in Agents : pc'[a] = IF a = b THEN p ELSE "done"
  BY <1>1
<1>4. AtRest' /\ NoneFailed'
  BY <1>1, <1>3 DEF AtRest, NoneFailed
<1>5. pc' \in [Agents -> Pcs] /\ phase' \in Phases
  BY <1>1 DEF Pcs, Phases
<1> QED
  BY <1>2, <1>3, <1>4, <1>5, ThreadKeeps

LEMMA BeginSecondLoopKeeps ==
    ASSUME IInv, BeginSecondLoop PROVE IInv'
BY NumberOfAgents, TurnKeeps DEF BeginSecondLoop, Goto

LEMMA NextAgentKeeps ==
    ASSUME IInv, NextAgent PROVE IInv'
<1>1. /\ phase = "sequence" /\ pc[turn] = "done" /\ turn < N /\ turn' = turn + 1
      /\ pc' = [pc EXCEPT ![turn + 1] = IF Realtime THEN "poll" ELSE "recheck"]
      /\ UNCHANGED <<settings, phase, updated, games, left, ses, ends, game>>
  BY DEF NextAgent, Goto
<1>2. turn + 1 \in Agents /\ \A a \in Agents : pc[a] = "done"
  BY <1>1, NumberOfAgents DEF IInv, AtRest, Agents
<1> QED
  BY <1>1, <1>2, TurnKeeps

LEMMA ReturnFromUpdateKeeps ==
    ASSUME IInv, ReturnFromUpdate PROVE IInv'
<1>1. /\ \/ phase = "sequence" /\ turn = N /\ pc[N] = "done"
         \/ phase = "parallel" /\ \A a \in Agents : pc[a] = "done"
      /\ phase' = "idle" /\ updated' = GoesOn
      /\ UNCHANGED <<settings, turn, games, left, pc, ses, ends, game>>
  BY DEF ReturnFromUpdate, clients
<1>2. \A a \in Agents : pc[a] = "done"
  BY <1>1 DEF IInv, AtRest
<1>3. GoesOn \in BOOLEAN
  BY DEF GoesOn
<1>4. Typed' /\ ClientsTyped'
  BY <1>1, <1>3, SameAgents, SameClients DEF IInv, TypeOK, Typed
<1> QED
  BY <1>1, <1>2, <1>4, RestKeeps DEF Phases

LEMMA LeaveGameKeeps ==
    ASSUME IInv, LeaveGame PROVE IInv'
<1>1. /\ phase = "idle" /\ left' = TRUE
      /\ ses' = [a \in Agents |-> Outcome(a, ses[a], "leave_game").session]
      /\ asked' = [a \in Agents |-> IF Outcome(a, ses[a], "leave_game").sent
                                    THEN "leave_game" ELSE asked[a]]
      /\ UNCHANGED <<settings, phase, turn, updated, games, pc, ends, inst, ready>>
  BY DEF LeaveGame
<1>2. Agents' = Agents /\ "leave_game" \in Types
  BY <1>1, SameAgents, CoordinatorAssumption
<1>3. Typed'
  BY <1>1, SameAgents DEF IInv, TypeOK, Typed
<1>4. ASSUME NEW a \in Agents
      PROVE  /\ Outcome(a, ses[a], "leave_game").session \in SessionType
             /\ Shown(Outcome(a, ses[a], "leave_game").session)
  BY <1>1, <1>2, AgentFacts, OutcomeFacts
<1>5. ClientsTyped'
  BY <1>1, <1>2, <1>4 DEF ClientsTyped, IInv, TypeOK, Shown
<1> QED
  BY <1>1, <1>3, <1>5, AllRest, RestKeeps DEF Phases

LEMMA WaitForAllResponsesKeeps ==
    ASSUME IInv, WaitForAllResponses PROVE IInv'
<1>1. /\ phase = "idle" /\ phase' = "polling"
      /\ UNCHANGED <<settings, turn, updated, games, left, pc, ses, ends, game>>
  BY DEF WaitForAllResponses, clients
<1>2. Typed' /\ ClientsTyped'
  BY <1>1, SameAgents, SameClients DEF IInv, TypeOK, Typed
<1> QED
  BY <1>1, <1>2, AllRest, RestKeeps DEF Phases

LEMMA ConsumeFirstKeeps ==
    ASSUME IInv, ConsumeFirst PROVE IInv'
<1> DEFINE a == FirstAwaited
<1>1. /\ phase = "polling" /\ ResponseComes(a)
      /\ UNCHANGED <<settings, phase, turn, updated, games, left, pc, ends>>
  BY DEF ConsumeFirst, coordinator
<1> HIDE DEF a
<1>2. Typed'
  BY <1>1, SameAgents DEF IInv, TypeOK, Typed
<1>3. ClientsTyped'
  <2>1. CASE a \in Agents
    BY <1>1, <2>1, ResponseFacts, CalledTyped
  <2>2. CASE a \notin Agents
    <3>1. UNCHANGED <<ses, game>>
      BY <1>1, <2>2 DEF ResponseComes, game, IInv, TypeOK
    <3> QED
      BY <1>1, <3>1, SameClients
  <2> QED
    BY <2>1, <2>2
<1> QED
  BY <1>1, <1>2, <1>3, AllRest, RestKeeps DEF Phases

LEMMA EndOfWaitKeeps ==
    ASSUME IInv, EndOfWait PROVE IInv'
<1>1. /\ phase = "polling" /\ phase' \in {"idle", "exited"}
      /\ UNCHANGED <<settings, turn, updated, games, left, pc, ses, ends, game>>
  BY DEF EndOfWait, clients
<1>2. Typed' /\ ClientsTyped'
  BY <1>1, SameAgents, SameClients DEF IInv, TypeOK, Typed
<1> QED
  BY <1>1, <1>2, AllRest, RestKeeps DEF Phases

-----------------------------------------------------------------------------
(* So do the games, and every step.                                        *)

\* What only the games do.
LEMMA GamesKeep ==
    ASSUME IInv, UNCHANGED <<coordinator, clients>>,
           inst' \in [Agents -> Games], asked' \in [Agents -> Types \cup {"none"}],
           ready' \in [Agents -> ResponseType \cup {NoResponse}]
    PROVE  IInv'
<1>1. UNCHANGED <<settings, phase, turn, updated, games, left, ses, pc, ends>>
  BY DEF coordinator, clients
<1>2. Agents' = Agents /\ N' = N /\ (Realtime' <=> Realtime)
  BY <1>1, SameAgents
<1>3. TypeOK'
  BY <1>1, <1>2 DEF IInv, TypeOK
<1>4. NoWaitAfterFailure' /\ FailureShows'
  BY <1>1, <1>2 DEF IInv, NoWaitAfterFailure, FailureShows, Normal
<1>5. AllWorking'
  BY <1>1, <1>2 DEF IInv, AllWorking, Working, HasResponsePending
<1>6. AtRest' /\ NoneFailed'
  BY <1>1, <1>2 DEF IInv, AtRest, NoneFailed, Normal
<1> QED
  BY <1>3, <1>4, <1>5, <1>6 DEF IInv

LEMMA ExitKeeps ==
    ASSUME IInv, Exit PROVE IInv'
<1>1. /\ phase \in Outside /\ phase' = IF phase = "crashed" THEN phase ELSE "exited"
      /\ UNCHANGED <<settings, turn, updated, games, left, pc, ses, ends, game>>
  BY DEF Exit, clients
<1>2. CASE phase = "crashed"
  <2>1. UNCHANGED <<coordinator, clients>>
    BY <1>1, <1>2 DEF coordinator, clients
  <2> QED
    BY <1>1, <2>1, GamesKeep DEF IInv, TypeOK, game
<1>3. CASE phase # "crashed"
  <2>1. Typed' /\ ClientsTyped'
    BY <1>1, SameAgents, SameClients DEF IInv, TypeOK, Typed
  <2>2. \A a \in Agents : pc[a] = "done"
    BY <1>1, <1>3, AllRest DEF Outside, Ended
  <2> QED
    BY <1>1, <1>3, <2>1, <2>2, RestKeeps DEF Phases
<1> QED
  BY <1>2, <1>3

LEMMA AnswerOneKeeps ==
    ASSUME IInv, NEW a \in Agents, AnswerOne(a) PROVE IInv'
<1>1. /\ inst \in [Agents -> Games] /\ asked \in [Agents -> Types \cup {"none"}]
      /\ ready \in [Agents -> ResponseType \cup {NoResponse}]
  BY DEF IInv, TypeOK
<1>2. asked[a] \in Types /\ inst[a] \in Games \ Lost
  BY <1>1 DEF AnswerOne
<1>3. \E i \in Games \ Lost : \E e \in BOOLEAN :
          /\ inst' = [inst EXCEPT ![a] = i] \/ inst' = inst
          /\ ready' = [ready EXCEPT ![a] = Response(asked[a], i, e)]
  <2>1. CASE Valid(a, asked[a])
    <3>1. /\ inst' = [inst EXCEPT ![a] = StateAfter(a, asked[a])]
          /\ ready' = [ready EXCEPT ![a] = Response(asked[a], inst'[a], FALSE)]
      BY <2>1, Zenon DEF AnswerOne
    <3>2. StateAfter(a, asked[a]) \in Games \ Lost
      BY <1>2 DEF StateAfter, Games, Lost
    <3>3. inst'[a] = StateAfter(a, asked[a])
      BY <1>1, <3>1
    <3> QED
      BY <3>1, <3>2, <3>3
  <2>2. CASE ~Valid(a, asked[a])
    <3>1. inst' = inst
      BY <2>2, Zenon DEF AnswerOne
    <3>2. \E e \in IF asked[a] = "action" THEN BOOLEAN ELSE {TRUE} :
              ready' = [ready EXCEPT ![a] = Response(asked[a], inst[a], e)]
      BY <2>2, Zenon DEF AnswerOne
    <3> QED
      BY <1>2, <3>1, <3>2
  <2> QED
    BY <2>1, <2>2
<1>4. ASSUME NEW i \in Games \ Lost, NEW e \in BOOLEAN
      PROVE  Response(asked[a], i, e) \in ResponseType
  BY <1>2 DEF Response, ResponseType, Games, Lost, Statuses
<1>5. /\ inst' \in [Agents -> Games]
      /\ ready' \in [Agents -> ResponseType \cup {NoResponse}]
  BY <1>1, <1>3, <1>4
<1>6. asked' \in [Agents -> Types \cup {"none"}] /\ UNCHANGED <<coordinator, clients>>
  BY <1>1 DEF AnswerOne
<1> QED
  BY <1>5, <1>6, GamesKeep

LEMMA AnswerAllKeeps ==
    ASSUME IInv, NEW t \in Synchronous, AnswerAll(t) PROVE IInv'
<1>1. PICK after \in {"in_game", "ended"} :
          /\ inst' = [a \in Agents |-> IF a \in Players(t) THEN after ELSE inst[a]]
          /\ ready' = [a \in Agents |-> IF a \in Players(t) THEN Response(t, after, FALSE)
                                        ELSE ready[a]]
  BY DEF AnswerAll
<1>2. /\ asked' = [a \in Agents |-> IF a \in Players(t) THEN "none" ELSE asked[a]]
      /\ UNCHANGED <<coordinator, clients>>
  BY DEF AnswerAll
<1>3. after \in Games /\ Response(t, after, FALSE) \in ResponseType
  BY <1>1, CoordinatorAssumption DEF Games, Response, ResponseType, Statuses, Synchronous
<1>4. /\ inst' \in [Agents -> Games] /\ asked' \in [Agents -> Types \cup {"none"}]
      /\ ready' \in [Agents -> ResponseType \cup {NoResponse}]
  BY <1>1, <1>2, <1>3 DEF IInv, TypeOK
<1> QED
  BY <1>2, <1>4, GamesKeep

LEMMA GameOverKeeps ==
    ASSUME IInv, GameOver PROVE IInv'
<1>1. inst' = [a \in Agents |-> IF inst[a] = "in_game" THEN "ended" ELSE inst[a]]
  BY DEF GameOver
<1>2. inst' \in [Agents -> Games]
  BY <1>1 DEF IInv, TypeOK, Games
<1> QED
  BY <1>2, GamesKeep DEF GameOver, IInv, TypeOK

LEMMA NextKeeps ==
    ASSUME IInv, [Next]_vars PROVE IInv'
<1>1. CASE Next
  BY <1>1, StartGameKeeps, UpdateKeeps, BeginSecondLoopKeeps, NextAgentKeeps,
     ReturnFromUpdateKeeps, ConsumeFirstKeeps, EndOfWaitKeeps, LeaveGameKeeps,
     WaitForAllResponsesKeeps, ExitKeeps, EveryAgentKeeps, AnswerOneKeeps,
     AnswerAllKeeps, GameOverKeeps DEF Next, Run, Game
<1>2. CASE UNCHANGED vars
  BY <1>2, GamesKeep DEF vars, game, IInv, TypeOK
<1> QED
  BY <1>1, <1>2

LEMMA InitHolds ==
    ASSUME Init PROVE IInv
<1> DEFINE s == [NewSession EXCEPT !.status = "launched", !.connected = TRUE]
<1>1. s \in SessionType /\ s.app = "normal"
  <2> DEFINE l == [NewSession EXCEPT !.status = "launched"]
  <2>1. l \in SessionType /\ l.app = "normal"
    BY TypesAssumption DEF NewSession, SessionType, AppStates, Statuses
  <2>2. s = [l EXCEPT !.connected = TRUE]
    OBVIOUS
  <2> HIDE DEF l, s
  <2> QED
    BY <2>1, <2>2 DEF SessionType
<1>2. ses = [a \in Agents |-> s]
  BY DEF Init
<1> HIDE DEF s
<1>3. settings \in SettingsType /\ N \in 1..MaxAgents /\ MaxAgents \in Nat /\ MaxGames \in Nat
  BY CoordinatorAssumption DEF Init, SettingsType, N
<1>4. TypeOK
  <2>1. /\ settings \in Settings /\ turn \in 0..N /\ updated \in BOOLEAN
        /\ games \in 0..MaxGames /\ left \in BOOLEAN /\ phase \in Phases
    <3>1. 0 \in 0..N /\ 0 \in 0..MaxGames
      BY <1>3
    <3> QED
      BY <3>1 DEF Init, Phases
  <2>2. /\ ses \in [Agents -> SessionType] /\ pc \in [Agents -> Pcs]
        /\ ends \in [Agents -> 0..2] /\ inst \in [Agents -> Games]
    BY <1>1, <1>2 DEF Init, Pcs, Games
  <2>3. /\ asked \in [Agents -> Types \cup {"none"}]
        /\ ready \in [Agents -> ResponseType \cup {NoResponse}]
    BY DEF Init
  <2> QED
    BY <2>1, <2>2, <2>3 DEF TypeOK
<1>5. \A a \in Agents : ses[a].app = "normal" /\ pc[a] = "done"
  BY <1>1, <1>2 DEF Init
<1>6. NoWaitAfterFailure /\ AllWorking /\ FailureShows
  BY <1>5 DEF NoWaitAfterFailure, WaitingPcs, AllWorking, Working, FailureShows, Normal
<1>7. AtRest /\ NoneFailed
  BY <1>5 DEF Init, AtRest, NoneFailed
<1> QED
  BY <1>4, <1>6, <1>7 DEF IInv

-----------------------------------------------------------------------------
(* No response is abandoned.                                               *)

None(s) == ~HasResponsePending(s)

\* Nothing has gone wrong, except that a request may have been refused.
Clean == \A a \in Agents : Mild(ses[a])
NoErrors == \A a \in Agents : ses[a].errors = {}

\* Where an agent is about to send requests nothing is pending.  Between calls of
\* Update it may be the response of leave_game, which PollLeaveGame waits for.
Asking == {"look", "events", "actions", "feature", "call", "endcheck"}
Between == {"done", "poll", "recheck"}
AskedAt(f, p, s) ==
    /\ p \in Asking => None(s)
    /\ f = "start" => p \in {"done", "events", "query"}
    /\ f \in {"idle", "polling", "parallel", "sequence"} /\ p \in Between =>
           s.pending \in {"none", "leave_game"}
    /\ f \in {"joined", "firstlook", "started", "start"} /\ p = "done" => None(s)
Consumed == \A a \in Agents : AskedAt(phase, pc[a], ses[a])

\* CreateGame and JoinGame: whose turn has not come, and whose is over.
JoinedInTurn ==
    /\ phase = "create" => \A a \in Agents : a # 1 => None(ses[a])
    /\ phase = "joining" => \A a \in Agents : a >= turn => None(ses[a])
    /\ phase = "waitjoin" => \A a \in Agents : a < turn => None(ses[a])

\* Nobody asks to leave twice: LeaveGame asks in a game and once, CallOnStep and
\* StepAgentsRealtime after the end.
LeftAt(s, l) ==
    s.pending = "leave_game" => Multiplayer /\ (l \/ ~IsInGame(s))
LeftOnce == \A a \in Agents : LeftAt(ses[a], left)

\* When Update (or no StartGame yet) returned false, every game is over.
OverAt(s) == None(s) /\ ~IsInGame(s)
AllOver == phase \in {"idle", "polling"} /\ ~updated => \A a \in Agents : OverAt(ses[a])

Orderly == NoErrors /\ Consumed /\ JoinedInTurn /\ LeftOnce /\ AllOver
Refusals == Clean => Orderly

\* What a request makes of a session that has no response pending.
Accepted(s, t, o) ==
    /\ o.session.errors = s.errors /\ o.session.status = s.status
    /\ o.session.app = s.app
    /\ o.session.pending = IF o.sent THEN t ELSE "none"

LEMMA AcceptedFacts ==
    ASSUME IInv, NEW a \in Agents, NEW s \in SessionType, None(s), NEW t \in Types
    PROVE  Accepted(s, t, Outcome(a, s, t))
<1> DEFINE reachable == inst[a] # "dead"
           o == SendRequest(s, t, FALSE, reachable)
           open == [s EXCEPT !.connected = TRUE]
           asks == [open EXCEPT !.pending = t]
<1>1. Outcome(a, s, t) = o
  BY Zenon DEF Outcome
<1> HIDE DEF reachable
<1>2. open \in SessionType /\ open.errors = s.errors /\ open.status = s.status
      /\ open.app = s.app
  BY DEF SessionType
<1>3. \/ o = [sent |-> FALSE, session |-> s]
      \/ o = [sent |-> TRUE, session |-> asks]
  BY DEF SendRequest, Refuses, None
<1> HIDE DEF open, o
<1>4. /\ asks.errors = s.errors /\ asks.status = s.status /\ asks.app = s.app
      /\ asks.pending = t
  BY <1>2 DEF SessionType
<1> HIDE DEF asks
<1> QED
  BY <1>1, <1>3, <1>4 DEF Accepted, None, HasResponsePending

LEMMA RequestAccepted ==
    ASSUME IInv, NEW a \in Agents, None(ses[a]), NEW t \in Types, Request(a, ses[a], t)
    PROVE  /\ ses'[a].errors = ses[a].errors
           /\ ses'[a].status = ses[a].status /\ ses'[a].app = ses[a].app
           /\ ses'[a].pending = IF Outcome(a, ses[a], t).sent THEN t ELSE "none"
<1> DEFINE o == Outcome(a, ses[a], t)
<1>1. ses[a] \in SessionType /\ a \in DOMAIN ses
  BY DEF IInv, TypeOK
<1>2. Accepted(ses[a], t, o)
  BY <1>1, AcceptedFacts
<1>3. ses' = [ses EXCEPT ![a] = o.session]
  BY Zenon DEF Request, o
<1> HIDE DEF o
<1>4. ses'[a] = o.session
  BY <1>1, <1>3
<1> QED
  BY <1>2, <1>4 DEF Accepted, o

LEMMA ErrorIsNotMild ==
    ASSUME NEW s \in SessionType, NEW e \in ClientErrors \ {"ResponseNotConsumed"}
    PROVE  ~Mild(Error(s, e))
BY ErrorFacts DEF Mild

LEMMA MildAnswer ==
    ASSUME NEW s \in SessionType, NEW r \in ResponseType, Mild(Answered(s, r))
    PROVE  None(Answered(s, r)) /\ Answered(s, r).errors = s.errors
<1> DEFINE known == [s EXCEPT !.status = r.status]
           taken == [known EXCEPT !.pending = "none"]
<1>1. known \in SessionType /\ known.errors = s.errors
  BY DEF SessionType, ResponseType
<1>2. Receive(s, r) = taken \/ Receive(s, r) = Error(taken, "ResponseMismatch")
  BY DEF Receive, NoLongerPending
<1> HIDE DEF known
<1>3. taken \in SessionType /\ taken.errors = s.errors /\ taken.pending = "none"
  BY <1>1 DEF SessionType
<1>4. {"ResponseMismatch", "SC2ProtocolError"} \subseteq
          ClientErrors \ {"ResponseNotConsumed"}
  BY DEF ClientErrors
<1> HIDE DEF taken
<1>5. Answered(s, r) = Receive(s, r)
  BY <1>4, ReceiveFacts, ErrorIsNotMild DEF Answered
<1>6. Receive(s, r) = taken
  BY <1>2, <1>3, <1>4, <1>5, ErrorIsNotMild
<1> QED
  BY <1>3, <1>5, <1>6 DEF None, HasResponsePending

LEMMA WaitIsOver ==
    ASSUME IInv, NEW a \in Agents, Wait(a), Mild(ses'[a])
    PROVE  None(ses'[a]) /\ ses'[a].errors = ses[a].errors
<1>1. ses[a] \in SessionType /\ a \in DOMAIN ses
  BY DEF IInv, TypeOK
<1>2. CASE ResponseComes(a)
  <2> DEFINE w == BeginWait(ses[a])
  <2>1. w \in SessionType /\ w.errors = ses[a].errors
    BY <1>1, BeginWaitFacts
  <2>2. ses'[a] = Answered(w, ready[a]) /\ ready[a] \in ResponseType
    BY <1>1, <1>2 DEF ResponseComes, PollResponse, IInv, TypeOK
  <2> HIDE DEF w
  <2> QED
    BY <2>1, <2>2, MildAnswer
<1>3. CASE NoResponseComes(a, LateEffects(a))
  <2> DEFINE P == Pongs(a, LateEffects(a))
  <2>1. P \in SUBSET ResponseType
    BY PongsAreResponses
  <2> HIDE DEF P
  <2>2. PICK o \in WaitOutcomes(ses[a], {}, P) : ses' = [ses EXCEPT ![a] = o.session]
    BY <1>3 DEF NoResponseComes, P
  <2>3. ses'[a] = o.session
    BY <1>1, <2>2
  <2> QED
    BY <1>1, <2>1, <2>2, <2>3, WaitFails DEF Mild
<1> QED
  BY <1>2, <1>3 DEF Wait

\* What a step of agent a makes of its session.
Good(a) ==
    /\ ses'[a].errors = {}
    /\ AskedAt(phase', pc'[a], ses'[a])
    /\ LeftAt(ses'[a], left)

LEMMA AgentOrderly ==
    ASSUME IInv, Refusals, NEW a \in Agents, Frame(a),
           Orderly /\ Mild(ses'[a]) => Good(a)
    PROVE  Refusals'
<1> SUFFICES ASSUME Clean' PROVE Orderly'
  BY DEF Refusals
<1> USE DEF Frame
<1>1. Agents' = Agents /\ N' = N /\ (Multiplayer' <=> Multiplayer)
  BY SameAgents DEF Multiplayer
<1>2. \A b \in Agents : b # a => ses'[b] = ses[b] /\ pc'[b] = pc[b]
  BY DEF Called
<1>3. Clean /\ Mild(ses'[a])
  BY <1>1, <1>2 DEF Clean, Mild, Called
<1>4. Orderly /\ Good(a)
  BY <1>3 DEF Refusals
<1>5. NoErrors'
  BY <1>1, <1>2, <1>4 DEF Orderly, NoErrors, Good
<1>6. Consumed'
  <2>1. ASSUME NEW b \in Agents PROVE AskedAt(phase', pc'[b], ses'[b])
    BY <1>2, <1>4 DEF Orderly, Consumed, Good, AskedAt
  <2> QED
    BY <1>1, <2>1 DEF Consumed, AskedAt, None, HasResponsePending
<1>7. LeftOnce'
  <2>1. ASSUME NEW b \in Agents PROVE LeftAt(ses'[b], left)
    BY <1>2, <1>4 DEF Orderly, LeftOnce, Good
  <2> QED
    BY <1>1, <2>1 DEF LeftOnce, LeftAt, IsInGame
<1>8. JoinedInTurn' /\ AllOver'
  BY DEF JoinedInTurn, AllOver
<1> QED
  BY <1>5, <1>6, <1>7, <1>8 DEF Orderly

\* What is known of agent a before its step.
LEMMA OrderlyFacts ==
    ASSUME IInv, Orderly, NEW a \in Agents
    PROVE  /\ ses[a] \in SessionType /\ ses[a].errors = {}
           /\ AskedAt(phase, pc[a], ses[a]) /\ LeftAt(ses[a], left)
           /\ \A p : Goto(a, p) => pc'[a] = p
BY DEF IInv, TypeOK, Orderly, NoErrors, Consumed, LeftOnce, Goto

LEMMA NothingPendingIsGood ==
    ASSUME NEW a \in Agents, Frame(a), ses'[a].errors = {}, None(ses'[a]),
           phase # "start"
    PROVE  Good(a)
BY DEF Good, AskedAt, LeftAt, None, HasResponsePending, Frame

\* PollLeaveGame lets no agent pass that waits for the response of leave_game, and
\* so reports no error of its own.
LEMMA PassesFree ==
    ASSUME IInv, Orderly, NEW a \in Agents, Frame(a), pc[a] \in {"poll", "recheck"}
    PROVE  /\ phase # "start" /\ PollLeaveErrors(ses[a]) = ses[a]
           /\ \A p : Passes(a, p) => None(ses[a])
<1>1. AskedAt(phase, pc[a], ses[a]) /\ LeftAt(ses[a], left)
  BY OrderlyFacts
<1>2. phase # "start" /\ ses[a].pending \in {"none", "leave_game"}
  BY <1>1 DEF AskedAt, Between, Frame
<1> QED
  BY <1>1, <1>2 DEF PollLeaveErrors, Passes, LeavesGame, LeftAt, None, HasResponsePending

LEMMA SkipAgentGood ==
    ASSUME IInv, Orderly, NEW a \in Agents, Frame(a), Mild(ses'[a]), SkipAgent(a)
    PROVE  Good(a)
<1>1. pc[a] \in {"poll", "recheck"} /\ pc'[a] = "done"
  BY OrderlyFacts DEF SkipAgent
<1>2. /\ ses[a].errors = {} /\ AskedAt(phase, pc[a], ses[a]) /\ LeftAt(ses[a], left)
      /\ phase # "start" /\ PollLeaveErrors(ses[a]) = ses[a] /\ a \in DOMAIN ses
  BY <1>1, OrderlyFacts, PassesFree DEF IInv, TypeOK
<1>3. CASE ResponseComes(a)
  BY <1>2, <1>3, WaitIsOver, NothingPendingIsGood DEF Wait
<1>4. CASE ses'[a] = ses[a]
  BY <1>1, <1>2, <1>4 DEF Good, AskedAt, Between, Asking, Frame
<1> QED
  BY <1>2, <1>3, <1>4 DEF SkipAgent, PollLeaveGame

LEMMA StepGood ==
    ASSUME IInv, Orderly, NEW a \in Agents, Frame(a), Step(a)
    PROVE  Good(a)
<1>1. /\ pc[a] = "poll" /\ pc'[a] = "step" /\ Passes(a, "poll") /\ "step" \in Types
      /\ Request(a, PollLeaveErrors(ses[a]), "step")
  BY OrderlyFacts, CoordinatorAssumption DEF Step
<1>2. /\ phase # "start" /\ None(ses[a]) /\ ses[a].errors = {}
      /\ Request(a, ses[a], "step")
  BY <1>1, PassesFree, OrderlyFacts
<1>3. ses'[a].errors = {} /\ ses'[a].pending \in {"step", "none"}
  BY <1>1, <1>2, RequestAccepted
<1> QED
  BY <1>1, <1>2, <1>3 DEF Good, AskedAt, LeftAt, Asking, Between, Frame

LEMMA WaitGood ==
    ASSUME IInv, Orderly, NEW a \in Agents, Frame(a), Mild(ses'[a]),
           WaitStep(a) \/ WaitObservation(a) \/ WaitQuery(a) \/ WaitActions(a)
    PROVE  Good(a)
<1>1. None(ses'[a]) /\ ses'[a].errors = {}
  BY WaitIsOver, OrderlyFacts DEF WaitStep, WaitObservation, WaitQuery, WaitActions
<1>2. CASE phase = "start"
  <2>1. pc[a] = "query"
    BY <1>2, OrderlyFacts
    DEF AskedAt, WaitStep, WaitObservation, WaitQuery, WaitActions
  <2>2. WaitQuery(a)
    BY <2>1 DEF WaitStep, WaitObservation, WaitActions
  <2>3. pc'[a] = "done"
    BY <1>2, <2>2, OrderlyFacts DEF WaitQuery, AfterEvents
  <2> QED
    BY <1>1, <2>3 DEF Good, AskedAt, LeftAt, None, HasResponsePending
<1> QED
  BY <1>1, <1>2, NothingPendingIsGood

LEMMA ObserveGood ==
    ASSUME IInv, Orderly, phase # "crashed", NEW a \in Agents, Frame(a), Observe(a)
    PROVE  Good(a)
<1>1. /\ phase # "start" /\ None(ses[a]) /\ ses[a].errors = {}
      /\ GetObservation(a, ses[a], AfterObservation)
  <2>1. CASE pc[a] = "look" /\ GetObservation(a, ses[a], AfterObservation)
    BY <2>1, OrderlyFacts DEF AskedAt, Asking
  <2>2. CASE /\ pc[a] = "poll" /\ Passes(a, "poll")
             /\ GetObservation(a, PollLeaveErrors(ses[a]), AfterObservation)
    BY <2>2, OrderlyFacts, PassesFree
  <2> QED
    BY <2>1, <2>2 DEF Observe
<1>2. pc'[a] = IF Observes(a, ses[a]) THEN "observe" ELSE AfterObservation
  BY <1>1, OrderlyFacts DEF GetObservation
<1>3. CASE ses[a].app = "normal"
  <2>1. "observation" \in Types /\ Request(a, ses[a], "observation")
    BY <1>1, <1>3, CoordinatorAssumption DEF GetObservation
  <2>2. /\ ses'[a].errors = {}
        /\ ses'[a].pending = IF Outcome(a, ses[a], "observation").sent THEN "observation"
                             ELSE "none"
    BY <1>1, <2>1, RequestAccepted
  <2>3. CASE Outcome(a, ses[a], "observation").sent
    <3>1. pc'[a] = "observe" /\ ses'[a].pending = "observation"
      BY <1>2, <1>3, <2>2, <2>3 DEF Observes
    <3> QED
      BY <1>1, <2>2, <3>1 DEF Good, AskedAt, LeftAt, Asking, Between, Frame
  <2>4. CASE ~Outcome(a, ses[a], "observation").sent
    BY <1>1, <2>2, <2>4, NothingPendingIsGood DEF None, HasResponsePending
  <2> QED
    BY <2>3, <2>4
<1>4. CASE ses[a].app # "normal"
  <2>1. ses'[a] = ses[a]
    BY <1>1, <1>4 DEF GetObservation, IInv, TypeOK
  <2> QED
    BY <1>1, <2>1, NothingPendingIsGood
<1> QED
  BY <1>3, <1>4

LEMMA RecheckGood ==
    ASSUME IInv, Orderly, NEW a \in Agents, Frame(a), Recheck(a)
    PROVE  Good(a)
<1>1. /\ phase # "start" /\ None(ses[a]) /\ PollLeaveErrors(ses[a]) = ses[a]
      /\ ses[a].errors = {}
  BY PassesFree, OrderlyFacts DEF Recheck
<1>2. ses'[a] = ses[a]
  BY <1>1 DEF Recheck, IInv, TypeOK
<1> QED
  BY <1>1, <1>2, NothingPendingIsGood

\* CallOnStep and StepAgentsRealtime: the leave request follows the end of the game.
LEMMA EndGameGood ==
    ASSUME IInv, Orderly, NEW a \in Agents, Frame(a), EndGame(a)
    PROVE  Good(a)
<1>1. /\ pc[a] \in {"call", "endcheck"} /\ pc'[a] = "done" /\ ~IsInGame(ses[a])
      /\ RequestLeaveGame(a) /\ "leave_game" \in Types
  BY OrderlyFacts, CoordinatorAssumption DEF EndGame, AfterEnd
<1>2. phase # "start" /\ None(ses[a]) /\ ses[a].errors = {}
  BY <1>1, OrderlyFacts DEF AskedAt, Asking
<1>3. CASE Multiplayer
  <2>1. /\ ses'[a].errors = {} /\ ses'[a].pending \in {"none", "leave_game"}
        /\ ses'[a].status = ses[a].status /\ ses'[a].app = ses[a].app
    BY <1>1, <1>2, <1>3, RequestAccepted DEF RequestLeaveGame
  <2> QED
    BY <1>1, <1>2, <1>3, <2>1 DEF Good, AskedAt, LeftAt, Asking, Between, IsInGame, Frame
<1>4. CASE ~Multiplayer
  BY <1>1, <1>2, <1>4, NothingPendingIsGood DEF RequestLeaveGame
<1> QED
  BY <1>3, <1>4

LEMMA StayInGameGood ==
    ASSUME IInv, Orderly, NEW a \in Agents, Frame(a), StayInGame(a)
    PROVE  Good(a)
<1>1. phase # "start" /\ None(ses[a]) /\ ses[a].errors = {}
  BY OrderlyFacts DEF StayInGame, AskedAt, Asking
<1> QED
  BY <1>1, NothingPendingIsGood DEF StayInGame

LEMMA IssueEventsGood ==
    ASSUME IInv, Orderly, NEW a \in Agents, Frame(a), IssueEvents(a)
    PROVE  Good(a)
<1>1. pc[a] = "events" /\ None(ses[a]) /\ ses[a].errors = {} /\ "query" \in Types
  BY OrderlyFacts, CoordinatorAssumption DEF IssueEvents, AskedAt, Asking
<1>2. ASSUME None(ses'[a]), ses'[a].errors = {}, pc'[a] = AfterEvents PROVE Good(a)
  BY <1>2 DEF Good, AskedAt, LeftAt, AfterEvents, None, HasResponsePending, Frame
<1>3. CASE Goto(a, AfterEvents) /\ UNCHANGED <<ses, game>>
  BY <1>1, <1>2, <1>3, OrderlyFacts
<1>4. CASE /\ Request(a, ses[a], "query")
           /\ Goto(a, IF Outcome(a, ses[a], "query").sent THEN "query" ELSE AfterEvents)
  <2>1. /\ ses'[a].errors = {}
        /\ ses'[a].pending = IF Outcome(a, ses[a], "query").sent THEN "query" ELSE "none"
        /\ pc'[a] = IF Outcome(a, ses[a], "query").sent THEN "query" ELSE AfterEvents
    BY <1>1, <1>4, RequestAccepted, OrderlyFacts
  <2>2. CASE Outcome(a, ses[a], "query").sent
    BY <2>1, <2>2 DEF Good, AskedAt, LeftAt, Asking, Between
  <2>3. CASE ~Outcome(a, ses[a], "query").sent
    BY <1>2, <2>1, <2>3 DEF None, HasResponsePending
  <2> QED
    BY <2>2, <2>3
<1> QED
  BY <1>3, <1>4 DEF IssueEvents

LEMMA SendActionsGood ==
    ASSUME IInv, Orderly, NEW a \in Agents, Frame(a), SendActions(a)
    PROVE  Good(a)
<1> DEFINE p == IF ~Outcome(a, ses[a], "action").sent THEN AfterActions(pc[a])
                ELSE IF pc[a] = "actions" THEN "acting" ELSE "featuring"
<1>1. /\ phase # "start" /\ None(ses[a]) /\ ses[a].errors = {} /\ "action" \in Types
  BY OrderlyFacts, CoordinatorAssumption DEF SendActions, AskedAt, Asking
<1>2. CASE UNCHANGED <<ses, game>>
  BY <1>1, <1>2, NothingPendingIsGood
<1>3. CASE Request(a, ses[a], "action") /\ Goto(a, p)
  <2>1. /\ ses'[a].errors = {}
        /\ ses'[a].pending = IF Outcome(a, ses[a], "action").sent THEN "action" ELSE "none"
        /\ pc'[a] = p
    BY <1>1, <1>3, RequestAccepted, OrderlyFacts
  <2>2. CASE Outcome(a, ses[a], "action").sent
    BY <1>1, <2>1, <2>2 DEF Good, AskedAt, LeftAt, Asking, Between, Frame
  <2>3. CASE ~Outcome(a, ses[a], "action").sent
    BY <1>1, <2>1, <2>3, NothingPendingIsGood DEF None, HasResponsePending
  <2> QED
    BY <2>2, <2>3
<1> QED
  BY <1>2, <1>3 DEF SendActions

LEMMA EveryAgentOrderly ==
    ASSUME IInv, Refusals, NEW a \in Agents, Agent(a)
    PROVE  Refusals'
<1>1. Frame(a) /\ phase # "crashed"
  BY EveryAgentKeeps DEF Agent
<1>2. ASSUME Orderly, Mild(ses'[a]) PROVE Good(a)
  BY <1>1, <1>2, SkipAgentGood, StepGood, WaitGood, ObserveGood, RecheckGood, EndGameGood,
     StayInGameGood, IssueEventsGood, SendActionsGood DEF Agent
<1> QED
  BY <1>1, <1>2, AgentOrderly

\* The same for a step of the program's thread.
LEMMA ThreadOrderly ==
    ASSUME IInv, settings' = settings,
           \A a \in Agents : /\ ses'[a].errors = {}
                             /\ AskedAt(phase', pc'[a], ses'[a])
                             /\ LeftAt(ses'[a], left'),
           phase' = "create" => \A a \in Agents : a # 1 => None(ses'[a]),
           phase' = "joining" => \A a \in Agents : a >= turn' => None(ses'[a]),
           phase' = "waitjoin" => \A a \in Agents : a < turn' => None(ses'[a]),
           phase' \in {"idle", "polling"} /\ ~updated' => \A a \in Agents : OverAt(ses'[a])
    PROVE  Orderly'
<1>1. Agents' = Agents /\ (Multiplayer' <=> Multiplayer)
  BY SameAgents DEF Multiplayer
<1>2. NoErrors'
  BY <1>1 DEF NoErrors
<1>3. Consumed'
  BY <1>1 DEF Consumed, AskedAt, None, HasResponsePending
<1>4. JoinedInTurn'
  BY <1>1 DEF JoinedInTurn, None, HasResponsePending
<1>5. LeftOnce'
  BY <1>1 DEF LeftOnce, LeftAt, IsInGame
<1>6. AllOver'
  BY <1>1 DEF AllOver, OverAt, None, HasResponsePending, IsInGame
<1> QED
  BY <1>2, <1>3, <1>4, <1>5, <1>6 DEF Orderly

LEMMA CalledClean ==
    ASSUME IInv, Refusals, settings' = settings, NEW c \in Agents, Called(c), Clean'
    PROVE  Orderly /\ Mild(ses'[c])
<1>1. Agents' = Agents
  BY SameAgents
<1>2. Clean /\ Mild(ses'[c])
  BY <1>1 DEF Clean, Mild, Called
<1> QED
  BY <1>2 DEF Refusals

LEMMA UncalledClean ==
    ASSUME IInv, Refusals, settings' = settings, ses' = ses, Clean'
    PROVE  Orderly
BY SameAgents DEF Refusals, Clean, Mild

LEMMA CreateGameOrderly ==
    ASSUME IInv, Refusals, CreateGame, Clean' PROVE Orderly'
<1>1. /\ phase = "idle" /\ ~updated /\ Request(1, ses[1], "create_game")
      /\ phase' \in {"create", "exited"}
      /\ UNCHANGED <<settings, turn, updated, left, pc, ends>>
  BY DEF CreateGame
<1>2. 1 \in Agents /\ "create_game" \in Types /\ ses[1] \in SessionType /\ Shown(ses[1])
  BY <1>1, NumberOfAgents, AgentFacts, CoordinatorAssumption
<1>3. Called(1) /\ Orderly
  BY <1>1, <1>2, RequestFacts, CalledClean
<1>4. \A a \in Agents : ses[a].errors = {} /\ None(ses[a]) /\ pc'[a] = "done"
  BY <1>1, <1>3, AllRest DEF Orderly, NoErrors, AllOver, OverAt
<1>5. ses'[1].errors = {} /\ ses'[1].pending \in {"create_game", "none"}
  BY <1>1, <1>2, <1>4, RequestAccepted
<1>6. \A a \in Agents : a # 1 => ses'[a] = ses[a]
  BY <1>3 DEF Called
<1>7. ASSUME NEW a \in Agents
      PROVE  /\ ses'[a].errors = {} /\ AskedAt(phase', pc'[a], ses'[a])
             /\ LeftAt(ses'[a], left')
  <2>1. ses'[a].errors = {} /\ ses'[a].pending \in {"create_game", "none"}
    BY <1>4, <1>5, <1>6 DEF None, HasResponsePending
  <2> QED
    BY <1>1, <1>4, <2>1 DEF AskedAt, Asking, LeftAt
<1> QED
  BY <1>1, <1>4, <1>6, <1>7, ThreadOrderly

LEMMA WaitCreateGameOrderly ==
    ASSUME IInv, Refusals, WaitCreateGame, Clean' PROVE Orderly'
<1>1. /\ phase = "create" /\ Wait(1) /\ phase' \in {"joining", "exited"}
      /\ UNCHANGED <<settings, updated, games, left, pc, ends>>
  BY DEF WaitCreateGame
<1>2. 1 \in Agents
  BY NumberOfAgents
<1>3. Called(1) /\ Orderly /\ Mild(ses'[1])
  BY <1>1, <1>2, WaitFacts, CalledClean
<1>4. None(ses'[1]) /\ ses'[1].errors = ses[1].errors
  BY <1>1, <1>2, <1>3, WaitIsOver
<1>5. \A a \in Agents : None(ses'[a]) /\ ses'[a].errors = {} /\ pc'[a] = "done"
  BY <1>1, <1>2, <1>3, <1>4, AllRest DEF Called, Orderly, NoErrors, JoinedInTurn
<1>6. ASSUME NEW a \in Agents PROVE AskedAt(phase', pc'[a], ses'[a]) /\ LeftAt(ses'[a], left')
  BY <1>1, <1>5 DEF AskedAt, Asking, LeftAt, None, HasResponsePending
<1> QED
  BY <1>1, <1>5, <1>6, ThreadOrderly

LEMMA RequestJoinGameOrderly ==
    ASSUME IInv, Refusals, RequestJoinGame, Clean' PROVE Orderly'
<1>1. /\ phase = "joining" /\ Request(turn, ses[turn], "join_game")
      /\ AfterJoinRequest(Outcome(turn, ses[turn], "join_game").sent)
      /\ UNCHANGED <<settings, updated, games, left, pc, ends>>
  BY DEF RequestJoinGame
<1>2. /\ turn \in Agents /\ "join_game" \in Types
      /\ ses[turn] \in SessionType /\ Shown(ses[turn])
  BY <1>1, AgentFacts, CoordinatorAssumption DEF IInv, AtRest
<1>3. Called(turn) /\ Orderly
  BY <1>1, <1>2, RequestFacts, CalledClean
<1>4. /\ \A a \in Agents : ses[a].errors = {} /\ pc'[a] = "done" /\ LeftAt(ses[a], left)
      /\ \A a \in Agents : a >= turn => None(ses[a])
      /\ None(ses[turn])
  <2>1. turn >= turn
    BY <1>2 DEF Agents
  <2> QED
    BY <1>1, <1>2, <1>3, <2>1, AllRest DEF Orderly, NoErrors, JoinedInTurn, LeftOnce
<1>5. ses'[turn].errors = {} /\ ses'[turn].pending \in {"join_game", "none"}
  BY <1>1, <1>2, <1>4, RequestAccepted
<1>6. \A a \in Agents : a # turn => ses'[a] = ses[a]
  BY <1>3 DEF Called
<1>7. /\ phase' \in {"joining", "waitjoin", "exited"}
      /\ phase' = "joining" => turn' = turn + 1
      /\ phase' = "waitjoin" => turn' = 1
  BY <1>1 DEF AfterJoinRequest, NextTurn
<1>8. ASSUME NEW a \in Agents
      PROVE  /\ ses'[a].errors = {} /\ AskedAt(phase', pc'[a], ses'[a])
             /\ LeftAt(ses'[a], left')
  <2>1. CASE a = turn
    BY <1>1, <1>4, <1>5, <1>7, <2>1 DEF AskedAt, Asking, LeftAt
  <2>2. CASE a # turn
    BY <1>1, <1>4, <1>6, <1>7, <2>2 DEF AskedAt, Asking
  <2> QED
    BY <2>1, <2>2
<1>9. phase' = "joining" => \A a \in Agents : a >= turn' => None(ses'[a])
  <2>1. \A a \in Agents : a >= turn + 1 => a >= turn /\ a # turn
    BY <1>2 DEF Agents
  <2> QED
    BY <1>4, <1>6, <1>7, <2>1
<1>10. phase' = "waitjoin" => \A a \in Agents : a < turn' => None(ses'[a])
  BY <1>7 DEF Agents
<1> QED
  BY <1>1, <1>7, <1>8, <1>9, <1>10, ThreadOrderly

LEMMA WaitJoinGameOrderly ==
    ASSUME IInv, Refusals, WaitJoinGame, Clean' PROVE Orderly'
<1>1. /\ phase = "waitjoin" /\ Wait(turn) /\ NextTurn("waitjoin", "joined")
      /\ UNCHANGED <<settings, updated, games, left, pc, ends>>
  BY DEF WaitJoinGame
<1>2. turn \in Agents
  BY <1>1 DEF IInv, AtRest
<1>3. Called(turn) /\ Orderly /\ Mild(ses'[turn])
  BY <1>1, <1>2, WaitFacts, CalledClean
<1>4. None(ses'[turn]) /\ ses'[turn].errors = {}
  BY <1>1, <1>2, <1>3, WaitIsOver DEF Orderly, NoErrors
<1>5. /\ \A a \in Agents : a # turn => ses'[a] = ses[a]
      /\ \A a \in Agents : ses[a].errors = {} /\ pc'[a] = "done" /\ LeftAt(ses[a], left)
      /\ \A a \in Agents : a < turn => None(ses[a])
  BY <1>1, <1>3, AllRest DEF Called, Orderly, NoErrors, JoinedInTurn, LeftOnce
<1>6. \/ turn < N /\ phase' = "waitjoin" /\ turn' = turn + 1
      \/ turn = N /\ phase' = "joined"
  BY <1>1, <1>2, NumberOfAgents DEF NextTurn, HasNext, Agents
<1>7. \A a \in Agents : (phase' = "joined" \/ a < turn') => None(ses'[a])
  <2>1. \A a \in Agents : (phase' = "joined" \/ a < turn') => a < turn \/ a = turn
    BY <1>2, <1>6, NumberOfAgents DEF Agents
  <2> QED
    BY <1>4, <1>5, <2>1
<1>8. ASSUME NEW a \in Agents
      PROVE  /\ ses'[a].errors = {} /\ AskedAt(phase', pc'[a], ses'[a])
             /\ LeftAt(ses'[a], left')
  <2>1. LeftAt(ses'[a], left') /\ ses'[a].errors = {}
    BY <1>1, <1>4, <1>5 DEF LeftAt, None, HasResponsePending
  <2> QED
    BY <1>5, <1>6, <1>7, <2>1 DEF AskedAt, Asking
<1> QED
  BY <1>1, <1>6, <1>7, <1>8, ThreadOrderly

\* What Orderly says of every agent.
LEMMA AllOrderly ==
    ASSUME Orderly
    PROVE  \A a \in Agents : /\ ses[a].errors = {}
                             /\ AskedAt(phase, pc[a], ses[a])
                             /\ LeftAt(ses[a], left)
BY DEF Orderly, NoErrors, Consumed, LeftOnce

\* Steps that call nobody.
LEMMA CheckJoinErrorsOrderly ==
    ASSUME IInv, Refusals, CheckJoinErrors, Clean' PROVE Orderly'
<1>1. /\ phase = "joined" /\ phase' = IF HasErrors THEN "idle" ELSE "firstlook"
      /\ UNCHANGED <<settings, turn, left, pc, ses>>
  BY DEF CheckJoinErrors, clients
<1>2. Orderly /\ \A a \in Agents : pc[a] = "done"
  BY <1>1, UncalledClean, AllRest
<1>3. phase' = "firstlook"
  BY <1>1, <1>2 DEF HasErrors, Orderly, NoErrors
<1>4. \A a \in Agents : /\ ses'[a].errors = {} /\ AskedAt(phase', pc'[a], ses'[a])
                        /\ LeftAt(ses'[a], left')
  BY <1>1, <1>2, <1>3, AllOrderly DEF AskedAt, Asking
<1> QED
  BY <1>1, <1>3, <1>4, ThreadOrderly

LEMMA FirstLookOrderly ==
    ASSUME IInv, Refusals, FirstLook, Clean' PROVE Orderly'
<1> DEFINE sent == Outcome(turn, ses[turn], "observation").sent
<1>1. /\ phase = "firstlook" /\ pc[turn] = "done"
      /\ GetObservation(turn, ses[turn], "done")
      /\ phase' \in {"firstlook", "started"}
      /\ UNCHANGED <<settings, updated, left>>
  BY DEF FirstLook, NextTurn
<1>2. /\ turn \in Agents /\ ses[turn] \in SessionType /\ Shown(ses[turn])
      /\ ses[turn].app = "normal" /\ "observation" \in Types
  BY <1>1, AgentFacts, CoordinatorAssumption DEF IInv, AtRest, NoneFailed, Normal
<1>3. /\ Request(turn, ses[turn], "observation")
      /\ pc' = [pc EXCEPT ![turn] = IF sent THEN "observe" ELSE "done"]
  BY <1>1, <1>2 DEF GetObservation, Goto, Observes
<1>4. Called(turn) /\ Orderly
  BY <1>1, <1>2, <1>3, RequestFacts, CalledClean
<1>5. /\ \A a \in Agents : a # turn => ses'[a] = ses[a] /\ pc'[a] = pc[a] /\ pc[a] = "done"
      /\ pc'[turn] = IF sent THEN "observe" ELSE "done"
  BY <1>1, <1>2, <1>3, <1>4 DEF Called, IInv, TypeOK, AtRest
<1>6. None(ses[turn]) /\ ses[turn].errors = {}
  BY <1>1, <1>2, <1>4, AllOrderly DEF AskedAt
<1>7. /\ ses'[turn].errors = {}
      /\ ses'[turn].pending = IF sent THEN "observation" ELSE "none"
  BY <1>2, <1>3, <1>6, RequestAccepted
<1> HIDE DEF sent
<1>8. ASSUME NEW a \in Agents
      PROVE  /\ ses'[a].errors = {} /\ AskedAt(phase', pc'[a], ses'[a])
             /\ LeftAt(ses'[a], left')
  <2>1. CASE a = turn
    BY <1>1, <1>5, <1>7, <2>1 DEF AskedAt, Asking, LeftAt, None, HasResponsePending
  <2>2. CASE a # turn
    BY <1>1, <1>4, <1>5, <2>2, AllOrderly DEF AskedAt, Asking
  <2> QED
    BY <2>1, <2>2
<1> QED
  BY <1>1, <1>8, ThreadOrderly

LEMMA WaitFirstLookOrderly ==
    ASSUME IInv, Refusals, WaitFirstLook, Clean' PROVE Orderly'
<1>1. /\ phase = "firstlook" /\ Wait(turn) /\ pc' = [pc EXCEPT ![turn] = "done"]
      /\ phase' \in {"firstlook", "started", "crashed"}
      /\ UNCHANGED <<settings, updated, left>>
  BY DEF WaitFirstLook, NextTurn, Goto
<1>2. turn \in Agents
  BY <1>1 DEF IInv, AtRest
<1>3. Called(turn) /\ Orderly /\ Mild(ses'[turn])
  BY <1>1, <1>2, WaitFacts, CalledClean
<1>4. None(ses'[turn]) /\ ses'[turn].errors = {}
  BY <1>1, <1>2, <1>3, WaitIsOver, AllOrderly
<1>5. \A a \in Agents : /\ pc'[a] = "done"
                        /\ a # turn => ses'[a] = ses[a] /\ pc[a] = "done"
  BY <1>1, <1>2, <1>3 DEF Called, IInv, TypeOK, AtRest
<1>6. ASSUME NEW a \in Agents
      PROVE  ses'[a].errors = {} /\ None(ses'[a])
  BY <1>1, <1>3, <1>4, <1>5, AllOrderly DEF AskedAt
<1>7. ASSUME NEW a \in Agents
      PROVE  AskedAt(phase', pc'[a], ses'[a]) /\ LeftAt(ses'[a], left')
  BY <1>1, <1>5, <1>6 DEF AskedAt, Asking, LeftAt, None, HasResponsePending
<1> QED
  BY <1>1, <1>6, <1>7, ThreadOrderly

LEMMA OnGameStartOrderly ==
    ASSUME IInv, Refusals, OnGameStart, Clean' PROVE Orderly'
<1>1. /\ phase = "started" /\ phase' = "start" /\ pc' = [pc EXCEPT ![1] = "events"]
      /\ UNCHANGED <<settings, updated, ses>>
  BY DEF OnGameStart, Goto
<1>2. Orderly /\ \A a \in Agents : pc[a] = "done"
  BY <1>1, UncalledClean, AllRest
<1>3. \A a \in Agents : /\ ses'[a].errors = {} /\ None(ses'[a])
                        /\ pc'[a] \in {"done", "events"}
  BY <1>1, <1>2, AllOrderly DEF AskedAt, IInv, TypeOK
<1>4. ASSUME NEW a \in Agents
      PROVE  AskedAt(phase', pc'[a], ses'[a]) /\ LeftAt(ses'[a], left')
  BY <1>1, <1>3 DEF AskedAt, LeftAt, None, HasResponsePending
<1> QED
  BY <1>1, <1>3, <1>4, ThreadOrderly

LEMMA NextStartOrderly ==
    ASSUME IInv, Refusals, NextStart, Clean' PROVE Orderly'
<1>1. /\ phase = "start" /\ pc[turn] = "done"
      /\ \/ phase' = "start" /\ pc' = [pc EXCEPT ![turn + 1] = "events"]
         \/ phase' = "idle" /\ updated' = TRUE /\ pc' = pc
      /\ UNCHANGED <<settings, left, ses>>
  BY DEF NextStart, Goto
<1>2. Orderly /\ \A a \in Agents : pc[a] = "done"
  BY <1>1, UncalledClean DEF IInv, AtRest
<1>3. \A a \in Agents : /\ ses'[a].errors = {} /\ None(ses'[a])
                        /\ pc'[a] \in {"done", "events"}
                        /\ phase' = "idle" => pc'[a] = "done"
  BY <1>1, <1>2, AllOrderly DEF AskedAt, IInv, TypeOK
<1>4. ASSUME NEW a \in Agents
      PROVE  AskedAt(phase', pc'[a], ses'[a]) /\ LeftAt(ses'[a], left')
  BY <1>1, <1>3 DEF AskedAt, Asking, LeftAt, None, HasResponsePending
<1> QED
  BY <1>1, <1>3, <1>4, ThreadOrderly

LEMMA StartGameOrderly ==
    ASSUME IInv, Refusals, StartGame, Clean' PROVE Orderly'
BY CreateGameOrderly, WaitCreateGameOrderly, RequestJoinGameOrderly, WaitJoinGameOrderly,
   CheckJoinErrorsOrderly, FirstLookOrderly, WaitFirstLookOrderly, OnGameStartOrderly,
   NextStartOrderly DEF StartGame

\* The loops of Update: responses of leave_game may be pending before and after.
LEMMA LoopsOrderly ==
    ASSUME IInv, Refusals, Update \/ BeginSecondLoop \/ NextAgent, Clean'
    PROVE  Orderly'
<1>1. /\ phase \in {"idle", "parallel", "sequence"} /\ phase' \in {"parallel", "sequence"}
      /\ \/ \E b \in 1..(N + 1), p \in Between : pc' = [pc EXCEPT ![b] = p]
         \/ pc' = [a \in Agents |-> "poll"]
      /\ UNCHANGED <<settings, left, ses>>
  <2>1. N + 1 \in Nat /\ 1 \in 1..(N + 1) /\ \A b \in 0..N : b + 1 \in 1..(N + 1)
    BY NumberOfAgents
  <2>2. turn \in 0..N
    BY DEF IInv, TypeOK
  <2>3. CASE Update
    BY <2>1, <2>3 DEF Update, Goto, Between
  <2>4. CASE BeginSecondLoop
    BY <2>1, <2>4 DEF BeginSecondLoop, Goto, Between
  <2>5. CASE NextAgent
    BY <2>1, <2>2, <2>5 DEF NextAgent, Goto, Between
  <2> QED
    BY <2>3, <2>4, <2>5
<1>2. Orderly /\ \A a \in Agents : pc[a] = "done"
  <2>1. Orderly
    BY <1>1, UncalledClean
  <2>2. CASE Update
    BY <2>1, <2>2, AllRest DEF Update
  <2>3. CASE BeginSecondLoop
    BY <2>1, <2>3 DEF BeginSecondLoop
  <2>4. CASE NextAgent
    BY <2>1, <2>4 DEF NextAgent, IInv, AtRest
  <2> QED
    BY <2>1, <2>2, <2>3, <2>4
<1>3. \A a \in Agents : pc'[a] \in Between
  BY <1>1, <1>2 DEF Between, IInv, TypeOK
<1>4. \A a \in Agents : /\ ses'[a].errors = {} /\ LeftAt(ses'[a], left')
                        /\ ses'[a].pending \in {"none", "leave_game"}
  BY <1>1, <1>2, AllOrderly DEF AskedAt, Between
<1>5. ASSUME NEW a \in Agents PROVE AskedAt(phase', pc'[a], ses'[a])
  BY <1>1, <1>3, <1>4 DEF AskedAt, Asking, Between
<1> QED
  BY <1>1, <1>4, <1>5, ThreadOrderly

LEMMA ReturnFromUpdateOrderly ==
    ASSUME IInv, Refusals, ReturnFromUpdate, Clean' PROVE Orderly'
<1>1. /\ \/ phase = "sequence" /\ turn = N /\ pc[N] = "done"
         \/ phase = "parallel" /\ \A a \in Agents : pc[a] = "done"
      /\ phase' = "idle" /\ updated' = GoesOn
      /\ UNCHANGED <<settings, left, pc, ses>>
  BY DEF ReturnFromUpdate, clients
<1>2. Orderly /\ \A a \in Agents : pc[a] = "done"
  BY <1>1, UncalledClean DEF IInv, AtRest
<1>3. ~updated' => \A a \in Agents : OverAt(ses'[a])
  BY <1>1, <1>2
  DEF GoesOn, HasErrors, AllGamesEnded, Orderly, NoErrors, OverAt, None
<1>4. \A a \in Agents : /\ ses'[a].errors = {} /\ LeftAt(ses'[a], left')
                        /\ AskedAt(phase', pc'[a], ses'[a])
  BY <1>1, <1>2, AllOrderly DEF AskedAt, Asking
<1> QED
  BY <1>1, <1>3, <1>4, ThreadOrderly

\* LeaveGame asks agents that are in a game, so none of them was asked before.
LEMMA LeaveGameOrderly ==
    ASSUME IInv, Refusals, LeaveGame, Clean' PROVE Orderly'
<1>1. /\ phase = "idle" /\ Multiplayer /\ ~left /\ left' = TRUE
      /\ \A a \in Agents : IsInGame(ses[a])
      /\ ses' = [a \in Agents |-> Outcome(a, ses[a], "leave_game").session]
      /\ UNCHANGED <<settings, phase, turn, updated, pc>>
  BY DEF LeaveGame
<1>2. \A a \in Agents : pc[a] = "done" /\ ses[a] \in SessionType /\ Shown(ses[a])
  BY <1>1, AllRest, AgentFacts
<1>3. "leave_game" \in Types /\ Agents' = Agents /\ 1 \in Agents
  BY <1>1, CoordinatorAssumption, SameAgents, NumberOfAgents
<1>4. Orderly
  <2>1. ASSUME NEW a \in Agents PROVE Mild(ses[a])
    <3>1. ses[a].errors \subseteq Outcome(a, ses[a], "leave_game").session.errors
      BY <1>2, <1>3, OutcomeFacts
    <3>2. Mild(Outcome(a, ses[a], "leave_game").session)
      BY <1>1, <1>3 DEF Clean, Mild
    <3> QED
      BY <3>1, <3>2 DEF Mild
  <2> QED
    BY <2>1 DEF Refusals, Clean
<1>5. updated
  BY <1>1, <1>3, <1>4 DEF Orderly, AllOver, OverAt
<1>6. ASSUME NEW a \in Agents
      PROVE  /\ ses'[a].errors = {} /\ AskedAt(phase', pc'[a], ses'[a])
             /\ LeftAt(ses'[a], left')
  <2> DEFINE o == Outcome(a, ses[a], "leave_game")
  <2>1. None(ses[a]) /\ ses[a].errors = {}
    BY <1>1, <1>2, <1>4, AllOrderly DEF AskedAt, Between, LeftAt, None, HasResponsePending
  <2>2. Accepted(ses[a], "leave_game", o)
    BY <1>2, <1>3, <2>1, AcceptedFacts
  <2>3. ses'[a] = o.session
    BY <1>1
  <2> HIDE DEF o
  <2>4. ses'[a].errors = {} /\ ses'[a].pending \in {"none", "leave_game"}
    BY <2>1, <2>2, <2>3 DEF Accepted
  <2> QED
    BY <1>1, <1>2, <2>4 DEF AskedAt, Asking, Between, LeftAt
<1> QED
  BY <1>1, <1>5, <1>6, ThreadOrderly

LEMMA WaitForAllResponsesOrderly ==
    ASSUME IInv, Refusals, WaitForAllResponses \/ EndOfWait, Clean' PROVE Orderly'
<1>1. /\ phase \in {"idle", "polling"} /\ phase' \in {"idle", "polling", "exited"}
      /\ UNCHANGED <<settings, turn, updated, left, pc, ses>>
  BY DEF WaitForAllResponses, EndOfWait, clients
<1>2. Orderly /\ \A a \in Agents : pc[a] = "done"
  BY <1>1, UncalledClean, AllRest
<1>3. \A a \in Agents : /\ ses'[a].errors = {} /\ LeftAt(ses'[a], left')
                        /\ AskedAt(phase', pc'[a], ses'[a])
  BY <1>1, <1>2, AllOrderly DEF AskedAt, Asking
<1>4. ~updated' => \A a \in Agents : OverAt(ses'[a])
  BY <1>1, <1>2 DEF Orderly, AllOver
<1> QED
  BY <1>1, <1>3, <1>4, ThreadOrderly

LEMMA ConsumeFirstOrderly ==
    ASSUME IInv, Refusals, ConsumeFirst, Clean' PROVE Orderly'
<1> DEFINE c == FirstAwaited
<1>1. /\ phase = "polling" /\ Awaited # {} /\ ResponseComes(c)
      /\ UNCHANGED <<settings, phase, turn, updated, left, pc>>
  BY DEF ConsumeFirst, coordinator
<1> HIDE DEF c
<1>2. /\ Orderly
      /\ \A a \in Agents : /\ a # c => ses'[a] = ses[a]
                           /\ a = c => None(ses'[a]) /\ ses'[a].errors = {}
  <2>1. CASE c \in Agents
    <3>1. Called(c) /\ Orderly /\ Mild(ses'[c])
      BY <1>1, <2>1, ResponseFacts, CalledClean
    <3>2. None(ses'[c]) /\ ses'[c].errors = {}
      BY <1>1, <2>1, <3>1, WaitIsOver, AllOrderly DEF Wait
    <3> QED
      BY <3>1, <3>2 DEF Called
  <2>2. CASE c \notin Agents
    <3>1. ses' = ses
      BY <1>1, <2>2 DEF ResponseComes, IInv, TypeOK
    <3> QED
      BY <1>1, <2>2, <3>1, UncalledClean
  <2> QED
    BY <2>1, <2>2
<1>3. \A a \in Agents : pc'[a] = "done"
  BY <1>1, AllRest
<1>4. updated'
  BY <1>1, <1>2 DEF Awaited, Orderly, AllOver, OverAt, None
<1>5. ASSUME NEW a \in Agents
      PROVE  /\ ses'[a].errors = {} /\ AskedAt(phase', pc'[a], ses'[a])
             /\ LeftAt(ses'[a], left')
  <2>1. CASE a = c
    BY <1>1, <1>2, <1>3, <2>1 DEF AskedAt, Asking, LeftAt, None, HasResponsePending
  <2>2. CASE a # c
    BY <1>1, <1>2, <1>3, <2>2, AllOrderly, AllRest DEF AskedAt, Asking
  <2> QED
    BY <2>1, <2>2
<1> QED
  BY <1>1, <1>4, <1>5, ThreadOrderly

\* The games and the end of the program change no session.
LEMMA GamesOrderly ==
    ASSUME IInv, Refusals, UNCHANGED <<settings, turn, updated, left, pc, ses>>,
           phase' \in {phase, "exited"}, Clean'
    PROVE  Orderly'
<1>1. Orderly
  BY UncalledClean
<1>2. \A a \in Agents : /\ ses'[a].errors = {} /\ LeftAt(ses'[a], left')
                        /\ AskedAt(phase', pc'[a], ses'[a])
  BY <1>1, AllOrderly DEF AskedAt
<1> QED
  BY <1>1, <1>2, ThreadOrderly DEF Orderly, JoinedInTurn, AllOver

LEMMA RefusalsKept ==
    ASSUME IInv, Refusals, [Next]_vars PROVE Refusals'
<1> SUFFICES ASSUME Clean' PROVE Orderly'
  BY DEF Refusals
<1>1. CASE \E a \in Agents : Agent(a)
  BY <1>1, EveryAgentOrderly DEF Refusals
<1>2. CASE Run
  BY <1>2, StartGameOrderly, LoopsOrderly, ReturnFromUpdateOrderly, ConsumeFirstOrderly,
     WaitForAllResponsesOrderly DEF Run
<1>3. CASE LeaveGame \/ WaitForAllResponses
  BY <1>3, LeaveGameOrderly, WaitForAllResponsesOrderly
<1>4. CASE Exit
  BY <1>4, GamesOrderly DEF Exit, clients
<1>5. CASE UNCHANGED <<coordinator, clients>>
  BY <1>5, GamesOrderly DEF coordinator, clients
<1>6. Game \/ GameOver => UNCHANGED <<coordinator, clients>>
  BY DEF Game, GameOver, AnswerOne, AnswerAll
<1> QED
  BY <1>1, <1>2, <1>3, <1>4, <1>5, <1>6 DEF Next, vars

LEMMA InitIsOrderly ==
    ASSUME Init PROVE Refusals
<1> DEFINE s == [NewSession EXCEPT !.status = "launched", !.connected = TRUE]
<1>1. s.errors = {} /\ s.pending = "none" /\ s.status = "launched"
  BY DEF NewSession
<1>2. ses = [a \in Agents |-> s]
  BY DEF Init
<1> HIDE DEF s
<1>3. \A a \in Agents : ses[a].errors = {} /\ None(ses[a]) /\ ~IsInGame(ses[a])
  BY <1>1, <1>2 DEF None, HasResponsePending, IsInGame
<1>4. phase = "idle" /\ \A a \in Agents : pc[a] = "done"
  BY DEF Init
<1> QED
  BY <1>3, <1>4
  DEF Refusals, Orderly, NoErrors, Consumed, AskedAt, Asking, JoinedInTurn, LeftOnce, LeftAt,
      AllOver, OverAt, None, HasResponsePending

-----------------------------------------------------------------------------
(* The theorems.                                                           *)

\* The inductive invariant holds, for any number of agents and games, whatever the
\* settings: StartGame, Update, LeaveGame and WaitForAllResponses.
THEOREM IInvAlways == Spec => []IInv
<1>1. Init => IInv
  BY InitHolds
<1>2. IInv /\ [Next]_vars => IInv'
  BY NextKeeps
<1> QED
  BY <1>1, <1>2, PTL DEF Spec

\* Every variable keeps its type: an agent's processing stays at a place it can go
\* on from.
THEOREM TypeOKAlways == Spec => []TypeOK
<1>1. IInv => TypeOK
  BY DEF IInv
<1> QED
  BY <1>1, IInvAlways, PTL

\* The assertion at the start of ControlImp::WaitForResponse never fails: however
\* many agents fail in one Update, no call that follows waits for a game that was
\* given up.
THEOREM NoWaitAfterFailureAlways == Spec => []NoWaitAfterFailure
<1>1. IInv => NoWaitAfterFailure
  BY DEF IInv
<1> QED
  BY <1>1, IInvAlways, PTL

\* No response is abandoned by the library's own calls: for any number of agents, a
\* request is never refused before something else has gone wrong.  Who asks has
\* consumed what it asked for before, in whatever order threads, LeaveGame,
\* WaitForAllResponses and the next StartGame follow each other.
THEOREM NothingRefusedAlways == Spec => []NothingRefused
<1>1. Init => IInv /\ Refusals
  BY InitHolds, InitIsOrderly
<1>2. IInv /\ Refusals /\ [Next]_vars => IInv' /\ Refusals'
  BY NextKeeps, RefusalsKept
<1>3. IInv /\ Refusals => NothingRefused
  BY DEF Refusals, Clean, Mild, Orderly, NoErrors, NothingRefused
<1> QED
  BY <1>1, <1>2, <1>3, PTL DEF Spec

-----------------------------------------------------------------------------
(* What a step makes of an agent's client and its game.                     *)

\* At most a request was refused.
Unharmed(s, t) ==
    s.errors \subseteq t.errors /\ t.errors \subseteq s.errors \cup {"ResponseNotConsumed"}

\* Nothing, but perhaps a request was refused; a request went out; its response came,
\* or it did not; the game answered; it ended by itself.
Still(a) ==
    /\ Unharmed(ses[a], ses'[a])
    /\ ses'[a].app = ses[a].app /\ ses'[a].status = ses[a].status
    /\ ses'[a].pending = ses[a].pending
    /\ asked'[a] = asked[a] /\ inst'[a] = inst[a] /\ ready'[a] = ready[a]
Sent(a, t) ==
    /\ Unharmed(ses[a], ses'[a])
    /\ ses[a].pending = "none" /\ ses'[a].pending = t
    /\ ses'[a].app = ses[a].app /\ ses'[a].status = ses[a].status
    /\ asked'[a] = t /\ inst'[a] = inst[a] /\ ready'[a] = ready[a]
Heard(a) ==
    /\ ready[a] # NoResponse /\ ready'[a] = NoResponse
    /\ ses'[a].app = ses[a].app /\ ses'[a].status = ready[a].status
    /\ ses'[a].pending = "none" /\ ses[a].errors \subseteq ses'[a].errors
    /\ ready[a].type = ses[a].pending =>
           /\ ses'[a].errors \subseteq ses[a].errors \cup {"SC2ProtocolError"}
           /\ ~ready[a].error => ses'[a].errors = ses[a].errors
    /\ asked'[a] = asked[a] /\ inst'[a] = inst[a]
Unheard(a) ==
    /\ Failures /\ ready[a] = NoResponse /\ ready'[a] = NoResponse
    /\ ses[a].errors \cup {"ConnectionClosed"} \subseteq ses'[a].errors
    /\ asked'[a] = "none"
    /\ ses'[a].app = "normal" => inst'[a] = ses'[a].status /\ inst'[a] \notin Lost
    /\ ses'[a].app # "normal" => inst'[a] \in Lost
Replied(a) ==
    /\ asked[a] # "none" /\ inst[a] \notin Lost /\ inst'[a] \notin Lost
    /\ inst'[a] = "in_game" => inst[a] = "in_game" \/ asked[a] = "join_game"
    /\ asked'[a] = "none" /\ ready'[a] # NoResponse
    /\ ready'[a].type = asked[a] /\ ready'[a].status = inst'[a]
    /\ ses'[a] = ses[a]
RanOut(a) ==
    /\ Realtime /\ inst[a] = "in_game" /\ inst'[a] = "ended"
    /\ ses'[a] = ses[a] /\ asked'[a] = asked[a] /\ ready'[a] = ready[a]

Others(a) == \A b \in Agents : b # a => Still(b) /\ ses'[b] = ses[b]
Moves(a) ==
    \/ Still(a) \/ Heard(a) \/ Unheard(a) \/ Replied(a) \/ RanOut(a)
    \/ \E t \in Types : Sent(a, t)

LEMMA ClientTypes ==
    ASSUME IInv, NEW a \in Agents
    PROVE  /\ ses[a] \in SessionType /\ inst[a] \in Games
           /\ asked[a] \in Types \cup {"none"}
           /\ ready[a] \in ResponseType \cup {NoResponse}
BY DEF IInv, TypeOK

LEMMA NoneCalled ==
    ASSUME IInv, UNCHANGED <<ses, game>>
    PROVE  \A a \in Agents : Others(a) /\ Still(a) /\ ses'[a] = ses[a]
BY DEF Others, Still, Unharmed, game

\* s is what PollLeaveGame left of the session.
Alike(s, t) ==
    s.app = t.app /\ s.status = t.status /\ s.pending = t.pending /\ Unharmed(t, s)

Tried(s, t, reachable, o) ==
    /\ o.sent \in BOOLEAN
    /\ o.sent => /\ s.pending = "none" /\ o.session.pending = t
                 /\ o.session.app = s.app /\ o.session.status = s.status
                 /\ o.session.errors = s.errors
    /\ ~o.sent => Alike(o.session, s)
    /\ None(s) /\ reachable => o.sent

LEMMA SendsOrNot ==
    ASSUME NEW s \in SessionType, NEW t \in Types, NEW reachable \in BOOLEAN
    PROVE  Tried(s, t, reachable, SendRequest(s, t, FALSE, reachable))
<1> DEFINE o == SendRequest(s, t, FALSE, reachable)
<1> SUFFICES Tried(s, t, reachable, o)
  OBVIOUS
<1> USE DEF Tried
<1> DEFINE open == [s EXCEPT !.connected = TRUE]
           asks == [open EXCEPT !.pending = t]
<1>1. open \in SessionType /\ Alike(open, s) /\ open.errors = s.errors
  BY DEF SessionType, Alike, Unharmed
<1>2. "ResponseNotConsumed" \in ClientErrors
  BY DEF ClientErrors
<1>3. CASE ~CanSend(s, reachable)
  <2>1. o = [sent |-> FALSE, session |-> s]
    BY <1>3 DEF SendRequest
  <2> HIDE DEF o
  <2> QED
    BY <1>3, <2>1 DEF CanSend, Alike, Unharmed
<1>4. CASE CanSend(s, reachable) /\ Refuses(s, FALSE)
  <2>1. o = [sent |-> FALSE, session |-> Error(open, "ResponseNotConsumed")]
    BY <1>4 DEF SendRequest
  <2> HIDE DEF open, o
  <2>2. o.sent = FALSE /\ Alike(o.session, s)
    BY <1>1, <1>2, <2>1, ErrorFacts DEF Alike, Unharmed
  <2>3. ~None(s)
    BY <1>4 DEF Refuses, None
  <2> QED
    BY <2>2, <2>3
<1>5. CASE CanSend(s, reachable) /\ ~Refuses(s, FALSE)
  <2>1. o = [sent |-> TRUE, session |-> asks]
    BY <1>5 DEF SendRequest
  <2>2. /\ asks.pending = t /\ asks.app = open.app /\ asks.status = open.status
        /\ asks.errors = open.errors /\ s.pending = "none"
    BY <1>1, <1>5 DEF SessionType, Refuses, HasResponsePending
  <2> HIDE DEF open, o, asks
  <2> QED
    BY <1>1, <2>1, <2>2 DEF Alike
<1> QED
  BY <1>3, <1>4, <1>5

LEMMA RequestEffect ==
    ASSUME IInv, NEW a \in Agents, NEW t \in Types, NEW s \in SessionType,
           Alike(s, ses[a]), Request(a, s, t)
    PROVE  /\ Others(a) /\ Outcome(a, s, t).sent \in BOOLEAN
           /\ Outcome(a, s, t).sent => Sent(a, t)
           /\ ~Outcome(a, s, t).sent => Still(a)
           /\ None(s) /\ inst[a] # "dead" => Outcome(a, s, t).sent
<1> DEFINE o == Outcome(a, s, t)
<1>1. /\ o.sent \in BOOLEAN
      /\ o.sent => /\ s.pending = "none" /\ o.session.pending = t
                   /\ o.session.app = s.app /\ o.session.status = s.status
                   /\ o.session.errors = s.errors
      /\ ~o.sent => Alike(o.session, s)
      /\ None(s) /\ inst[a] # "dead" => o.sent
  <2>1. (inst[a] # "dead") \in BOOLEAN
    OBVIOUS
  <2>2. o = SendRequest(s, t, FALSE, inst[a] # "dead")
    BY Zenon DEF Outcome
  <2> HIDE DEF o
  <2>3. Tried(s, t, inst[a] # "dead", o)
    BY <2>1, <2>2, SendsOrNot, Zenon
  <2> QED
    BY <2>3 DEF Tried
<1>2. /\ ses' = [ses EXCEPT ![a] = o.session]
      /\ asked' = IF o.sent THEN [asked EXCEPT ![a] = t] ELSE asked
      /\ UNCHANGED <<inst, ready>>
  BY Zenon DEF Request, o
<1> HIDE DEF o
<1>3. ses'[a] = o.session /\ Others(a) /\ (o.sent => asked'[a] = t)
  BY <1>2 DEF IInv, TypeOK, Others, Still, Unharmed
<1>4. o.sent => Sent(a, t)
  BY <1>1, <1>2, <1>3 DEF Alike, Sent, Unharmed
<1>5. ~o.sent => Still(a)
  BY <1>1, <1>2, <1>3 DEF Alike, Still, Unharmed
<1> QED
  BY <1>1, <1>3, <1>4, <1>5 DEF o

LEMMA AnswerTaken ==
    ASSUME NEW s \in SessionType, NEW r \in ResponseType
    PROVE  LET t == Answered(s, r) IN
           /\ t.app = s.app /\ t.status = r.status /\ t.pending = "none"
           /\ s.errors \subseteq t.errors
           /\ r.type = s.pending => /\ t.errors \subseteq s.errors \cup {"SC2ProtocolError"}
                                    /\ ~r.error => t.errors = s.errors
<1> DEFINE known == [s EXCEPT !.status = r.status]
           taken == [known EXCEPT !.pending = "none"]
           got == Receive(s, r)
<1>1. /\ known \in SessionType /\ known.app = s.app /\ known.status = r.status
      /\ known.errors = s.errors
  BY DEF SessionType, ResponseType
<1>2. /\ got = taken \/ got = Error(taken, "ResponseMismatch")
      /\ r.type = s.pending => got = taken
  BY DEF Receive, NoLongerPending
<1>3. /\ Answered(s, r) = got \/ Answered(s, r) = Error(got, "SC2ProtocolError")
      /\ ~r.error => Answered(s, r) = got
  BY DEF Answered
<1> HIDE DEF known, got
<1>4. /\ taken \in SessionType /\ taken.app = s.app /\ taken.status = r.status
      /\ taken.errors = s.errors /\ taken.pending = "none"
  BY <1>1 DEF SessionType
<1>5. {"ResponseMismatch", "SC2ProtocolError"} \subseteq ClientErrors
  BY DEF ClientErrors
<1> HIDE DEF taken
<1>6. got \in SessionType /\ got.app = s.app /\ got.status = r.status /\ got.pending = "none"
  BY <1>2, <1>4, <1>5, ErrorFacts
<1> QED
  BY <1>2, <1>3, <1>4, <1>5, <1>6, ErrorFacts

LEMMA ResponseEffect ==
    ASSUME IInv, NEW a \in Agents, ResponseComes(a)
    PROVE  Others(a) /\ Heard(a)
<1> DEFINE w == BeginWait(ses[a])
           t == Answered(w, ready[a])
<1>1. ses[a] \in SessionType /\ ready[a] \in ResponseType /\ ready[a] # NoResponse
  BY ClientTypes DEF ResponseComes, PollResponse
<1>2. /\ w \in SessionType /\ w.app = ses[a].app /\ w.pending = ses[a].pending
      /\ w.errors = ses[a].errors
  BY <1>1, BeginWaitFacts
<1>3. ses' = [ses EXCEPT ![a] = t]
  BY DEF ResponseComes, IInv, TypeOK
<1>4. UNCHANGED <<inst, asked>> /\ ready' = [ready EXCEPT ![a] = NoResponse]
  BY DEF ResponseComes
<1> HIDE DEF w
<1>5. /\ t.app = w.app /\ t.status = ready[a].status /\ t.pending = "none"
      /\ w.errors \subseteq t.errors
      /\ ready[a].type = w.pending => /\ t.errors \subseteq w.errors \cup {"SC2ProtocolError"}
                                      /\ ~ready[a].error => t.errors = w.errors
  BY <1>1, <1>2, AnswerTaken
<1> HIDE DEF t
<1>6. Others(a) /\ ses'[a] = t /\ ready'[a] = NoResponse
  BY <1>3, <1>4 DEF Others, Still, Unharmed, IInv, TypeOK
<1> QED
  BY <1>1, <1>2, <1>4, <1>5, <1>6 DEF Heard

LEMMA NoResponseEffect ==
    ASSUME IInv, NEW a \in Agents, Failures, NoResponseComes(a, LateEffects(a))
    PROVE  Others(a) /\ Unheard(a)
<1> DEFINE P == Pongs(a, LateEffects(a))
<1>1. PICK o \in WaitOutcomes(ses[a], {}, P) :
          /\ ses' = [ses EXCEPT ![a] = o.session]
          /\ \E after \in GameAfter(o.session) : inst' = [inst EXCEPT ![a] = after]
  BY Zenon DEF NoResponseComes
<1>2. /\ ready[a] = NoResponse /\ ready' = ready
      /\ asked' = [asked EXCEPT ![a] = "none"]
  BY DEF NoResponseComes, PollResponse
<1>3. PICK after \in GameAfter(o.session) : inst' = [inst EXCEPT ![a] = after]
  BY <1>1
<1>4. /\ ses[a] \in SessionType /\ P \in SUBSET ResponseType
      /\ \A r \in P : r.status \notin Lost
  <2>1. \A r \in P : r.status \notin Lost
    BY DEF Pongs
  <2> QED
    BY <2>1, ClientTypes, PongsAreResponses
<1> HIDE DEF P
<1>5. /\ o.session \in SessionType
      /\ ses[a].errors \cup {"ConnectionClosed"} \subseteq o.session.errors
      /\ Failed(ses[a], o.session) \/ Survived(ses[a], o.session, P)
  BY <1>4, WaitFails
<1>6. /\ Others(a) /\ ses'[a] = o.session /\ inst'[a] = after /\ asked'[a] = "none"
  BY <1>1, <1>2, <1>3 DEF Others, Still, Unharmed, IInv, TypeOK
<1>7. CASE o.session.app = "normal"
  <2>1. after = o.session.status
    BY <1>7 DEF GameAfter
  <2>2. o.session.status \notin Lost
    BY <1>4, <1>5, <1>7 DEF Failed, Survived
  <2> QED
    BY <1>2, <1>5, <1>6, <1>7, <2>1, <2>2 DEF Unheard
<1>8. CASE o.session.app # "normal"
  <2>1. after \in Lost
    BY <1>8 DEF GameAfter, Lost
  <2> QED
    BY <1>2, <1>5, <1>6, <1>8, <2>1 DEF Unheard
<1> QED
  BY <1>7, <1>8

LEMMA WaitEffect ==
    ASSUME IInv, NEW a \in Agents, Wait(a)
    PROVE  Others(a) /\ (Heard(a) \/ Unheard(a))
BY ResponseEffect, NoResponseEffect DEF Wait

\* What is called for one client.
LEMMA SessionAfter ==
    ASSUME IInv, NEW a \in Agents, NEW s, Alike(s, ses[a]),
           ses' = [ses EXCEPT ![a] = s], UNCHANGED game
    PROVE  Others(a) /\ Still(a)
BY DEF Others, Still, Alike, Unharmed, game, IInv, TypeOK

LEMMA PollAlike ==
    ASSUME IInv, NEW a \in Agents
    PROVE  /\ PollLeaveErrors(ses[a]) \in SessionType /\ Alike(PollLeaveErrors(ses[a]), ses[a])
           /\ Alike(ses[a], ses[a])
<1>1. ses[a] \in SessionType /\ "ResponseNotConsumed" \in ClientErrors
  BY ClientTypes DEF ClientErrors
<1>2. \/ PollLeaveErrors(ses[a]) = ses[a]
      \/ PollLeaveErrors(ses[a]) = Error(ses[a], "ResponseNotConsumed")
  BY DEF PollLeaveErrors
<1> QED
  BY <1>1, <1>2, ErrorFacts DEF Alike, Unharmed

OneCalled(a) == Others(a) /\ Moves(a)

LEMMA CalledOnce ==
    ASSUME IInv, NEW a \in Agents,
           \/ UNCHANGED <<ses, game>> \/ Wait(a) \/ ResponseComes(a) \/ PollLeaveGame(a)
           \/ \E t \in Types : Request(a, ses[a], t) \/ Request(a, PollLeaveErrors(ses[a]), t)
    PROVE  OneCalled(a)
<1> USE DEF OneCalled, Moves
<1>1. CASE UNCHANGED <<ses, game>>
  BY <1>1, NoneCalled
<1>2. CASE Wait(a) \/ ResponseComes(a)
  BY <1>2, WaitEffect, ResponseEffect
<1>3. CASE PollLeaveGame(a)
  <2>1. \/ ResponseComes(a)
        \/ ses' = [ses EXCEPT ![a] = PollLeaveErrors(ses[a])] /\ UNCHANGED game
    BY <1>3 DEF PollLeaveGame
  <2> QED
    BY <2>1, ResponseEffect, PollAlike, SessionAfter
<1>4. ASSUME NEW t \in Types, Request(a, ses[a], t) \/ Request(a, PollLeaveErrors(ses[a]), t)
      PROVE  OneCalled(a)
  <2>1. CASE Request(a, ses[a], t)
    BY <2>1, ClientTypes, PollAlike, RequestEffect
  <2>2. CASE Request(a, PollLeaveErrors(ses[a]), t)
    BY <2>2, PollAlike, RequestEffect
  <2> QED
    BY <1>4, <2>1, <2>2
<1> QED
  BY <1>1, <1>2, <1>3, <1>4

LEMMA LookMoves ==
    ASSUME IInv, NEW a \in Agents, NEW p, NEW s \in {ses[a], PollLeaveErrors(ses[a])},
           GetObservation(a, s, p)
    PROVE  OneCalled(a)
<1>1. "observation" \in Types
  BY CoordinatorAssumption
<1>2. CASE Request(a, s, "observation")
  BY <1>1, <1>2, CalledOnce
<1>3. CASE ses' = [ses EXCEPT ![a] = s] /\ UNCHANGED game
  BY <1>3, PollAlike, SessionAfter DEF OneCalled, Moves
<1> QED
  BY <1>2, <1>3 DEF GetObservation

LEMMA AgentMoves ==
    ASSUME IInv, NEW a \in Agents, Agent(a)
    PROVE  OneCalled(a)
<1>1. {"step", "leave_game", "query", "action"} \subseteq Types
  BY CoordinatorAssumption
<1>2. CASE SkipAgent(a)
  BY <1>2, CalledOnce DEF SkipAgent
<1>3. CASE Step(a)
  BY <1>1, <1>3, CalledOnce DEF Step
<1>4. CASE WaitStep(a) \/ WaitObservation(a) \/ WaitQuery(a) \/ WaitActions(a)
  BY <1>4, CalledOnce DEF WaitStep, WaitObservation, WaitQuery, WaitActions
<1>5. CASE Observe(a)
  BY <1>5, LookMoves DEF Observe
<1>6. CASE Recheck(a)
  BY <1>6, PollAlike, SessionAfter DEF Recheck, OneCalled, Moves
<1>7. CASE EndGame(a)
  BY <1>1, <1>7, CalledOnce DEF EndGame, RequestLeaveGame
<1>8. CASE StayInGame(a)
  BY <1>8, CalledOnce DEF StayInGame
<1>9. CASE IssueEvents(a)
  BY <1>1, <1>9, CalledOnce DEF IssueEvents
<1>10. CASE SendActions(a)
  BY <1>1, <1>10, CalledOnce DEF SendActions
<1> QED
  BY <1>2, <1>3, <1>4, <1>5, <1>6, <1>7, <1>8, <1>9, <1>10 DEF Agent

LEMMA AllMove ==
    ASSUME NEW a \in Agents, OneCalled(a)
    PROVE  \A b \in Agents : Moves(b)
BY DEF OneCalled, Others, Moves

LEMMA StartGameMoves ==
    ASSUME IInv, StartGame
    PROVE  \A a \in Agents : Moves(a)
<1>1. /\ {"create_game", "join_game", "observation"} \subseteq Types /\ 1 \in Agents
      /\ phase \in {"joining", "waitjoin", "firstlook"} => turn \in Agents
  BY CoordinatorAssumption, NumberOfAgents DEF IInv, AtRest
<1>2. CASE CreateGame
  BY <1>1, <1>2, CalledOnce, AllMove DEF CreateGame
<1>3. CASE WaitCreateGame
  BY <1>1, <1>3, CalledOnce, AllMove DEF WaitCreateGame
<1>4. CASE RequestJoinGame
  BY <1>1, <1>4, CalledOnce, AllMove DEF RequestJoinGame
<1>5. CASE WaitJoinGame
  BY <1>1, <1>5, CalledOnce, AllMove DEF WaitJoinGame
<1>6. CASE FirstLook
  BY <1>1, <1>6, LookMoves, AllMove DEF FirstLook
<1>7. CASE WaitFirstLook
  BY <1>1, <1>7, CalledOnce, AllMove DEF WaitFirstLook
<1>8. CASE CheckJoinErrors \/ OnGameStart \/ NextStart
  BY <1>8, NoneCalled DEF CheckJoinErrors, OnGameStart, NextStart, clients, Moves
<1> QED
  BY <1>2, <1>3, <1>4, <1>5, <1>6, <1>7, <1>8 DEF StartGame

\* LeaveGame asks every agent.
LEMMA LeaveGameMoves ==
    ASSUME IInv, LeaveGame, NEW a \in Agents
    PROVE  /\ Still(a) \/ Sent(a, "leave_game")
           /\ None(ses[a]) /\ inst[a] # "dead" => Sent(a, "leave_game")
<1> DEFINE o == Outcome(a, ses[a], "leave_game")
<1>1. /\ "leave_game" \in Types /\ ses[a] \in SessionType
      /\ (inst[a] # "dead") \in BOOLEAN
  BY CoordinatorAssumption, ClientTypes
<1>2. /\ ses'[a] = o.session
      /\ asked'[a] = IF o.sent THEN "leave_game" ELSE asked[a]
      /\ inst'[a] = inst[a] /\ ready'[a] = ready[a]
  BY DEF LeaveGame
<1>3. o = SendRequest(ses[a], "leave_game", FALSE, inst[a] # "dead")
  BY Zenon DEF Outcome
<1> HIDE DEF o
<1>4. Tried(ses[a], "leave_game", inst[a] # "dead", o)
  BY <1>1, <1>3, SendsOrNot, Zenon
<1>5. CASE o.sent
  BY <1>2, <1>4, <1>5 DEF Tried, Sent, Unharmed
<1>6. CASE ~o.sent
  BY <1>2, <1>4, <1>6 DEF Tried, Alike, Still
<1> QED
  BY <1>4, <1>5, <1>6 DEF Tried

LEMMA ConsumeFirstMoves ==
    ASSUME IInv, ConsumeFirst
    PROVE  \A a \in Agents : /\ a = FirstAwaited => Heard(a)
                             /\ a # FirstAwaited => Still(a) /\ ses'[a] = ses[a]
<1> DEFINE c == FirstAwaited
<1>1. ResponseComes(c)
  BY DEF ConsumeFirst
<1> HIDE DEF c
<1>2. CASE c \in Agents
  BY <1>1, <1>2, ResponseEffect DEF Others, c
<1>3. CASE c \notin Agents
  <2>1. ses' = ses /\ UNCHANGED game
    BY <1>1, <1>3 DEF ResponseComes, IInv, TypeOK, game
  <2> QED
    BY <1>3, <2>1, NoneCalled DEF c
<1> QED
  BY <1>2, <1>3

LEMMA ThreadMoves ==
    ASSUME IInv, Run \/ LeaveGame \/ WaitForAllResponses \/ Exit
    PROVE  \A a \in Agents : Moves(a)
<1>1. CASE StartGame
  BY <1>1, StartGameMoves
<1>2. CASE ConsumeFirst
  BY <1>2, ConsumeFirstMoves DEF Moves
<1>3. CASE LeaveGame
  BY <1>3, LeaveGameMoves, CoordinatorAssumption DEF Moves
<1>4. ASSUME UNCHANGED <<ses, game>> PROVE \A a \in Agents : Moves(a)
  BY <1>4, NoneCalled DEF Moves
<1>5. CASE Update \/ BeginSecondLoop \/ NextAgent \/ ReturnFromUpdate \/ EndOfWait
  BY <1>4, <1>5
  DEF Update, BeginSecondLoop, NextAgent, ReturnFromUpdate, EndOfWait, clients
<1>6. CASE WaitForAllResponses \/ Exit
  BY <1>4, <1>6 DEF WaitForAllResponses, Exit, clients
<1> QED
  BY <1>1, <1>2, <1>3, <1>5, <1>6 DEF Run

\* The game of one agent answers what it is asked, if it can.
LEMMA AnswerOneMoves ==
    ASSUME IInv, NEW a \in Agents, AnswerOne(a)
    PROVE  /\ Others(a) /\ Replied(a) /\ UNCHANGED <<coordinator, clients>>
           /\ asked[a] \in Synchronous => ~Valid(a, asked[a])
           /\ Valid(a, asked[a]) => inst'[a] = StateAfter(a, asked[a]) /\ ~ready'[a].error
           /\ ~Valid(a, asked[a]) => inst'[a] = inst[a]
<1>1. /\ asked[a] # "none" /\ inst[a] \notin Lost /\ asked[a] \in Types
      /\ asked[a] \in Synchronous => ~Valid(a, asked[a])
      /\ asked' = [asked EXCEPT ![a] = "none"]
      /\ UNCHANGED <<coordinator, clients>> /\ ses' = ses
  BY ClientTypes DEF AnswerOne, clients
<1>2. inst \in [Agents -> Games] /\ ready \in [Agents -> ResponseType \cup {NoResponse}]
      /\ asked \in [Agents -> Types \cup {"none"}]
  BY DEF IInv, TypeOK
<1>3. \E i, e : /\ inst'[a] = i /\ ready' = [ready EXCEPT ![a] = Response(asked[a], i, e)]
                /\ \A b \in Agents : b # a => inst'[b] = inst[b]
                /\ Valid(a, asked[a]) => i = StateAfter(a, asked[a]) /\ e = FALSE
                /\ ~Valid(a, asked[a]) => i = inst[a]
  <2>1. CASE Valid(a, asked[a])
    <3>1. /\ inst' = [inst EXCEPT ![a] = StateAfter(a, asked[a])]
          /\ ready' = [ready EXCEPT ![a] = Response(asked[a], inst'[a], FALSE)]
      BY <2>1, Zenon DEF AnswerOne
    <3> QED
      BY <1>2, <2>1, <3>1
  <2>2. CASE ~Valid(a, asked[a])
    <3>1. inst' = inst
      BY <2>2, Zenon DEF AnswerOne
    <3>2. \E e \in IF asked[a] = "action" THEN BOOLEAN ELSE {TRUE} :
              ready' = [ready EXCEPT ![a] = Response(asked[a], inst[a], e)]
      BY <2>2, Zenon DEF AnswerOne
    <3> QED
      BY <2>2, <3>1, <3>2
  <2> QED
    BY <2>1, <2>2
<1>4. PICK i, e : /\ inst'[a] = i /\ ready' = [ready EXCEPT ![a] = Response(asked[a], i, e)]
                  /\ \A b \in Agents : b # a => inst'[b] = inst[b]
                  /\ Valid(a, asked[a]) => i = StateAfter(a, asked[a]) /\ e = FALSE
                  /\ ~Valid(a, asked[a]) => i = inst[a]
  BY <1>3
<1>5. /\ ready'[a] = Response(asked[a], i, e) /\ asked'[a] = "none"
      /\ \A b \in Agents : b # a => ready'[b] = ready[b] /\ asked'[b] = asked[b]
  BY <1>1, <1>2, <1>4
<1>6. ready'[a].type = asked[a] /\ ready'[a].status = i /\ ready'[a].error = e
  BY <1>5 DEF Response
<1>7. ready'[a] # NoResponse
  BY <1>1, <1>6 DEF NoResponse
<1>8. i \notin Lost /\ (i = "in_game" => inst[a] = "in_game")
  BY <1>1, <1>4 DEF StateAfter, Lost
<1>9. Others(a)
  BY <1>1, <1>4, <1>5 DEF Others, Still, Unharmed
<1>10. Replied(a)
  BY <1>1, <1>4, <1>5, <1>6, <1>7, <1>8 DEF Replied
<1> QED
  BY <1>1, <1>4, <1>6, <1>9, <1>10

\* The games of all players answer at once.
LEMMA AnswerAllMoves ==
    ASSUME IInv, NEW t \in Synchronous, AnswerAll(t), NEW a \in Agents
    PROVE  /\ UNCHANGED <<coordinator, clients>>
           /\ a \in Players(t) =>
                  /\ Replied(a) /\ asked[a] = t /\ ~ready'[a].error
                  /\ inst'[a] \in IF t = "step" THEN {"in_game", "ended"} ELSE {"in_game"}
           /\ a \notin Players(t) => Still(a) /\ ses'[a] = ses[a]
<1>1. PICK after \in IF t = "step" THEN {"in_game", "ended"} ELSE {"in_game"} :
          /\ inst' = [b \in Agents |-> IF b \in Players(t) THEN after ELSE inst[b]]
          /\ ready' = [b \in Agents |-> IF b \in Players(t) THEN Response(t, after, FALSE)
                                        ELSE ready[b]]
  BY Zenon DEF AnswerAll
<1>2. /\ asked' = [b \in Agents |-> IF b \in Players(t) THEN "none" ELSE asked[b]]
      /\ UNCHANGED <<coordinator, clients>> /\ ses' = ses
      /\ \A b \in Players(t) : asked[b] = t
  BY DEF AnswerAll, clients
<1>3. CASE a \in Players(t)
  <2>1. /\ inst[a] \notin Lost /\ (t = "step" => inst[a] = "in_game") /\ t # "none"
        /\ after \notin Lost
    BY <1>1, <1>3 DEF Players, Lost, Synchronous
  <2>2. /\ ready'[a].type = t /\ ready'[a].status = after /\ ready'[a].error = FALSE
        /\ inst'[a] = after /\ asked'[a] = "none"
    BY <1>1, <1>2, <1>3 DEF Response
  <2>3. ready'[a] # NoResponse
    BY <2>1, <2>2 DEF NoResponse
  <2> QED
    BY <1>1, <1>2, <1>3, <2>1, <2>2, <2>3 DEF Replied, Synchronous
<1>4. CASE a \notin Players(t)
  BY <1>1, <1>2, <1>4 DEF Still, Unharmed
<1> QED
  BY <1>2, <1>3, <1>4

LEMMA GameOverMoves ==
    ASSUME IInv, GameOver, NEW a \in Agents
    PROVE  UNCHANGED <<coordinator, clients>> /\ (RanOut(a) \/ (Still(a) /\ ses'[a] = ses[a]))
BY DEF GameOver, RanOut, Still, Unharmed, clients

LEMMA EveryoneMoves ==
    ASSUME IInv, [Next]_vars
    PROVE  \A a \in Agents : Moves(a)
<1>1. CASE \E a \in Agents : Agent(a)
  BY <1>1, AgentMoves, AllMove
<1>2. CASE Run \/ LeaveGame \/ WaitForAllResponses \/ Exit
  BY <1>2, ThreadMoves
<1>3. CASE \E a \in Agents : AnswerOne(a)
  BY <1>3, AnswerOneMoves DEF Others, Moves
<1>4. CASE \E t \in Synchronous : AnswerAll(t)
  BY <1>4, AnswerAllMoves DEF Moves
<1>5. CASE GameOver
  BY <1>5, GameOverMoves DEF Moves
<1>6. CASE UNCHANGED vars
  BY <1>6, NoneCalled DEF vars, clients, Moves, game
<1> QED
  BY <1>1, <1>2, <1>3, <1>4, <1>5, <1>6 DEF Next, Game

\* The game owes the response that is pending, unless it is there; it is lost where
\* the application was given up.
OwedAt(a) ==
    /\ asked[a] # "none" => ses[a].pending = asked[a] /\ ready[a] = NoResponse
    /\ ready[a] # NoResponse => ready[a].type = ses[a].pending
    /\ ses[a].app = "normal" <=> inst[a] \notin Lost
Owed == \A a \in Agents : OwedAt(a)

LEMMA NothingReady ==
    ASSUME IInv, NEW a \in Agents, OwedAt(a), ses[a].pending = "none"
    PROVE  asked[a] = "none" /\ ready[a] = NoResponse
<1>1. ready[a] \in ResponseType \cup {NoResponse} /\ "none" \notin Types
  BY ClientTypes, TypesAssumption
<1>2. ready[a] # NoResponse => ready[a].type # "none"
  BY <1>1 DEF ResponseType
<1> QED
  BY <1>2 DEF OwedAt

LEMMA SettingsStay ==
    ASSUME [Next]_vars PROVE settings' = settings
BY DEF Next, vars, Run, StartGame, CreateGame, WaitCreateGame, RequestJoinGame,
   WaitJoinGame, CheckJoinErrors, FirstLook, WaitFirstLook, OnGameStart, NextStart,
   Update, BeginSecondLoop, NextAgent, ReturnFromUpdate, ConsumeFirst, EndOfWait,
   LeaveGame, WaitForAllResponses, Exit, Game, GameOver, AnswerOne, AnswerAll,
   Agent, SkipAgent, Step, WaitStep, Observe, WaitObservation, Recheck, EndGame,
   StayInGame, IssueEvents, WaitQuery, SendActions, WaitActions, coordinator

LEMMA OwedKept ==
    ASSUME IInv, Owed, [Next]_vars
    PROVE  Owed'
<1>1. ASSUME NEW a \in Agents PROVE OwedAt(a)'
  <2>1. OwedAt(a) /\ Moves(a) /\ asked[a] \in Types \cup {"none"}
    BY EveryoneMoves, ClientTypes DEF Owed
  <2>2. CASE Still(a)
    BY <2>1, <2>2 DEF Still, OwedAt
  <2>3. ASSUME NEW t \in Types, Sent(a, t) PROVE OwedAt(a)'
    <3>1. asked[a] = "none" /\ ready[a] = NoResponse
      BY <2>1, <2>3, NothingReady DEF Sent
    <3> QED
      BY <2>1, <2>3, <3>1 DEF Sent, OwedAt
  <2>4. CASE Heard(a)
    BY <2>1, <2>4 DEF Heard, OwedAt
  <2>5. CASE Unheard(a)
    BY <2>5 DEF Unheard, OwedAt
  <2>6. CASE Replied(a)
    BY <2>1, <2>6 DEF Replied, OwedAt
  <2>7. CASE RanOut(a)
    BY <2>1, <2>7 DEF RanOut, OwedAt, Lost
  <2> QED
    BY <2>1, <2>2, <2>3, <2>4, <2>5, <2>6, <2>7 DEF Moves
<1>2. Agents' = Agents
  BY SettingsStay, SameAgents
<1> QED
  BY <1>1, <1>2 DEF Owed

LEMMA InitOwed ==
    ASSUME Init PROVE Owed
<1> DEFINE s == [NewSession EXCEPT !.status = "launched", !.connected = TRUE]
<1>1. s.app = "normal" /\ s.pending = "none"
  BY DEF NewSession
<1>2. ses = [a \in Agents |-> s]
  BY DEF Init
<1> HIDE DEF s
<1> QED
  BY <1>1, <1>2 DEF Init, Owed, OwedAt, Lost

LEMMA OwedInvariance == Spec => [](IInv /\ Refusals /\ Owed)
<1>1. Init => IInv /\ Refusals /\ Owed
  BY InitHolds, InitIsOrderly, InitOwed
<1>2. IInv /\ Refusals /\ Owed /\ [Next]_vars => IInv' /\ Refusals' /\ Owed'
  BY NextKeeps, RefusalsKept, OwedKept
<1> QED
  BY <1>1, <1>2, PTL DEF Spec

-----------------------------------------------------------------------------
(* What the games are at, as long as nothing else went wrong.               *)

Fair(s) == s.errors \subseteq {"SC2ProtocolError", "ResponseNotConsumed"}
Untroubled == \A a \in Agents : Fair(ses[a])

\* A client knows the state of its game, or the response that is there tells it; and
\* the game can do what it is asked for.
KnownAt(a) ==
    /\ IF ready[a] = NoResponse THEN ses[a].status = inst[a]
       ELSE ready[a].status = inst[a] /\ ~ready[a].error
    /\ asked[a] # "none" => Valid(a, asked[a])

\* What is pending in CreateGame and JoinGame, and what the games have answered.
StartedAt(a) ==
    /\ phase \in {"create", "joining"} /\ a # 1 => inst[a] = "launched"
    /\ phase = "create" /\ a = 1 =>
           /\ ses[a].pending = "create_game"
           /\ ready[a] # NoResponse => inst[a] = "init_game"
    /\ phase = "joining" =>
           /\ ready[a] = NoResponse
           /\ a = 1 => inst[a] = "init_game"
           /\ a < turn => ses[a].pending = "join_game"
    /\ phase = "waitjoin" /\ a >= turn => ses[a].pending = "join_game"
    /\ phase = "waitjoin" /\ (a < turn \/ ready[a] # NoResponse) => inst[a] = "in_game"
    /\ phase \in {"joined", "firstlook", "started", "start"} => inst[a] = "in_game"

\* Where an agent waits it waits for the response to its last request.
Waiting == {"step", "observe", "query", "acting", "featuring"}
AwaitedAt(p) ==
    CASE p = "observe" -> "observation"
      [] p \in {"acting", "featuring"} -> "action"
      [] OTHER -> p
AwaitsAt(a) ==
    /\ pc[a] \in Waiting => ses[a].pending = AwaitedAt(pc[a])
    /\ pc[a] # "endcheck"

\* Update, and what is between its calls: an agent with threads does not rest in a game
\* that is over before it has asked to leave it.
Updating == {"idle", "polling", "parallel", "sequence"}
Acting == {"events", "query", "actions", "acting", "feature", "featuring"}
Stepping == {"step", "look", "observe"}
PlayedAt(a) == phase \in Updating =>
    /\ inst[a] # "init_game"
    /\ pc[a] \in Stepping \cup {"poll"} => phase = "parallel"
    /\ pc[a] \in Acting => inst[a] = "in_game"
    /\ pc[a] \in Stepping \/ (pc[a] = "call" /\ Multiplayer) => inst[a] \in {"in_game", "ended"}
    /\ pc[a] \in Between /\ ready[a] # NoResponse => inst[a] = "launched"
    /\ pc[a] \in Between /\ None(ses[a]) /\ Multiplayer /\ MultiThreaded => inst[a] # "ended"

\* An agent that was not told of the end is in its game, unless the step that may have
\* ended it is still being processed.
Finishing(a) ==
    \/ pc[a] \in Stepping \cup {"call"}
    \/ ~MultiThreaded /\ (phase = "parallel" \/ pc[a] = "recheck")
UntoldAt(a) ==
    phase \in Updating /\ games > 0 /\ (MultiThreaded \/ ~Multiplayer) /\ ends[a] = 0 /\ ~left =>
        Finishing(a) \/ (inst[a] = "in_game" /\ (pc[a] \in Between => None(ses[a])))

GameAt(a) ==
    KnownAt(a) /\ StartedAt(a) /\ AwaitsAt(a) /\ PlayedAt(a) /\ UntoldAt(a)

\* Before the first game.
NotBegun == games = 0 =>
    /\ phase \in {"idle", "polling", "exited"}
    /\ \A a \in Agents : inst[a] = "launched" /\ asked[a] = "none"

InOrder == /\ \A a \in Agents : ses[a].errors = {} /\ GameAt(a)
           /\ NotBegun
Protocol == ~Realtime /\ Restartable /\ Untroubled => InOrder

-----------------------------------------------------------------------------
(* The games stay in order.                                                 *)

LEMMA GamesGoUp ==
    ASSUME [Next]_vars PROVE games' \in {games, games + 1}
BY DEF Next, vars, Run, StartGame, CreateGame, WaitCreateGame, RequestJoinGame,
   WaitJoinGame, CheckJoinErrors, FirstLook, WaitFirstLook, OnGameStart, NextStart,
   Update, BeginSecondLoop, NextAgent, ReturnFromUpdate, ConsumeFirst, EndOfWait,
   LeaveGame, WaitForAllResponses, Exit, Game, GameOver, AnswerOne, AnswerAll,
   Agent, SkipAgent, Step, WaitStep, Observe, WaitObservation, Recheck, EndGame,
   StayInGame, IssueEvents, WaitQuery, SendActions, WaitActions, coordinator

\* Everything the layers before say, while nothing else went wrong.
Sound == /\ IInv /\ Owed /\ Orderly /\ InOrder
         /\ ~Realtime /\ Restartable

\* Nothing else goes wrong in this step.
Onward == ~Realtime' /\ Restartable' /\ Untroubled'

LEMMA ErrorsStay ==
    ASSUME IInv, [Next]_vars, NEW a \in Agents
    PROVE  ses[a].errors \subseteq ses'[a].errors
BY EveryoneMoves
DEF Moves, Still, Sent, Heard, Unheard, Replied, RanOut, Unharmed

LEMMA SoundBefore ==
    ASSUME IInv, Refusals, Owed, Protocol, [Next]_vars, Onward
    PROVE  Sound
<1>1. /\ settings' = settings /\ Agents' = Agents /\ N' = N
      /\ games \in Nat /\ games' \in {games, games + 1}
  BY SettingsStay, SameAgents, GamesGoUp, CoordinatorAssumption DEF IInv, TypeOK
<1>2. ~Realtime /\ Restartable
  BY <1>1 DEF Onward, Realtime, Restartable, MultiThreaded, Multiplayer
<1>3. Untroubled
  BY <1>1, ErrorsStay DEF Onward, Untroubled, Fair
<1>4. InOrder
  BY <1>2, <1>3 DEF Protocol
<1>5. Clean
  BY <1>4 DEF InOrder, Clean, Mild
<1> QED
  BY <1>2, <1>4, <1>5 DEF Sound, Refusals

\* What the responses tell, as long as the games are in order.
LEMMA SoundFacts ==
    ASSUME Sound, NEW a \in Agents
    PROVE  /\ ses[a].errors = {} /\ ses[a].app = "normal" /\ inst[a] \in Games \ Lost
           /\ GameAt(a) /\ OwedAt(a) /\ AskedAt(phase, pc[a], ses[a])
           /\ LeftAt(ses[a], left)
<1>1. /\ IInv /\ Owed /\ Orderly /\ InOrder
  BY DEF Sound
<1>2. ses[a].errors = {} /\ GameAt(a) /\ OwedAt(a) /\ inst[a] \in Games
  BY <1>1, ClientTypes DEF InOrder, Owed
<1>3. ses[a].app = "normal"
  BY <1>1, <1>2 DEF IInv, FailureShows, Normal
<1> QED
  BY <1>1, <1>2, <1>3, AllOrderly DEF OwedAt

\* A client that waits for nothing knows its game's state and can ask.
LEMMA NothingAwaited ==
    ASSUME Sound, NEW a \in Agents, None(ses[a])
    PROVE  /\ ses[a].pending = "none" /\ asked[a] = "none" /\ ready[a] = NoResponse
           /\ ses[a].status = inst[a] /\ (IsInGame(ses[a]) <=> inst[a] = "in_game")
<1>1. /\ IInv /\ OwedAt(a) /\ KnownAt(a) /\ ses[a].app = "normal" /\ inst[a] \in Games
      /\ ses[a].pending = "none"
  BY SoundFacts DEF Sound, GameAt, None, HasResponsePending
<1>2. asked[a] = "none" /\ ready[a] = NoResponse
  BY <1>1, NothingReady
<1>3. "in_replay" \notin Games
  BY DEF Games, Lost
<1> QED
  BY <1>1, <1>2, <1>3 DEF KnownAt, IsInGame

LEMMA Asks ==
    ASSUME Sound, NEW a \in Agents, None(ses[a]), NEW t \in Types, Request(a, ses[a], t)
    PROVE  Others(a) /\ Sent(a, t) /\ Outcome(a, ses[a], t).sent
<1>1. IInv /\ inst[a] # "dead" /\ ses[a] \in SessionType
  BY SoundFacts, ClientTypes DEF Sound, Lost
<1>2. Alike(ses[a], ses[a])
  BY DEF Alike, Unharmed
<1> QED
  BY <1>1, <1>2, RequestEffect

\* The response that was there is the expected one.
LEMMA Hears ==
    ASSUME Sound, NEW a \in Agents, Heard(a)
    PROVE  /\ ready[a] # NoResponse /\ ready'[a] = NoResponse /\ ~ready[a].error
           /\ ready[a].type = ses[a].pending /\ asked[a] = "none"
           /\ ses'[a].errors = {} /\ ses'[a].pending = "none"
           /\ inst'[a] = inst[a] /\ asked'[a] = "none"
BY SoundFacts DEF GameAt, KnownAt, OwedAt, Heard

LEMMA KnownKept ==
    ASSUME Sound, settings' = settings, NEW a \in Agents,
           \/ Still(a) \/ Heard(a)
           \/ \E t \in Types : Sent(a, t) /\ Valid(a, t)
           \/ Replied(a) /\ ~ready'[a].error
    PROVE  KnownAt(a)'
<1>1. IInv /\ KnownAt(a) /\ OwedAt(a)
  BY SoundFacts DEF GameAt, Sound
<1>2. \A t : inst'[a] = inst[a] => (Valid(a, t)' <=> Valid(a, t))
  BY SameAgents DEF Valid, Multiplayer
<1>3. CASE Still(a)
  BY <1>1, <1>2, <1>3 DEF KnownAt, Still
<1>4. CASE Heard(a)
  BY <1>1, <1>4, Hears DEF KnownAt, Heard
<1>5. ASSUME NEW t \in Types, Sent(a, t), Valid(a, t) PROVE KnownAt(a)'
  <2>1. ready[a] = NoResponse
    BY <1>1, <1>5, NothingReady DEF Sent
  <2> QED
    BY <1>1, <1>2, <1>5, <2>1 DEF KnownAt, Sent
<1>6. CASE Replied(a) /\ ~ready'[a].error
  BY <1>6 DEF KnownAt, Replied
<1> QED
  BY <1>3, <1>4, <1>5, <1>6

LEMMA NoErrorsAhead ==
    ASSUME Sound, Refusals, [Next]_vars, Onward
    PROVE  \A a \in Agents : ses'[a].errors = {} /\ ~Unheard(a)
<1>1. IInv /\ Agents' = Agents
  BY SettingsStay, SameAgents DEF Sound
<1>2. ASSUME NEW a \in Agents PROVE Mild(ses'[a]) /\ ~Unheard(a)
  <2>1. Moves(a) /\ ses[a].errors = {} /\ Fair(ses'[a])
    BY <1>1, EveryoneMoves, SoundFacts DEF Onward, Untroubled, Fair
  <2>2. ~Unheard(a)
    BY <2>1 DEF Unheard, Fair
  <2> QED
    BY <2>1, <2>2, Hears DEF Moves, Still, Sent, Unharmed, Replied, RanOut, Mild
<1>3. Orderly'
  BY <1>1, <1>2, RefusalsKept DEF Refusals, Clean, Mild
<1> QED
  BY <1>1, <1>2, <1>3 DEF Orderly, NoErrors

\* The game of an agent that this step is not about.
LEMMA SameGame ==
    ASSUME Sound, NEW a \in Agents, Still(a), pc'[a] = pc[a], ends'[a] = ends[a],
           UNCHANGED <<settings, phase, turn, games, left>>
    PROVE  GameAt(a)'
<1>1. /\ GameAt(a) /\ KnownAt(a)' /\ inst'[a] = inst[a] /\ ready'[a] = ready[a]
      /\ ses'[a].pending = ses[a].pending /\ ses'[a].app = ses[a].app
  BY KnownKept, SoundFacts DEF Still
<1>2. (Multiplayer' <=> Multiplayer) /\ (MultiThreaded' <=> MultiThreaded)
  BY SameAgents DEF Multiplayer, MultiThreaded
<1>3. StartedAt(a)'
  BY <1>1 DEF GameAt, StartedAt
<1>4. AwaitsAt(a)'
  BY <1>1 DEF GameAt, AwaitsAt, AwaitedAt
<1>5. PlayedAt(a)'
  BY <1>1, <1>2 DEF GameAt, PlayedAt, None, HasResponsePending
<1>6. UntoldAt(a)'
  BY <1>1, <1>2 DEF GameAt, UntoldAt, Finishing, None, HasResponsePending
<1> QED
  BY <1>1, <1>3, <1>4, <1>5, <1>6 DEF GameAt

\* A step of agent a is about no other agent.
Scene(a) ==
    /\ UNCHANGED <<settings, phase, turn, games, left>>
    /\ \A b \in Agents : b # a => pc'[b] = pc[b] /\ ends'[b] = ends[b]
    /\ phase \in {"parallel", "sequence", "start"}
    /\ Frame(a) /\ ~Unheard(a)

LEMMA AgentScene ==
    ASSUME Sound, Refusals, NEW a \in Agents, Agent(a), Onward
    PROVE  Scene(a)
<1>1. IInv /\ Frame(a) /\ ~Unheard(a)
  <2>1. Next
    BY DEF Next
  <2> QED
    BY <2>1, NoErrorsAhead, EveryAgentKeeps DEF Sound
<1>2. phase' = phase /\ games' = games
  <2>1. CASE WaitObservation(a)
    <3>1. Heard(a)
      BY <1>1, <2>1, WaitEffect DEF WaitObservation
    <3>2. PollResponse(a)
      BY <3>1 DEF Heard, PollResponse
    <3> QED
      BY <2>1, <3>2 DEF WaitObservation
  <2>2. CASE ~WaitObservation(a)
    BY <2>2 DEF Agent, SkipAgent, Step, WaitStep, Observe, Recheck, EndGame, StayInGame,
       IssueEvents, WaitQuery, SendActions, WaitActions, coordinator
  <2> QED
    BY <2>1, <2>2
<1>3. \A b \in Agents : b # a => ends'[b] = ends[b]
  <2>1. CASE EndGame(a)
    BY <1>1, <2>1 DEF EndGame, IInv, TypeOK
  <2>2. CASE ~EndGame(a)
    BY <2>2 DEF Agent, SkipAgent, Step, WaitStep, Observe, WaitObservation, Recheck,
       StayInGame, IssueEvents, WaitQuery, SendActions, WaitActions
  <2> QED
    BY <2>1, <2>2
<1> QED
  BY <1>1, <1>2, <1>3 DEF Frame, Scene

LEMMA OwnGame ==
    ASSUME Sound, NEW a \in Agents, Scene(a), KnownAt(a)', AwaitsAt(a)',
           phase = "start" => inst'[a] = "in_game",
           phase # "start" => PlayedAt(a)' /\ UntoldAt(a)'
    PROVE  GameAt(a)'
<1>1. StartedAt(a)'
  BY DEF Scene, StartedAt
<1>2. phase = "start" => PlayedAt(a)' /\ UntoldAt(a)'
  BY DEF Scene, PlayedAt, UntoldAt, Updating
<1> QED
  BY <1>1, <1>2 DEF GameAt

\* Where agent a is before its step.
Placed(a) ==
    /\ phase = "start" => pc[a] \in {"done", "events", "query"} /\ inst[a] = "in_game"
    /\ phase # "start" => phase \in {"parallel", "sequence"}
    /\ inst[a] # "init_game" /\ pc[a] # "endcheck"
    /\ pc[a] \in Stepping \cup {"poll"} => phase = "parallel"
    /\ pc[a] \in Acting => inst[a] = "in_game"
    /\ pc[a] \in Stepping \/ (pc[a] = "call" /\ Multiplayer) => inst[a] \in {"in_game", "ended"}
    /\ phase # "start" /\ pc[a] \in Between =>
           /\ ready[a] # NoResponse => inst[a] = "launched"
           /\ None(ses[a]) /\ Multiplayer /\ MultiThreaded => inst[a] # "ended"
    /\ pc[a] \in Asking => None(ses[a])

LEMMA AgentPlaced ==
    ASSUME Sound, NEW a \in Agents, Scene(a)
    PROVE  /\ Placed(a) /\ UntoldAt(a) /\ (Realtime' <=> Realtime) /\ ~Realtime
           /\ (Multiplayer' <=> Multiplayer) /\ (MultiThreaded' <=> MultiThreaded)
           /\ \A p : Goto(a, p) => pc'[a] = p
<1>1. /\ IInv /\ GameAt(a) /\ AskedAt(phase, pc[a], ses[a])
      /\ settings' = settings /\ phase \in {"parallel", "sequence", "start"}
      /\ ~Realtime
  BY SoundFacts DEF Sound, Scene
<1>2. Agents' = Agents /\ N' = N /\ (Realtime' <=> Realtime)
  BY <1>1, SameAgents
<1>3. (Multiplayer' <=> Multiplayer) /\ (MultiThreaded' <=> MultiThreaded)
  BY <1>1, <1>2 DEF Multiplayer, MultiThreaded
<1>4. \A p : Goto(a, p) => pc'[a] = p
  BY <1>1 DEF Goto, IInv, TypeOK
<1>5. ASSUME phase = "start" PROVE Placed(a)
  BY <1>1, <1>5
  DEF Placed, GameAt, StartedAt, AskedAt, Asking, Stepping, Acting, Between
<1>6. ASSUME phase # "start" PROVE Placed(a)
  BY <1>1, <1>6 DEF Placed, GameAt, AwaitsAt, PlayedAt, Updating, AskedAt
<1> QED
  BY <1>1, <1>2, <1>3, <1>4, <1>5, <1>6 DEF GameAt

\* PollLeaveGame lets an agent pass that waits for nothing and is in its game.
LEMMA InGamePasses ==
    ASSUME Sound, NEW a \in Agents, None(ses[a]), inst[a] = "in_game",
           NEW p \in {"poll", "recheck"}
    PROVE  Passes(a, p)
<1>1. IsInGame(ses[a]) /\ ses[a].pending = "none" /\ ses[a].app = "normal"
  BY NothingAwaited, SoundFacts
<1> QED
  BY <1>1 DEF Passes, LeavesGame, IsFinishedGame

LEMMA SkipAgentInOrder ==
    ASSUME Sound, NEW a \in Agents, Scene(a), SkipAgent(a)
    PROVE  GameAt(a)'
<1>1. /\ pc[a] \in {"poll", "recheck"} /\ pc'[a] = "done" /\ ~Passes(a, pc[a])
      /\ ends' = ends /\ settings' = settings /\ phase' = phase
      /\ phase \in {"parallel", "sequence"} /\ ses[a].app = "normal"
      /\ PollLeaveGame(a) /\ PollLeaveErrors(ses[a]) = ses[a]
  <2>1. pc[a] \in {"poll", "recheck"} /\ Frame(a) /\ IInv /\ Orderly
    BY DEF SkipAgent, Scene, Sound
  <2> QED
    BY <2>1, AgentPlaced, SoundFacts, PassesFree DEF SkipAgent, Scene, Placed
<1>2. Placed(a) /\ UntoldAt(a) /\ IInv
  BY AgentPlaced DEF Sound
<1>3. Still(a) \/ Heard(a)
  <2>1. \/ ResponseComes(a)
        \/ ses' = [ses EXCEPT ![a] = PollLeaveErrors(ses[a])] /\ UNCHANGED game
    BY <1>1 DEF PollLeaveGame
  <2> QED
    BY <1>2, <2>1, ResponseEffect, PollAlike, SessionAfter
<1>4. KnownAt(a)' /\ AwaitsAt(a)'
  BY <1>1, <1>3, KnownKept DEF AwaitsAt, Waiting
<1>5. /\ inst'[a] = inst[a]
      /\ ready'[a] # NoResponse => ready'[a] = ready[a]
      /\ None(ses'[a]) => None(ses[a]) \/ inst[a] = "launched"
      /\ None(ses[a]) => None(ses'[a])
  BY <1>1, <1>2, <1>3, Hears DEF Still, Placed, Between, None, HasResponsePending
<1>6. PlayedAt(a)'
  BY <1>1, <1>2, <1>5, AgentPlaced DEF Placed, PlayedAt, Between, Stepping, Acting
<1>7. UntoldAt(a)'
  <2>1. ASSUME MultiThreaded \/ ~Multiplayer, ends[a] = 0, ~left, games > 0
        PROVE  \/ ~MultiThreaded /\ phase = "parallel"
               \/ inst[a] = "in_game" /\ None(ses[a])
    <3>1. CASE inst[a] = "in_game" /\ None(ses[a])
      BY <3>1
    <3>2. CASE ~(inst[a] = "in_game" /\ None(ses[a]))
      <4>1. Finishing(a)
        BY <1>1, <1>2, <2>1, <3>2 DEF UntoldAt, Updating, Between
      <4>2. ~MultiThreaded /\ (phase = "parallel" \/ pc[a] = "recheck")
        BY <1>1, <4>1 DEF Finishing, Stepping
      <4>3. pc[a] # "recheck"
        BY <1>1, <2>1, <4>2 DEF Passes, LeavesGame
      <4> QED
        BY <4>2, <4>3
    <3> QED
      BY <3>1, <3>2
  <2>2. games' = games /\ left' = left
    BY DEF Scene
  <2> QED
    BY <1>1, <1>5, <2>1, <2>2, AgentPlaced DEF UntoldAt, Finishing
<1> QED
  BY <1>1, <1>4, <1>6, <1>7, OwnGame

LEMMA StepInOrder ==
    ASSUME Sound, NEW a \in Agents, Scene(a), Step(a)
    PROVE  GameAt(a)'
<1>1. /\ pc[a] = "poll" /\ pc'[a] = "step" /\ Passes(a, "poll")
      /\ settings' = settings /\ phase' = phase /\ Placed(a) /\ "step" \in Types
      /\ Request(a, PollLeaveErrors(ses[a]), "step")
  BY AgentPlaced, CoordinatorAssumption DEF Step, Scene
<1>2. /\ phase # "start" /\ PollLeaveErrors(ses[a]) = ses[a] /\ None(ses[a])
      /\ Request(a, ses[a], "step")
  BY <1>1, PassesFree DEF Scene, Sound
<1>3. inst[a] = "in_game" /\ Sent(a, "step")
  BY <1>1, <1>2, NothingAwaited, Asks DEF Passes, IsFinishedGame, None
<1>4. KnownAt(a)' /\ AwaitsAt(a)'
  <2>1. Valid(a, "step")
    BY <1>3 DEF Valid
  <2> QED
    BY <1>1, <1>3, <2>1, KnownKept DEF AwaitsAt, AwaitedAt, Sent
<1>5. PlayedAt(a)' /\ UntoldAt(a)'
  BY <1>1, <1>3
  DEF Placed, PlayedAt, UntoldAt, Finishing, Between, Stepping, Acting, Sent
<1> QED
  BY <1>2, <1>4, <1>5, OwnGame

\* The waits of an agent: the response comes.
LEMMA WaitsInOrder ==
    ASSUME Sound, NEW a \in Agents, Scene(a), Wait(a)
    PROVE  Heard(a) /\ PollResponse(a) /\ KnownAt(a)'
<1>1. IInv /\ settings' = settings /\ ~Unheard(a)
  BY DEF Sound, Scene
<1>2. Heard(a)
  BY <1>1, WaitEffect
<1> QED
  BY <1>1, <1>2, KnownKept DEF Heard, PollResponse

LEMMA WaitStepInOrder ==
    ASSUME Sound, NEW a \in Agents, Scene(a), WaitStep(a)
    PROVE  GameAt(a)'
<1>1. /\ pc[a] = "step" /\ phase' = phase /\ Placed(a) /\ Heard(a) /\ KnownAt(a)'
      /\ GameAt(a)
  BY AgentPlaced, WaitsInOrder, SoundFacts DEF WaitStep, Scene
<1>2. pc'[a] = "look" /\ inst'[a] = inst[a]
  <2>1. ready[a].type = "step" /\ ~ready[a].error
    BY <1>1, Hears DEF GameAt, AwaitsAt, AwaitedAt, Waiting
  <2> QED
    BY <1>1, <2>1, Hears, AgentPlaced DEF WaitStep
<1>3. AwaitsAt(a)' /\ PlayedAt(a)' /\ UntoldAt(a)'
  BY <1>1, <1>2
  DEF AwaitsAt, Waiting, Placed, PlayedAt, UntoldAt, Finishing, Between, Stepping, Acting
<1> QED
  BY <1>1, <1>3, OwnGame DEF Placed, Stepping

LEMMA ObserveInOrder ==
    ASSUME Sound, NEW a \in Agents, Scene(a), Observe(a)
    PROVE  GameAt(a)'
<1>1. /\ pc[a] = "look" /\ GetObservation(a, ses[a], AfterObservation)
      /\ settings' = settings /\ phase' = phase /\ Placed(a) /\ "observation" \in Types
  BY AgentPlaced, CoordinatorAssumption DEF Observe, Scene
<1>2. None(ses[a]) /\ ses[a].app = "normal" /\ phase = "parallel"
  BY <1>1, SoundFacts DEF Placed, Asking, Stepping
<1>3. Request(a, ses[a], "observation")
  BY <1>1, <1>2 DEF GetObservation
<1>4. Sent(a, "observation") /\ pc'[a] = "observe"
  BY <1>1, <1>2, <1>3, Asks, AgentPlaced DEF GetObservation, Observes
<1>5. KnownAt(a)' /\ AwaitsAt(a)'
  <2>1. Valid(a, "observation")
    BY <1>1 DEF Valid, Placed, Stepping
  <2> QED
    BY <1>1, <1>4, <2>1, KnownKept DEF AwaitsAt, AwaitedAt, Sent
<1>6. PlayedAt(a)' /\ UntoldAt(a)'
  BY <1>1, <1>2, <1>4
  DEF Placed, PlayedAt, UntoldAt, Finishing, Between, Stepping, Acting, Sent
<1> QED
  BY <1>2, <1>5, <1>6, OwnGame

LEMMA WaitObservationInOrder ==
    ASSUME Sound, NEW a \in Agents, Scene(a), WaitObservation(a)
    PROVE  GameAt(a)'
<1>1. /\ pc[a] = "observe" /\ phase' = phase /\ Placed(a) /\ Heard(a) /\ KnownAt(a)'
      /\ phase = "parallel" /\ inst[a] \in {"in_game", "ended"}
  BY AgentPlaced, WaitsInOrder DEF WaitObservation, Scene, Placed, Stepping
<1>2. /\ pc'[a] = IF MultiThreaded THEN "call" ELSE "done"
      /\ inst'[a] = inst[a] /\ ready'[a] = NoResponse
  BY <1>1, Hears, AgentPlaced DEF WaitObservation, AfterObservation
<1>3. AwaitsAt(a)' /\ PlayedAt(a)'
  BY <1>1, <1>2, AgentPlaced DEF AwaitsAt, Waiting, PlayedAt, Between, Stepping, Acting
<1>4. UntoldAt(a)'
  BY <1>1, <1>2, AgentPlaced DEF UntoldAt, Finishing
<1> QED
  BY <1>1, <1>3, <1>4, OwnGame

LEMMA RecheckInOrder ==
    ASSUME Sound, NEW a \in Agents, Scene(a), Recheck(a)
    PROVE  GameAt(a)'
<1>1. /\ pc[a] = "recheck" /\ pc'[a] = "call" /\ Passes(a, "recheck")
      /\ settings' = settings /\ phase' = phase /\ Placed(a) /\ IInv
  BY AgentPlaced DEF Recheck, Scene, Sound
<1>2. phase # "start" /\ None(ses[a])
  BY <1>1, PassesFree DEF Scene, Sound
<1>3. Still(a)
  BY <1>1, PollAlike, SessionAfter DEF Recheck
<1>4. Multiplayer => inst[a] = "in_game"
  BY <1>1, <1>2, NothingAwaited DEF Passes, LeavesGame
<1>5. KnownAt(a)' /\ AwaitsAt(a)'
  BY <1>1, <1>3, KnownKept DEF AwaitsAt, Waiting
<1>6. PlayedAt(a)' /\ UntoldAt(a)'
  BY <1>1, <1>2, <1>3, <1>4, AgentPlaced
  DEF Placed, PlayedAt, UntoldAt, Finishing, Between, Stepping, Acting, Still
<1> QED
  BY <1>2, <1>5, <1>6, OwnGame

LEMMA EndGameInOrder ==
    ASSUME Sound, NEW a \in Agents, Scene(a), EndGame(a)
    PROVE  GameAt(a)'
<1>1. /\ pc[a] = "call" /\ pc'[a] = "done" /\ RequestLeaveGame(a)
      /\ settings' = settings /\ phase' = phase /\ Placed(a) /\ IInv
      /\ phase # "start" /\ None(ses[a]) /\ "leave_game" \in Types
  BY AgentPlaced, CoordinatorAssumption DEF EndGame, AfterEnd, Scene, Placed, Asking, Sound
<1>2. ends'[a] # 0
  BY <1>1 DEF EndGame, IInv, TypeOK
<1>3. \/ Multiplayer /\ Sent(a, "leave_game") /\ Valid(a, "leave_game")
      \/ ~Multiplayer /\ Still(a)
  <2>1. CASE Multiplayer
    BY <1>1, <2>1, Asks DEF RequestLeaveGame, Placed, Valid
  <2>2. CASE ~Multiplayer
    BY <1>1, <2>2, NoneCalled DEF RequestLeaveGame
  <2> QED
    BY <2>1, <2>2
<1>4. KnownAt(a)' /\ AwaitsAt(a)'
  BY <1>1, <1>3, KnownKept DEF AwaitsAt, Waiting
<1>5. inst'[a] = inst[a] /\ ready'[a] = NoResponse /\ (Multiplayer => ~None(ses'[a]))
  <2>1. "leave_game" # "none"
    OBVIOUS
  <2> QED
    BY <1>1, <1>3, NothingAwaited DEF Sent, Still, None, HasResponsePending
<1>6. PlayedAt(a)' /\ UntoldAt(a)'
  BY <1>1, <1>2, <1>5, AgentPlaced DEF Placed, PlayedAt, UntoldAt, Between, Stepping, Acting
<1> QED
  BY <1>1, <1>4, <1>6, OwnGame

LEMMA StayInGameInOrder ==
    ASSUME Sound, NEW a \in Agents, Scene(a), StayInGame(a)
    PROVE  GameAt(a)'
<1>1. /\ pc[a] = "call" /\ pc'[a] = "events" /\ IsInGame(ses[a])
      /\ settings' = settings /\ phase' = phase /\ Placed(a) /\ IInv
      /\ phase # "start" /\ None(ses[a])
  BY AgentPlaced DEF StayInGame, Scene, Placed, Asking, Sound
<1>2. Still(a) /\ inst[a] = "in_game"
  BY <1>1, NoneCalled, NothingAwaited DEF StayInGame
<1>3. KnownAt(a)' /\ AwaitsAt(a)'
  BY <1>1, <1>2, KnownKept DEF AwaitsAt, Waiting
<1>4. PlayedAt(a)' /\ UntoldAt(a)'
  BY <1>1, <1>2 DEF PlayedAt, UntoldAt, Between, Stepping, Acting, Still
<1> QED
  BY <1>1, <1>3, <1>4, OwnGame

\* An agent that plays goes on: with what it asked its game, or when that was answered.
LEMMA PlaysOn ==
    ASSUME Sound, NEW a \in Agents, Scene(a), inst[a] = "in_game", inst'[a] = "in_game",
           pc[a] \in Acting, KnownAt(a)', AwaitsAt(a)',
           pc'[a] \in Acting \cup {"done"},
           pc'[a] = "done" => None(ses'[a]) /\ ready'[a] = NoResponse
    PROVE  GameAt(a)'
<1>1. phase' = phase
  BY DEF Scene
<1>2. PlayedAt(a)' /\ UntoldAt(a)'
  BY <1>1 DEF PlayedAt, UntoldAt, Between, Stepping, Acting
<1> QED
  BY <1>2, OwnGame

LEMMA IssueEventsInOrder ==
    ASSUME Sound, NEW a \in Agents, Scene(a), IssueEvents(a)
    PROVE  GameAt(a)'
<1>1. /\ pc[a] = "events" /\ settings' = settings /\ Placed(a) /\ IInv
      /\ inst[a] = "in_game" /\ None(ses[a]) /\ "query" \in Types
  BY AgentPlaced, CoordinatorAssumption
  DEF IssueEvents, Scene, Placed, Acting, Asking, Sound
<1>2. /\ ready[a] = NoResponse
      /\ \/ pc'[a] \in {"done", "actions"} /\ Still(a)
         \/ pc'[a] = "query" /\ Sent(a, "query") /\ Valid(a, "query")
  <2>1. CASE Goto(a, AfterEvents) /\ UNCHANGED <<ses, game>>
    BY <1>1, <2>1, AgentPlaced, NoneCalled, NothingAwaited DEF AfterEvents
  <2>2. CASE /\ Request(a, ses[a], "query")
             /\ Goto(a, IF Outcome(a, ses[a], "query").sent THEN "query" ELSE AfterEvents)
    BY <1>1, <2>2, AgentPlaced, Asks, NothingAwaited DEF Valid
  <2> QED
    BY <2>1, <2>2 DEF IssueEvents
<1>3. KnownAt(a)' /\ AwaitsAt(a)'
  BY <1>1, <1>2, KnownKept DEF AwaitsAt, AwaitedAt, Waiting, Sent
<1>4. /\ inst'[a] = "in_game"
      /\ pc'[a] = "done" => None(ses'[a]) /\ ready'[a] = NoResponse
  BY <1>1, <1>2 DEF Still, Sent, None, HasResponsePending
<1> QED
  BY <1>1, <1>2, <1>3, <1>4, PlaysOn DEF Acting

LEMMA SendActionsInOrder ==
    ASSUME Sound, NEW a \in Agents, Scene(a), SendActions(a)
    PROVE  GameAt(a)'
<1>1. /\ pc[a] \in {"actions", "feature"} /\ settings' = settings /\ Placed(a) /\ IInv
      /\ inst[a] = "in_game" /\ None(ses[a]) /\ "action" \in Types /\ ~Realtime
  BY AgentPlaced, CoordinatorAssumption
  DEF SendActions, Scene, Placed, Acting, Asking, Sound
<1>2. /\ ready[a] = NoResponse
      /\ \/ pc'[a] \in {"done", "feature"} /\ Still(a)
         \/ /\ pc'[a] \in {"acting", "featuring"}
            /\ Sent(a, "action") /\ Valid(a, "action")
  <2>1. CASE Goto(a, AfterActions(pc[a])) /\ UNCHANGED <<ses, game>>
    BY <1>1, <2>1, AgentPlaced, NoneCalled, NothingAwaited DEF AfterActions
  <2>2. CASE /\ Request(a, ses[a], "action")
             /\ Goto(a, IF ~Outcome(a, ses[a], "action").sent THEN AfterActions(pc[a])
                        ELSE IF pc[a] = "actions" THEN "acting" ELSE "featuring")
    BY <1>1, <2>2, AgentPlaced, Asks, NothingAwaited DEF Valid
  <2> QED
    BY <2>1, <2>2 DEF SendActions
<1>3. KnownAt(a)' /\ AwaitsAt(a)'
  BY <1>1, <1>2, KnownKept DEF AwaitsAt, AwaitedAt, Waiting, Sent
<1>4. /\ inst'[a] = "in_game"
      /\ pc'[a] = "done" => None(ses'[a]) /\ ready'[a] = NoResponse
  BY <1>1, <1>2 DEF Still, Sent, None, HasResponsePending
<1> QED
  BY <1>1, <1>2, <1>3, <1>4, PlaysOn DEF Acting

LEMMA WaitActionsInOrder ==
    ASSUME Sound, NEW a \in Agents, Scene(a), WaitQuery(a) \/ WaitActions(a)
    PROVE  GameAt(a)'
<1>1. /\ pc[a] \in {"query", "acting", "featuring"} /\ Wait(a) /\ ~Realtime
      /\ pc'[a] \in {"actions", "done", "feature"}
  BY AgentPlaced DEF WaitQuery, WaitActions, AfterEvents, AfterActions
<1>2. inst[a] = "in_game" /\ Heard(a) /\ KnownAt(a)'
  BY <1>1, AgentPlaced, WaitsInOrder DEF Placed, Acting
<1>3. inst'[a] = "in_game" /\ None(ses'[a]) /\ ready'[a] = NoResponse
  BY <1>2, Hears DEF None, HasResponsePending
<1>4. AwaitsAt(a)'
  BY <1>1 DEF AwaitsAt, Waiting
<1> QED
  BY <1>1, <1>2, <1>3, <1>4, PlaysOn DEF Acting

LEMMA AgentInOrder ==
    ASSUME Sound, Refusals, NEW a \in Agents, Agent(a), Onward
    PROVE  NotBegun' /\ \A b \in Agents : GameAt(b)'
<1>1. Scene(a) /\ OneCalled(a)
  BY AgentScene, AgentMoves DEF Sound
<1>2. GameAt(a)'
  BY <1>1, SkipAgentInOrder, StepInOrder, WaitStepInOrder, ObserveInOrder,
     WaitObservationInOrder, RecheckInOrder, EndGameInOrder, StayInGameInOrder,
     IssueEventsInOrder, SendActionsInOrder, WaitActionsInOrder DEF Agent
<1>3. ASSUME NEW b \in Agents, b # a PROVE GameAt(b)'
  BY <1>1, <1>3, SameGame DEF Scene, OneCalled, Others
<1>4. games # 0 /\ games' = games
  BY <1>1 DEF Scene, Sound, InOrder, NotBegun
<1> QED
  BY <1>2, <1>3, <1>4 DEF NotBegun

\* The same for a step of the program's thread; what the agents wait for has not changed.
AllInOrder == NotBegun /\ \A a \in Agents : GameAt(a)

LEMMA ThreadInOrder ==
    ASSUME Sound, settings' = settings,
           games' # 0 \/ (games = 0 /\ UNCHANGED <<asked, inst>>
                              /\ phase' \in {"idle", "polling", "exited"}),
           \A a \in Agents : /\ KnownAt(a)' /\ AwaitsAt(a)'
                             /\ StartedAt(a)' /\ PlayedAt(a)' /\ UntoldAt(a)'
    PROVE  AllInOrder'
<1>1. Agents' = Agents
  BY SameAgents
<1>2. NotBegun'
  BY <1>1 DEF NotBegun, Sound, InOrder
<1> QED
  BY <1>1, <1>2 DEF AllInOrder, GameAt

\* What CreateGame finds, and JoinGame.
LEMMA NothingRuns ==
    ASSUME Sound, phase \in {"idle", "polling"}, ~updated, NEW a \in Agents
    PROVE  /\ None(ses[a]) /\ inst[a] \in {"launched", "ended"}
           /\ Multiplayer /\ MultiThreaded => inst[a] = "launched"
<1>1. None(ses[a]) /\ ~IsInGame(ses[a]) /\ pc[a] = "done"
  BY AllRest DEF Sound, Orderly, AllOver, OverAt
<1>2. inst[a] # "in_game" /\ inst[a] \in Games \ Lost /\ GameAt(a)
  BY <1>1, NothingAwaited, SoundFacts
<1>3. inst[a] # "init_game" /\ (Multiplayer /\ MultiThreaded => inst[a] # "ended")
  BY <1>1, <1>2 DEF GameAt, PlayedAt, Updating, Between
<1> QED
  BY <1>1, <1>2, <1>3 DEF Games

LEMMA CreateGameInOrder ==
    ASSUME Sound, Onward, CreateGame
    PROVE  AllInOrder'
<1>1. /\ phase = "idle" /\ ~updated /\ Request(1, ses[1], "create_game")
      /\ games' = games + 1 /\ games \in Nat /\ N \in Nat
      /\ phase' = IF Outcome(1, ses[1], "create_game").sent THEN "create" ELSE "exited"
      /\ UNCHANGED <<settings, turn, updated, left, pc, ends>>
      /\ 1 \in Agents /\ "create_game" \in Types
  BY NumberOfAgents, CoordinatorAssumption DEF CreateGame, Sound, IInv, TypeOK
<1>2. \A a \in Agents : /\ None(ses[a]) /\ inst[a] \in {"launched", "ended"}
                        /\ pc'[a] = "done"
  BY <1>1, NothingRuns, AllRest DEF Sound
<1>3. Multiplayer => \A a \in Agents : inst[a] = "launched"
  <2>1. CASE games = 0
    BY <2>1 DEF Sound, InOrder, NotBegun
  <2>2. CASE games # 0 /\ Multiplayer
    <3>1. N' = N
      BY <1>1, SameAgents
    <3>2. MultiThreaded
      BY <1>1, <2>2, <3>1 DEF Onward, Restartable, MultiThreaded, Multiplayer
    <3> QED
      BY <1>1, <2>2, <3>2, NothingRuns
  <2> QED
    BY <2>1, <2>2
<1>4. Valid(1, "create_game") /\ \A a \in Agents : a # 1 => inst[a] = "launched"
  <2>1. \A a \in Agents : a # 1 => Multiplayer
    BY <1>1 DEF Agents, Multiplayer
  <2> QED
    BY <1>1, <1>2, <1>3, <2>1 DEF Valid
<1>5. Others(1) /\ Sent(1, "create_game") /\ phase' = "create"
  BY <1>1, <1>2, Asks
<1>6. ASSUME NEW a \in Agents
      PROVE  /\ KnownAt(a)' /\ AwaitsAt(a)'
             /\ StartedAt(a)' /\ PlayedAt(a)' /\ UntoldAt(a)'
  <2>1. a = 1 \/ (a # 1 /\ Still(a))
    BY <1>5 DEF Others
  <2>2. KnownAt(a)'
    BY <1>1, <1>4, <1>5, <2>1, KnownKept
  <2>3. StartedAt(a)'
    BY <1>1, <1>2, <1>4, <1>5, <2>1, NothingAwaited DEF StartedAt, Sent, Still
  <2> QED
    BY <1>2, <1>5, <2>2, <2>3 DEF AwaitsAt, Waiting, PlayedAt, UntoldAt, Updating
<1> QED
  BY <1>1, <1>6, ThreadInOrder

\* In the phases of StartGame every agent is at its game's start.
LEMMA Starting ==
    ASSUME Sound, NEW a \in Agents,
           phase \in {"create", "joining", "waitjoin", "joined", "firstlook", "started", "start"}
    PROVE  /\ GameAt(a) /\ StartedAt(a) /\ games # 0
BY SoundFacts DEF GameAt, Sound, InOrder, NotBegun

LEMMA WaitCreateGameInOrder ==
    ASSUME Sound, WaitCreateGame, ~Unheard(1)
    PROVE  AllInOrder'
<1>1. /\ phase = "create" /\ Wait(1) /\ turn' = 1 /\ 1 \in Agents
      /\ phase' = IF PollResponse(1) /\ ~ready[1].error THEN "joining" ELSE "exited"
      /\ UNCHANGED <<settings, updated, games, left, pc, ends>>
  BY NumberOfAgents DEF WaitCreateGame, Sound
<1>2. Others(1) /\ Heard(1)
  BY <1>1, WaitEffect DEF Sound
<1>3. phase' = "joining" /\ inst[1] = "init_game"
  BY <1>1, <1>2, Hears, Starting DEF PollResponse, StartedAt
<1>4. ASSUME NEW a \in Agents
      PROVE  /\ KnownAt(a)' /\ AwaitsAt(a)'
             /\ StartedAt(a)' /\ PlayedAt(a)' /\ UntoldAt(a)'
  <2>1. (a = 1 /\ Heard(a)) \/ (a # 1 /\ Still(a))
    BY <1>2 DEF Others
  <2>2. a # 1 => None(ses[a]) /\ ready[a] = NoResponse
    BY <1>1, NothingAwaited DEF Sound, Orderly, JoinedInTurn
  <2>3. KnownAt(a)'
    BY <1>1, <2>1, KnownKept
  <2>4. ~(a < 1)
    BY DEF Agents
  <2>5. inst'[a] = inst[a] /\ ready'[a] = NoResponse
    BY <2>1, <2>2, Hears DEF Still
  <2>6. StartedAt(a)'
    BY <1>1, <1>3, <2>4, <2>5, Starting DEF StartedAt
  <2>7. pc'[a] = "done"
    BY <1>1, AllRest DEF Sound
  <2> QED
    BY <1>3, <2>3, <2>6, <2>7 DEF AwaitsAt, Waiting, PlayedAt, UntoldAt, Updating
<1>5. games' # 0
  BY <1>1, Starting
<1> QED
  BY <1>1, <1>4, <1>5, ThreadInOrder

LEMMA RequestJoinGameInOrder ==
    ASSUME Sound, RequestJoinGame
    PROVE  AllInOrder'
<1>1. /\ phase = "joining" /\ Request(turn, ses[turn], "join_game")
      /\ AfterJoinRequest(Outcome(turn, ses[turn], "join_game").sent)
      /\ UNCHANGED <<settings, updated, games, left, pc, ends>>
      /\ turn \in Agents /\ "join_game" \in Types /\ N \in Nat
      /\ None(ses[turn])
  <2>1. /\ phase = "joining" /\ Request(turn, ses[turn], "join_game")
        /\ AfterJoinRequest(Outcome(turn, ses[turn], "join_game").sent)
        /\ UNCHANGED <<settings, updated, games, left, pc, ends>>
    BY DEF RequestJoinGame
  <2>2. turn \in Agents /\ "join_game" \in Types /\ N \in Nat
    BY <2>1, NumberOfAgents, CoordinatorAssumption DEF Sound, IInv, AtRest
  <2>3. turn >= turn
    BY <2>2 DEF Agents
  <2> QED
    BY <2>1, <2>2, <2>3 DEF Sound, Orderly, JoinedInTurn
<1>2. Valid(turn, "join_game")
  <2>1. turn # 1 => Multiplayer
    BY <1>1 DEF Agents, Multiplayer
  <2> QED
    BY <1>1, <2>1, Starting DEF Valid, StartedAt
<1>3. /\ Others(turn) /\ Sent(turn, "join_game")
      /\ NextTurn("joining", "waitjoin")
  BY <1>1, Asks DEF AfterJoinRequest
<1>4. \/ turn < N /\ phase' = "joining" /\ turn' = turn + 1
      \/ turn = N /\ phase' = "waitjoin" /\ turn' = 1
  BY <1>1, <1>3 DEF NextTurn, HasNext, Agents
<1>5. ASSUME NEW a \in Agents
      PROVE  /\ KnownAt(a)' /\ AwaitsAt(a)'
             /\ StartedAt(a)' /\ PlayedAt(a)' /\ UntoldAt(a)'
  <2>1. (a = turn /\ Sent(a, "join_game")) \/ (a # turn /\ Still(a))
    BY <1>3 DEF Others
  <2>2. KnownAt(a)'
    BY <1>1, <1>2, <2>1, KnownKept
  <2>3. /\ StartedAt(a) /\ inst'[a] = inst[a] /\ ready'[a] = NoResponse
        /\ a <= turn => ses'[a].pending = "join_game"
    <3>1. StartedAt(a) /\ ready[a] = NoResponse
      BY <1>1, Starting DEF StartedAt
    <3>2. a <= turn => a = turn \/ a < turn
      BY <1>1 DEF Agents
    <3> QED
      BY <1>1, <2>1, <3>1, <3>2 DEF StartedAt, Sent, Still
  <2>4. (a < turn' \/ phase' = "waitjoin") => a <= turn
    BY <1>1, <1>4 DEF Agents
  <2>5. ~(a < 1)
    BY DEF Agents
  <2>6. StartedAt(a)'
    BY <1>1, <1>4, <2>3, <2>4, <2>5 DEF StartedAt
  <2>7. pc'[a] = "done"
    BY <1>1, AllRest DEF Sound
  <2> QED
    BY <1>4, <2>2, <2>6, <2>7 DEF AwaitsAt, Waiting, PlayedAt, UntoldAt, Updating
<1>6. games' # 0
  BY <1>1, Starting
<1> QED
  BY <1>1, <1>5, <1>6, ThreadInOrder

LEMMA WaitJoinGameInOrder ==
    ASSUME Sound, WaitJoinGame, ~Unheard(turn)
    PROVE  AllInOrder'
<1>1. /\ phase = "waitjoin" /\ Wait(turn) /\ NextTurn("waitjoin", "joined")
      /\ UNCHANGED <<settings, updated, games, left, pc, ends>>
      /\ turn \in Agents /\ N \in Nat
  BY NumberOfAgents DEF WaitJoinGame, Sound, IInv, AtRest
<1>2. Others(turn) /\ Heard(turn)
  BY <1>1, WaitEffect DEF Sound
<1>3. \/ turn < N /\ phase' = "waitjoin" /\ turn' = turn + 1
      \/ turn = N /\ phase' = "joined"
  BY <1>1 DEF NextTurn, HasNext, Agents
<1>4. ASSUME NEW a \in Agents
      PROVE  /\ KnownAt(a)' /\ AwaitsAt(a)'
             /\ StartedAt(a)' /\ PlayedAt(a)' /\ UntoldAt(a)'
  <2>1. (a = turn /\ Heard(a)) \/ (a # turn /\ Still(a))
    BY <1>2 DEF Others
  <2>2. KnownAt(a)'
    BY <1>1, <2>1, KnownKept
  <2>3. a <= turn => inst'[a] = "in_game"
    <3>1. a <= turn => a = turn \/ a < turn
      BY <1>1 DEF Agents
    <3> QED
      BY <1>1, <2>1, <3>1, Starting, Hears DEF StartedAt, Still
  <2>4. /\ a < turn' \/ phase' = "joined" => a <= turn
        /\ phase' = "waitjoin" /\ a >= turn' => a # turn /\ a >= turn
    BY <1>1, <1>3 DEF Agents
  <2>5. phase' = "waitjoin" /\ a >= turn' => ses'[a].pending = "join_game"
    BY <1>1, <2>1, <2>4, Starting DEF StartedAt, Still
  <2>6. phase' = "waitjoin" /\ ready'[a] # NoResponse => inst'[a] = "in_game"
    BY <1>1, <2>1, Starting, Hears DEF StartedAt, Still
  <2>7. StartedAt(a)'
    BY <1>3, <2>3, <2>4, <2>5, <2>6 DEF StartedAt
  <2>8. pc'[a] = "done"
    BY <1>1, AllRest DEF Sound
  <2> QED
    BY <1>3, <2>2, <2>7, <2>8 DEF AwaitsAt, Waiting, PlayedAt, UntoldAt, Updating
<1>5. games' # 0
  BY <1>1, Starting
<1> QED
  BY <1>1, <1>4, <1>5, ThreadInOrder

\* The rest of StartGame: every agent's game has begun.
LEMMA StartsInOrder ==
    ASSUME Sound, UNCHANGED <<settings, games>>,
           phase \in {"joined", "firstlook", "started", "start"},
           phase' \in {"firstlook", "started", "start"},
           \A a \in Agents : /\ KnownAt(a)' /\ AwaitsAt(a)' /\ inst'[a] = inst[a]
    PROVE  AllInOrder'
<1>1. games' # 0
  BY Starting, NumberOfAgents DEF Sound
<1>2. ASSUME NEW a \in Agents PROVE StartedAt(a)' /\ PlayedAt(a)' /\ UntoldAt(a)'
  BY Starting DEF StartedAt, PlayedAt, UntoldAt, Updating
<1> QED
  BY <1>1, <1>2, ThreadInOrder

\* A step that calls nobody.
LEMMA NobodyCalled ==
    ASSUME Sound, settings' = settings, UNCHANGED <<ses, game>>, NEW a \in Agents
    PROVE  /\ Still(a) /\ KnownAt(a)' /\ inst'[a] = inst[a] /\ asked'[a] = asked[a]
           /\ ready'[a] = ready[a] /\ ses'[a] = ses[a]
<1>1. Still(a) /\ ses'[a] = ses[a]
  BY NoneCalled DEF Sound
<1> QED
  BY <1>1, KnownKept DEF Still

LEMMA FirstLookInOrder ==
    ASSUME Sound, FirstLook
    PROVE  AllInOrder'
<1>1. /\ phase = "firstlook" /\ pc[turn] = "done"
      /\ GetObservation(turn, ses[turn], "done")
      /\ phase' \in {"firstlook", "started"} /\ UNCHANGED <<settings, games>>
      /\ turn \in Agents /\ "observation" \in Types /\ pc \in [Agents -> Pcs]
  BY CoordinatorAssumption DEF FirstLook, NextTurn, Sound, IInv, TypeOK, AtRest
<1>2. /\ None(ses[turn]) /\ ses[turn].app = "normal" /\ inst[turn] = "in_game"
  BY <1>1, SoundFacts, Starting DEF AskedAt, StartedAt
<1>3. Request(turn, ses[turn], "observation")
  BY <1>1, <1>2 DEF GetObservation
<1>4. /\ Others(turn) /\ Sent(turn, "observation") /\ Valid(turn, "observation")
      /\ pc' = [pc EXCEPT ![turn] = "observe"]
  BY <1>1, <1>2, <1>3, Asks DEF GetObservation, Observes, Goto, Valid
<1>5. ASSUME NEW a \in Agents
      PROVE  KnownAt(a)' /\ AwaitsAt(a)' /\ inst'[a] = inst[a]
  <2>1. (a = turn /\ Sent(a, "observation")) \/ (a # turn /\ Still(a))
    BY <1>4 DEF Others
  <2>2. KnownAt(a)' /\ inst'[a] = inst[a]
    BY <1>1, <1>4, <2>1, KnownKept DEF Sent, Still
  <2>3. AwaitsAt(a)'
    BY <1>1, <1>4, <2>1, Starting DEF GameAt, AwaitsAt, AwaitedAt, Sent, Still
  <2> QED
    BY <2>2, <2>3
<1> QED
  BY <1>1, <1>5, StartsInOrder

LEMMA WaitFirstLookInOrder ==
    ASSUME Sound, WaitFirstLook, ~Unheard(turn)
    PROVE  AllInOrder'
<1>1. /\ phase = "firstlook" /\ Wait(turn) /\ pc' = [pc EXCEPT ![turn] = "done"]
      /\ UNCHANGED <<settings, games>> /\ turn \in Agents /\ pc \in [Agents -> Pcs]
  BY DEF WaitFirstLook, Goto, Sound, IInv, TypeOK, AtRest
<1>2. Others(turn) /\ Heard(turn)
  BY <1>1, WaitEffect DEF Sound
<1>3. phase' \in {"firstlook", "started"}
  BY <1>1, <1>2 DEF WaitFirstLook, NextTurn, PollResponse, Heard
<1>4. ASSUME NEW a \in Agents
      PROVE  KnownAt(a)' /\ AwaitsAt(a)' /\ inst'[a] = inst[a]
  <2>1. (a = turn /\ Heard(a)) \/ (a # turn /\ Still(a))
    BY <1>2 DEF Others
  <2>2. KnownAt(a)' /\ inst'[a] = inst[a]
    BY <1>1, <2>1, KnownKept DEF Heard, Still
  <2>3. AwaitsAt(a)'
    BY <1>1, <2>1, Starting DEF GameAt, AwaitsAt, AwaitedAt, Waiting, Still
  <2> QED
    BY <2>2, <2>3
<1> QED
  BY <1>1, <1>3, <1>4, StartsInOrder

LEMMA CheckJoinErrorsInOrder ==
    ASSUME Sound, CheckJoinErrors
    PROVE  AllInOrder'
<1>1. /\ phase = "joined" /\ phase' = "firstlook"
      /\ UNCHANGED <<settings, games, pc, ses, game>>
  BY SoundFacts DEF CheckJoinErrors, HasErrors, clients
<1>2. \A a \in Agents : KnownAt(a)' /\ AwaitsAt(a)' /\ inst'[a] = inst[a]
  BY <1>1, NobodyCalled, AllRest DEF AwaitsAt, Waiting, Sound
<1> QED
  BY <1>1, <1>2, StartsInOrder

LEMMA OnGameStartInOrder ==
    ASSUME Sound, OnGameStart
    PROVE  AllInOrder'
<1>1. /\ phase = "started" /\ phase' = "start" /\ pc' = [pc EXCEPT ![1] = "events"]
      /\ UNCHANGED <<settings, games, ses, game>> /\ pc \in [Agents -> Pcs]
  BY DEF OnGameStart, Goto, Sound, IInv, TypeOK
<1>2. \A a \in Agents : pc'[a] \in {"done", "events"}
  BY <1>1, AllRest DEF Sound
<1>3. \A a \in Agents : KnownAt(a)' /\ AwaitsAt(a)' /\ inst'[a] = inst[a]
  BY <1>1, <1>2, NobodyCalled DEF AwaitsAt, Waiting
<1> QED
  BY <1>1, <1>3, StartsInOrder

LEMMA NextStartInOrder ==
    ASSUME Sound, NextStart
    PROVE  AllInOrder'
<1>1. /\ phase = "start" /\ UNCHANGED <<settings, games, ses, game>>
      /\ \/ phase' = "start" /\ pc' = [pc EXCEPT ![turn + 1] = "events"]
         \/ phase' = "idle" /\ pc' = pc
      /\ pc \in [Agents -> Pcs] /\ \A a \in Agents : pc[a] = "done"
  BY DEF NextStart, Goto, Sound, IInv, TypeOK, AtRest
<1>2. \A a \in Agents : pc'[a] \in {"done", "events"}
  BY <1>1
<1>3. \A a \in Agents : KnownAt(a)' /\ AwaitsAt(a)' /\ inst'[a] = inst[a]
  BY <1>1, <1>2, NobodyCalled DEF AwaitsAt, Waiting
<1>4. CASE phase' = "start"
  BY <1>1, <1>3, <1>4, StartsInOrder
<1>5. CASE phase' = "idle"
  <2>1. ASSUME NEW a \in Agents
        PROVE  StartedAt(a)' /\ PlayedAt(a)' /\ UntoldAt(a)'
    <3>1. None(ses[a]) /\ inst[a] = "in_game"
      BY <1>1, SoundFacts, Starting DEF AskedAt, StartedAt
    <3>2. /\ None(ses'[a]) /\ inst'[a] = "in_game" /\ ready'[a] = NoResponse
          /\ pc'[a] = "done"
      BY <1>1, <1>5, <3>1, NothingAwaited, NobodyCalled
    <3> QED
      BY <1>5, <3>2
      DEF StartedAt, PlayedAt, UntoldAt, Between, Stepping, Acting, Updating
  <2>2. games' # 0
    BY <1>1, Starting, NumberOfAgents DEF Sound
  <2> QED
    BY <1>1, <1>3, <2>1, <2>2, ThreadInOrder
<1> QED
  BY <1>1, <1>4, <1>5

LEMMA StartGameInOrder ==
    ASSUME Sound, Refusals, StartGame, Onward
    PROVE  AllInOrder'
<1>1. \A a \in Agents : ~Unheard(a)
  BY NoErrorsAhead DEF Next, Run
<1>2. 1 \in Agents /\ (phase \in {"waitjoin", "firstlook"} => turn \in Agents)
  BY NumberOfAgents DEF Sound, IInv, AtRest
<1>3. WaitJoinGame \/ WaitFirstLook => phase \in {"waitjoin", "firstlook"}
  BY DEF WaitJoinGame, WaitFirstLook
<1> QED
  BY <1>1, <1>2, <1>3, CreateGameInOrder, WaitCreateGameInOrder, RequestJoinGameInOrder,
     WaitJoinGameInOrder, CheckJoinErrorsInOrder, FirstLookInOrder, WaitFirstLookInOrder,
     OnGameStartInOrder, NextStartInOrder DEF StartGame

\* A step of the thread between its calls and the loops of Update: agents rest, and
\* begin anew.
Resumes(a) ==
    /\ pc[a] \in Between /\ pc'[a] \in Between
    /\ pc'[a] = "poll" => phase' = "parallel"
    /\ phase \in {"idle", "polling", "parallel", "sequence"}
    /\ phase' \in {"idle", "polling", "parallel", "sequence"}
    /\ Finishing(a) /\ (MultiThreaded \/ ~Multiplayer) => Finishing(a)'

LEMMA LoopInOrder ==
    ASSUME Sound, UNCHANGED <<settings, games, left, ends, ses, game>>,
           phase' \in {"idle", "polling"} \/ games # 0,
           \A a \in Agents : Resumes(a)
    PROVE  AllInOrder'
<1>1. /\ (Multiplayer' <=> Multiplayer) /\ (MultiThreaded' <=> MultiThreaded)
  BY SameAgents DEF Multiplayer, MultiThreaded
<1>2. ASSUME NEW a \in Agents
      PROVE  /\ KnownAt(a)' /\ AwaitsAt(a)'
             /\ StartedAt(a)' /\ PlayedAt(a)' /\ UntoldAt(a)'
  <2>1. /\ KnownAt(a)' /\ inst'[a] = inst[a] /\ ready'[a] = ready[a] /\ ses'[a] = ses[a]
        /\ Resumes(a) /\ GameAt(a) /\ ends'[a] = ends[a]
    BY NobodyCalled, SoundFacts
  <2>2. StartedAt(a)' /\ AwaitsAt(a)'
    BY <2>1 DEF StartedAt, AwaitsAt, Waiting, Resumes, Between
  <2>3. PlayedAt(a)'
    BY <1>1, <2>1
    DEF GameAt, PlayedAt, Resumes, Between, Stepping, Acting, Updating, None, HasResponsePending
  <2>4. UntoldAt(a)'
    BY <1>1, <2>1 DEF GameAt, UntoldAt, Resumes, Updating, None, HasResponsePending
  <2> QED
    BY <2>1, <2>2, <2>3, <2>4
<1>3. games' # 0 \/ (games = 0 /\ UNCHANGED <<asked, inst>> /\ phase' \in {"idle", "polling"})
  BY DEF game
<1> QED
  BY <1>2, <1>3, ThreadInOrder

LEMMA LoopsInOrder ==
    ASSUME Sound, Update \/ BeginSecondLoop \/ NextAgent \/ ReturnFromUpdate
    PROVE  AllInOrder'
<1>1. /\ \A a \in Agents : pc[a] = "done"
      /\ UNCHANGED <<settings, games, left, ends, ses, game>>
      /\ phase \in {"idle", "parallel", "sequence"} /\ games # 0
      /\ pc \in [Agents -> Pcs] /\ ~Realtime
  <2>1. UNCHANGED <<settings, games, left, ends, ses, game>>
    BY DEF Update, BeginSecondLoop, NextAgent, ReturnFromUpdate, clients
  <2>2. \A a \in Agents : pc[a] = "done"
    BY AllRest, NumberOfAgents
    DEF Update, BeginSecondLoop, NextAgent, ReturnFromUpdate, Sound, IInv, AtRest
  <2>3. phase \in {"idle", "parallel", "sequence"} /\ games # 0
    BY DEF Update, BeginSecondLoop, NextAgent, ReturnFromUpdate, Sound, InOrder, NotBegun,
       IInv, TypeOK
  <2> QED
    BY <2>1, <2>2, <2>3 DEF Sound, IInv, TypeOK
<1>2. CASE Update
  <2>1. /\ phase = "idle" /\ phase' = "parallel" /\ pc' = [a \in Agents |-> "poll"]
    BY <1>1, <1>2 DEF Update, Sequential
  <2>2. \A a \in Agents : Resumes(a)
    BY <1>1, <2>1 DEF Resumes, Between, Finishing, Stepping
  <2> QED
    BY <1>1, <2>2, LoopInOrder
<1>3. CASE BeginSecondLoop
  <2>1. /\ phase = "parallel" /\ phase' = "sequence" /\ ~MultiThreaded
        /\ pc' = [pc EXCEPT ![1] = "recheck"]
        /\ (MultiThreaded' <=> MultiThreaded)
    BY <1>3 DEF BeginSecondLoop, Goto, MultiThreaded
  <2>2. \A a \in Agents : /\ pc'[a] \in {"done", "recheck"}
                          /\ ~Multiplayer => pc'[a] = "recheck"
    BY <1>1, <2>1, NumberOfAgents DEF Multiplayer, Agents, Sound
  <2>3. \A a \in Agents : Resumes(a)
    BY <1>1, <2>1, <2>2 DEF Resumes, Between, Finishing, Stepping
  <2> QED
    BY <1>1, <2>3, LoopInOrder
<1>4. CASE NextAgent
  <2>1. /\ phase = "sequence" /\ phase' = "sequence"
        /\ pc' = [pc EXCEPT ![turn + 1] = "recheck"]
    BY <1>1, <1>4 DEF NextAgent, Goto
  <2>2. \A a \in Agents : Resumes(a)
    BY <1>1, <2>1 DEF Resumes, Between, Finishing, Stepping
  <2> QED
    BY <1>1, <2>2, LoopInOrder
<1>5. CASE ReturnFromUpdate
  <2>1. /\ phase = "sequence" \/ (phase = "parallel" /\ MultiThreaded)
        /\ phase' = "idle" /\ pc' = pc
    BY <1>5 DEF ReturnFromUpdate, clients
  <2>2. \A a \in Agents : Resumes(a)
    BY <1>1, <2>1 DEF Resumes, Between, Finishing, Stepping
  <2> QED
    BY <1>1, <2>2, LoopInOrder
<1> QED
  BY <1>2, <1>3, <1>4, <1>5

\* The program ends, or waits for the responses of LeaveGame.
LEMMA EndInOrder ==
    ASSUME Sound, WaitForAllResponses \/ EndOfWait \/ Exit
    PROVE  AllInOrder'
<1>1. /\ UNCHANGED <<settings, games, left, ends, ses, pc, game>>
      /\ \/ phase \in {"idle", "polling"} /\ phase' \in {"idle", "polling"}
         \/ phase' \in Ended /\ (phase' = "exited" \/ phase = "crashed")
  BY DEF WaitForAllResponses, EndOfWait, Exit, Outside, Ended, clients
<1>2. CASE phase \in {"idle", "polling"} /\ phase' \in {"idle", "polling"}
  <2>1. \A a \in Agents : Resumes(a)
    BY <1>1, <1>2, AllRest DEF Resumes, Between, Finishing, Stepping, Sound
  <2> QED
    BY <1>1, <1>2, <2>1, LoopInOrder
<1>3. CASE phase' \in Ended /\ (phase' = "exited" \/ phase = "crashed")
  <2>1. ASSUME NEW a \in Agents
        PROVE  /\ KnownAt(a)' /\ AwaitsAt(a)'
               /\ StartedAt(a)' /\ PlayedAt(a)' /\ UntoldAt(a)'
    <3>1. KnownAt(a)' /\ GameAt(a) /\ ses'[a] = ses[a]
      BY <1>1, NobodyCalled, SoundFacts
    <3>2. AwaitsAt(a)'
      BY <1>1, <3>1 DEF GameAt, AwaitsAt, AwaitedAt
    <3> QED
      BY <1>3, <3>1, <3>2 DEF StartedAt, PlayedAt, UntoldAt, Updating, Ended
  <2>2. games' # 0 \/ (games = 0 /\ UNCHANGED <<asked, inst>> /\ phase' = "exited")
    BY <1>1, <1>3 DEF Sound, InOrder, NotBegun, game
  <2> QED
    BY <1>1, <2>1, <2>2, ThreadInOrder
<1> QED
  BY <1>1, <1>2, <1>3

LEMMA ConsumeFirstInOrder ==
    ASSUME Sound, ConsumeFirst
    PROVE  AllInOrder'
<1>1. /\ UNCHANGED <<settings, games, left, ends, phase, pc>> /\ phase = "polling"
      /\ \A a \in Agents : pc[a] = "done"
  BY AllRest DEF ConsumeFirst, coordinator, Sound
<1>2. \A a \in Agents : Heard(a) \/ (Still(a) /\ ses'[a] = ses[a])
  BY ConsumeFirstMoves DEF Sound
<1>3. (Multiplayer' <=> Multiplayer) /\ (MultiThreaded' <=> MultiThreaded)
  BY <1>1, SameAgents DEF Multiplayer, MultiThreaded
<1>4. ASSUME NEW a \in Agents
      PROVE  /\ KnownAt(a)' /\ AwaitsAt(a)' /\ inst'[a] = inst[a] /\ asked'[a] = asked[a]
             /\ StartedAt(a)' /\ PlayedAt(a)' /\ UntoldAt(a)'
  <2>1. GameAt(a) /\ KnownAt(a)'
    BY <1>1, <1>2, KnownKept, SoundFacts
  <2>2. CASE Heard(a)
    <3>1. inst[a] = "launched" /\ ~None(ses[a])
      <4>1. ready[a] # NoResponse
        BY <2>2, Hears
      <4>2. ~None(ses[a])
        BY <4>1, NothingAwaited
      <4> QED
        BY <1>1, <2>1, <4>1, <4>2 DEF GameAt, PlayedAt, Updating, Between
    <3>2. /\ inst'[a] = "launched" /\ ready'[a] = NoResponse /\ asked'[a] = asked[a]
      BY <2>2, <3>1, Hears
    <3>3. UntoldAt(a)'
      BY <1>1, <1>3, <2>1, <3>1 DEF GameAt, UntoldAt, Finishing, Updating, Between
    <3> QED
      BY <1>1, <2>1, <3>1, <3>2, <3>3
      DEF AwaitsAt, Waiting, StartedAt, PlayedAt, Between, Stepping, Acting
  <2>3. CASE Still(a) /\ ses'[a] = ses[a]
    <3>1. /\ ses'[a] = ses[a] /\ inst'[a] = inst[a] /\ ready'[a] = ready[a]
          /\ asked'[a] = asked[a]
      BY <2>3 DEF Still
    <3>2. AwaitsAt(a)' /\ StartedAt(a)'
      BY <1>1 DEF AwaitsAt, Waiting, StartedAt
    <3>3. PlayedAt(a)'
      BY <1>1, <1>3, <2>1, <3>1 DEF GameAt, PlayedAt, None, HasResponsePending
    <3>4. UntoldAt(a)'
      BY <1>1, <1>3, <2>1, <3>1 DEF GameAt, UntoldAt, Finishing, None, HasResponsePending
    <3> QED
      BY <2>1, <3>1, <3>2, <3>3, <3>4
  <2> QED
    BY <1>2, <2>2, <2>3
<1>5. games' = games
  BY <1>1
<1>6. Agents' = Agents /\ NotBegun
  BY <1>1, SameAgents DEF Sound, InOrder
<1>7. NotBegun'
  BY <1>1, <1>4, <1>6 DEF NotBegun
<1> QED
  BY <1>4, <1>6, <1>7 DEF AllInOrder, GameAt

LEMMA LeaveGameInOrder ==
    ASSUME Sound, LeaveGame
    PROVE  AllInOrder'
<1>1. /\ phase = "idle" /\ ~left /\ left' = TRUE /\ \A a \in Agents : IsInGame(ses[a])
      /\ UNCHANGED <<settings, games, ends, phase, pc>>
      /\ \A a \in Agents : pc[a] = "done"
  BY AllRest DEF LeaveGame, Sound
<1>2. ASSUME NEW a \in Agents
      PROVE  Sent(a, "leave_game") /\ inst[a] = "in_game" /\ ready[a] = NoResponse
  <2>1. None(ses[a])
    BY <1>1, SoundFacts DEF AskedAt, Between, LeftAt, None, HasResponsePending
  <2>2. inst[a] = "in_game" /\ ready[a] = NoResponse
    BY <1>1, <2>1, NothingAwaited
  <2> QED
    BY <2>1, <2>2, LeaveGameMoves DEF Sound
<1>3. ASSUME NEW a \in Agents
      PROVE  /\ KnownAt(a)' /\ AwaitsAt(a)'
             /\ StartedAt(a)' /\ PlayedAt(a)' /\ UntoldAt(a)'
  <2>1. /\ inst'[a] = "in_game" /\ ready'[a] = NoResponse
    BY <1>2 DEF Sent
  <2>2. Valid(a, "leave_game") /\ "leave_game" \in Types
    BY <1>2, CoordinatorAssumption DEF Valid
  <2>3. KnownAt(a)'
    BY <1>1, <1>2, <2>2, KnownKept
  <2> QED
    BY <1>1, <2>1, <2>3
    DEF AwaitsAt, Waiting, StartedAt, PlayedAt, UntoldAt, Between, Stepping, Acting
<1>4. games' # 0
  <2>1. 1 \in Agents
    BY NumberOfAgents DEF Sound
  <2> QED
    BY <1>1, <1>2, <2>1 DEF Sound, InOrder, NotBegun
<1> QED
  BY <1>1, <1>3, <1>4, ThreadInOrder

\* What is pending, and where.
Pending(a, t) ==
    \/ phase \in Ended
    \/ phase = "create" /\ a = 1 /\ t = "create_game"
    \/ phase = "joining" /\ a < turn /\ t = "join_game"
    \/ phase = "waitjoin" /\ a >= turn /\ t = "join_game"
    \/ phase = "firstlook" /\ pc[a] = "observe" /\ t = "observation"
    \/ phase = "start" /\ pc[a] = "query" /\ t = "query"
    \/ phase \in Updating /\ pc[a] \in Waiting /\ t = AwaitedAt(pc[a])
    \/ phase \in Updating /\ pc[a] \in Between /\ t = "leave_game"

LEMMA PendingFacts ==
    ASSUME Sound, NEW a \in Agents, ses[a].pending # "none"
    PROVE  Pending(a, ses[a].pending)
<1>1. /\ IInv /\ Orderly /\ GameAt(a) /\ AskedAt(phase, pc[a], ses[a])
      /\ pc[a] \in Pcs /\ phase \in Phases /\ a \in Nat
      /\ ~None(ses[a])
  BY SoundFacts DEF Sound, IInv, TypeOK, Agents, None, HasResponsePending
<1>2. CASE phase = "create"
  BY <1>1, <1>2 DEF Orderly, JoinedInTurn, GameAt, StartedAt, Pending
<1>3. CASE phase = "joining"
  <2>1. turn \in Nat
    BY <1>1, <1>3 DEF IInv, AtRest, Agents
  <2> QED
    BY <1>1, <1>3, <2>1 DEF Orderly, JoinedInTurn, GameAt, StartedAt, Pending
<1>4. CASE phase = "waitjoin"
  <2>1. turn \in Nat
    BY <1>1, <1>4 DEF IInv, AtRest, Agents
  <2> QED
    BY <1>1, <1>4, <2>1 DEF Orderly, JoinedInTurn, GameAt, StartedAt, Pending
<1>5. CASE phase \in {"joined", "started"}
  BY <1>1, <1>5, AllRest DEF AskedAt
<1>6. CASE phase = "firstlook"
  <2>1. pc[a] = "observe"
    BY <1>1, <1>6 DEF IInv, AtRest, AskedAt
  <2> QED
    BY <1>1, <1>6, <2>1 DEF Pending, GameAt, AwaitsAt, Waiting, AwaitedAt
<1>7. CASE phase = "start"
  <2>1. pc[a] = "query"
    BY <1>1, <1>7 DEF AskedAt, Asking
  <2> QED
    BY <1>1, <1>7, <2>1 DEF Pending, GameAt, AwaitsAt, Waiting, AwaitedAt
<1>8. CASE phase \in Updating
  <2>1. CASE pc[a] \in Waiting
    BY <1>1, <1>8, <2>1 DEF Pending, GameAt, AwaitsAt
  <2>2. CASE pc[a] \in Between
    BY <1>1, <1>8, <2>2 DEF Pending, AskedAt, Updating, None, HasResponsePending
  <2>3. pc[a] \notin Asking
    BY <1>1 DEF AskedAt
  <2> QED
    BY <1>1, <2>1, <2>2, <2>3 DEF Pcs, Waiting, Between, Asking
<1> QED
  BY <1>1, <1>2, <1>3, <1>4, <1>5, <1>6, <1>7, <1>8 DEF Phases, Updating, Ended, Pending

\* A game that answers goes on from where it is to where it was asked to.
LEMMA RepliedInOrder ==
    ASSUME Sound, NEW a \in Agents, Replied(a), ~ready'[a].error,
           UNCHANGED <<coordinator, clients>>,
           \/ asked[a] \notin Synchronous /\ inst'[a] = StateAfter(a, asked[a])
           \/ asked[a] = "step" /\ inst'[a] \in {"in_game", "ended"}
           \/ asked[a] = "join_game" /\ inst'[a] = "in_game" /\ phase # "joining"
    PROVE  GameAt(a)'
<1>1. /\ UNCHANGED <<settings, phase, turn, games, left, pc, ends, ses>>
      /\ GameAt(a) /\ OwedAt(a) /\ asked[a] # "none" /\ ready[a] = NoResponse
      /\ ses[a].pending = asked[a] /\ asked[a] \in Types
      /\ ready'[a] # NoResponse
  BY SoundFacts, ClientTypes, TypesAssumption
  DEF coordinator, clients, Replied, OwedAt, Sound
<1>2. KnownAt(a)'
  BY <1>1, KnownKept
<1>3. AwaitsAt(a)'
  BY <1>1 DEF GameAt, AwaitsAt, AwaitedAt
<1>4. (Multiplayer' <=> Multiplayer) /\ (MultiThreaded' <=> MultiThreaded)
  BY <1>1, SameAgents DEF Multiplayer, MultiThreaded
<1>5. Pending(a, asked[a])
  BY <1>1, PendingFacts
<1>6. CASE phase \in Ended
  BY <1>1, <1>2, <1>3, <1>6 DEF GameAt, StartedAt, PlayedAt, UntoldAt, Updating, Ended
<1>7. CASE phase = "create" /\ a = 1 /\ asked[a] = "create_game"
  <2>1. inst'[a] = "init_game"
    BY <1>7 DEF StateAfter, Synchronous
  <2> QED
    BY <1>1, <1>2, <1>3, <1>7, <2>1 DEF GameAt, StartedAt, PlayedAt, UntoldAt, Updating
<1>8. CASE phase = "waitjoin" /\ a >= turn /\ asked[a] = "join_game"
  <2>1. inst'[a] = "in_game"
    BY <1>8 DEF Synchronous
  <2> QED
    BY <1>1, <1>2, <1>3, <1>8, <2>1 DEF GameAt, StartedAt, PlayedAt, UntoldAt, Updating
<1>9. CASE phase \in {"firstlook", "start"} /\ asked[a] \in {"observation", "query"}
  <2>1. inst'[a] = inst[a]
    BY <1>9 DEF StateAfter, Synchronous
  <2> QED
    BY <1>1, <1>2, <1>3, <1>9, <2>1 DEF GameAt, StartedAt, PlayedAt, UntoldAt, Updating
<1>10. CASE phase \in Updating /\ pc[a] \in Waiting /\ asked[a] = AwaitedAt(pc[a])
  <2>1. StartedAt(a)'
    BY <1>1, <1>10 DEF StartedAt, Updating
  <2>2. CASE pc[a] = "step"
    <3>1. inst'[a] \in {"in_game", "ended"}
      BY <1>10, <2>2 DEF AwaitedAt, Synchronous
    <3>2. PlayedAt(a)' /\ UntoldAt(a)'
      BY <1>1, <1>4, <2>2, <3>1
      DEF GameAt, PlayedAt, UntoldAt, Finishing, Between, Stepping, Acting
    <3> QED
      BY <1>2, <1>3, <2>1, <3>2 DEF GameAt
  <2>3. CASE pc[a] # "step"
    <3>1. inst'[a] = inst[a]
      BY <1>10, <2>3 DEF AwaitedAt, Waiting, StateAfter, Synchronous
    <3>2. PlayedAt(a)' /\ UntoldAt(a)'
      BY <1>1, <1>4, <1>10, <2>3, <3>1
      DEF GameAt, PlayedAt, UntoldAt, Finishing, Between, Waiting
    <3> QED
      BY <1>2, <1>3, <2>1, <3>2 DEF GameAt
  <2> QED
    BY <2>2, <2>3
<1>11. CASE phase \in Updating /\ pc[a] \in Between /\ asked[a] = "leave_game"
  <2>1. inst'[a] = "launched" /\ ~None(ses[a])
    BY <1>1, <1>11 DEF StateAfter, Synchronous, None, HasResponsePending
  <2>2. StartedAt(a)'
    BY <1>1, <1>11 DEF StartedAt, Updating
  <2>3. PlayedAt(a)'
    BY <1>1, <1>4, <1>11, <2>1 DEF GameAt, PlayedAt, Between, Stepping, Acting
  <2>4. UntoldAt(a)'
    BY <1>1, <1>4, <1>11, <2>1 DEF GameAt, UntoldAt, Finishing, Between
  <2> QED
    BY <1>2, <1>3, <2>2, <2>3, <2>4 DEF GameAt
<1> QED
  BY <1>5, <1>6, <1>7, <1>8, <1>9, <1>10, <1>11 DEF Pending, Synchronous

LEMMA GamesInOrder ==
    ASSUME Sound, Game
    PROVE  AllInOrder'
<1>1. \A a \in Agents : asked[a] # "none" => games # 0
  BY DEF Sound, InOrder, NotBegun
<1>2. \A a \in Agents : Still(a) /\ UNCHANGED <<coordinator, clients>> => GameAt(a)'
  BY SameGame DEF coordinator, clients
<1>3. ASSUME UNCHANGED <<coordinator, clients>>, games # 0, \A a \in Agents : GameAt(a)'
      PROVE  AllInOrder'
  <2>1. Agents' = Agents /\ games' = games
    BY <1>3, SameAgents DEF coordinator
  <2> QED
    BY <1>3, <2>1 DEF AllInOrder, NotBegun
<1>4. ASSUME NEW a \in Agents, AnswerOne(a) PROVE AllInOrder'
  <2>1. /\ Others(a) /\ Replied(a) /\ UNCHANGED <<coordinator, clients>>
        /\ asked[a] \in Synchronous => ~Valid(a, asked[a])
        /\ Valid(a, asked[a]) => inst'[a] = StateAfter(a, asked[a]) /\ ~ready'[a].error
    BY <1>4, AnswerOneMoves DEF Sound
  <2>2. Valid(a, asked[a]) /\ asked[a] # "none"
    BY <2>1, SoundFacts DEF GameAt, KnownAt, Replied
  <2>3. GameAt(a)'
    BY <2>1, <2>2, RepliedInOrder
  <2>4. \A b \in Agents : b # a => GameAt(b)'
    BY <1>2, <2>1 DEF Others
  <2> QED
    BY <1>1, <1>3, <2>1, <2>2, <2>3, <2>4
<1>5. ASSUME NEW t \in Synchronous, AnswerAll(t) PROVE AllInOrder'
  <2>1. /\ UNCHANGED <<coordinator, clients>>
        /\ \A a \in Agents :
               /\ a \in Players(t) =>
                      /\ Replied(a) /\ asked[a] = t /\ ~ready'[a].error
                      /\ inst'[a] \in IF t = "step" THEN {"in_game", "ended"} ELSE {"in_game"}
               /\ a \notin Players(t) => Still(a)
    <3>1. IInv /\ 1 \in Agents
      BY NumberOfAgents DEF Sound
    <3> QED
      BY <1>5, <3>1, AnswerAllMoves
  <2>2. t = "join_game" => phase # "joining"
    <3>1. CASE t = "join_game" /\ phase = "joining"
      <4>1. turn \in Agents /\ turn >= turn
        BY <3>1 DEF Sound, IInv, AtRest, Agents
      <4>2. asked[turn] = "none"
        BY <3>1, <4>1, NothingAwaited DEF Sound, Orderly, JoinedInTurn
      <4>3. turn \in Players(t)
        BY <3>1, <4>1, SoundFacts DEF Players
      <4> QED
        BY <2>1, <3>1, <4>1, <4>2, <4>3
    <3> QED
      BY <3>1
  <2>3. \A a \in Agents : GameAt(a)'
    BY <1>2, <1>5, <2>1, <2>2, RepliedInOrder DEF Synchronous
  <2>4. games # 0
    <3>1. PICK a \in Players(t) : TRUE
      BY <1>5 DEF AnswerAll
    <3>2. a \in Agents
      BY DEF Players
    <3> QED
      BY <1>1, <1>5, <2>1, <3>2 DEF Synchronous
  <2> QED
    BY <1>3, <2>1, <2>3, <2>4
<1> QED
  BY <1>4, <1>5 DEF Game

LEMMA StepInOrderEver ==
    ASSUME Sound, Refusals, [Next]_vars, Onward
    PROVE  AllInOrder'
<1>1. CASE \E a \in Agents : Agent(a)
  <2>1. PICK a \in Agents : Agent(a)
    BY <1>1
  <2>2. Agents' = Agents
    BY SettingsStay, SameAgents
  <2> QED
    BY <2>1, <2>2, AgentInOrder DEF AllInOrder
<1>2. CASE Run
  BY <1>2, StartGameInOrder, LoopsInOrder, ConsumeFirstInOrder, EndInOrder DEF Run
<1>3. CASE LeaveGame \/ WaitForAllResponses \/ Exit
  BY <1>3, LeaveGameInOrder, EndInOrder
<1>4. CASE Game
  BY <1>4, GamesInOrder
<1>5. ~GameOver
  BY DEF GameOver, Sound
<1>6. CASE UNCHANGED vars
  <2>1. \A a \in Agents : GameAt(a)'
    BY <1>6, NobodyCalled, SameGame DEF vars, coordinator, clients, game
  <2>2. Agents' = Agents /\ UNCHANGED <<games, phase, inst, asked>>
    BY <1>6, SameAgents DEF vars, coordinator, game
  <2> QED
    BY <2>1, <2>2 DEF AllInOrder, Sound, InOrder, NotBegun
<1> QED
  BY <1>1, <1>2, <1>3, <1>4, <1>5, <1>6 DEF Next

LEMMA ProtocolKept ==
    ASSUME IInv, Refusals, Owed, Protocol, [Next]_vars
    PROVE  Protocol'
<1> SUFFICES ASSUME Onward PROVE InOrder'
  BY DEF Protocol, Onward
<1>1. Sound
  BY SoundBefore
<1>2. AllInOrder' /\ \A a \in Agents : ses'[a].errors = {}
  BY <1>1, StepInOrderEver, NoErrorsAhead
<1>3. Agents' = Agents
  BY SettingsStay, SameAgents
<1> QED
  BY <1>2, <1>3 DEF InOrder, AllInOrder

LEMMA InitProtocol ==
    ASSUME Init PROVE Protocol
<1> DEFINE s == [NewSession EXCEPT !.status = "launched", !.connected = TRUE]
<1>1. s.status = "launched" /\ s.errors = {}
  BY DEF NewSession
<1>2. ses = [a \in Agents |-> s]
  BY DEF Init
<1> HIDE DEF s
<1>3. ASSUME NEW a \in Agents PROVE GameAt(a) /\ ses[a].errors = {}
  <2>1. /\ ses[a] = s /\ pc[a] = "done" /\ inst[a] = "launched" /\ asked[a] = "none"
        /\ ready[a] = NoResponse /\ phase = "idle" /\ games = 0
    BY <1>2 DEF Init
  <2> QED
    BY <1>1, <2>1
    DEF GameAt, KnownAt, StartedAt, AwaitsAt, Waiting, PlayedAt, UntoldAt, Updating,
        Between, Stepping, Acting
<1>4. NotBegun
  BY DEF Init, NotBegun
<1> QED
  BY <1>3, <1>4 DEF Protocol, InOrder

LEMMA ProtocolInvariance == Spec => [](IInv /\ Refusals /\ Owed /\ Protocol)
<1>1. Init => IInv /\ Refusals /\ Owed /\ Protocol
  BY InitHolds, InitIsOrderly, InitOwed, InitProtocol
<1>2. IInv /\ Refusals /\ Owed /\ Protocol /\ [Next]_vars =>
          IInv' /\ Refusals' /\ Owed' /\ Protocol'
  BY NextKeeps, RefusalsKept, OwedKept, ProtocolKept
<1> QED
  BY <1>1, <1>2, PTL DEF Spec

\* The game applications are asked for nothing they cannot do in their state: whatever
\* the order of threads, games and the program's calls, a client asks its game to
\* create, to join, to step, to act and to leave only when the game can.
THEOREM NoProtocolErrorsAlways == Spec => []NoProtocolErrors
<1>1. Protocol => NoProtocolErrors
  BY DEF Protocol, InOrder, Untroubled, Fair, NoProtocolErrors
<1> QED
  BY <1>1, ProtocolInvariance, PTL

\* Without realtime OnGameEnd is called for every agent before the program's loop ends,
\* where the thread that sees the end of a step also reports it: the agents that did not
\* hear of the end are in their games, and the loop goes on.
THEOREM SteppedEndIsReportedAlways == Spec => []SteppedEndIsReported
<1>1. ASSUME IInv, Refusals, Owed, Protocol PROVE SteppedEndIsReported
  <2> SUFFICES ASSUME ~Realtime, MultiThreaded \/ ~Multiplayer, LoopEnded, ~left,
                      NEW a \in Agents
               PROVE  ends[a] > 0
    BY DEF SteppedEndIsReported, EndIsReported
  <2>1. phase = "idle" /\ games > 0 /\ ~updated /\ \A b \in Agents : ses[b].errors = {}
    BY DEF LoopEnded, HasErrors
  <2>2. InOrder /\ Orderly
    BY <1>1, <2>1 DEF Protocol, Restartable, Untroubled, Fair, Refusals, Clean, Mild
  <2>3. Sound
    BY <1>1, <2>2 DEF Sound, Restartable
  <2>4. inst[a] # "in_game" /\ pc[a] = "done"
    BY <2>1, <2>3, NothingRuns, AllRest DEF Sound
  <2>5. ends[a] # 0
    BY <2>1, <2>3, <2>4, SoundFacts DEF GameAt, UntoldAt, Finishing, Stepping, Updating
  <2> QED
    BY <1>1, <2>5 DEF IInv, TypeOK
<1> QED
  BY <1>1, ProtocolInvariance, PTL

-----------------------------------------------------------------------------
(* Nobody is told twice.                                                    *)

\* Only games that fail leave other errors behind than refused requests.
Healthy == ~Failures => Untroubled

\* Who asked to join and was not answered is in the loops of JoinGame.
JoinsAt(a) == asked[a] = "join_game" =>
    /\ phase \in {"joining", "waitjoin"} \cup Ended
    /\ phase = "waitjoin" => a >= turn

\* A game that runs is known to run, or the response that is there tells it; it is no
\* replay.
LiveAt(a) ==
    /\ inst[a] = "in_game" =>
           (IF ready[a] = NoResponse THEN ses[a].status ELSE ready[a].status) = "in_game"
    /\ ses[a].app = "normal" => ses[a].status # "in_replay"
    /\ ready[a].status # "in_replay"

\* Without threads, RunParallel makes the steps of a game without realtime only.
PlaceAt(a) ==
    /\ phase = "start" => pc[a] \in {"done", "events", "query"}
    /\ phase = "parallel" /\ ~MultiThreaded =>
           ~Realtime /\ pc[a] \in Stepping \cup {"done", "poll"}


Ongoing == \A a \in Agents : JoinsAt(a) /\ LiveAt(a) /\ PlaceAt(a)

\* The game that was started goes on, or is updated although it is over.
Continues ==
    \/ phase \in {"firstlook", "started", "start", "parallel", "sequence"}
    \/ phase \in {"idle", "polling"} /\ (updated \/ settings.keeps_updating)

\* Then a game that is known to be over is over.
GoneAt(a) == Continues /\ ses[a].app = "normal" /\ ses[a].status # "in_game" =>
    inst[a] # "in_game" /\ ready[a].status # "in_game"

\* And an agent that was told of the end does not get back to where it is told.
ToldAt(a) == Continues /\ ends[a] > 0 /\ phase \notin {"firstlook", "started"} =>
    /\ phase # "start" /\ ends[a] = 1 /\ ~IsInGame(ses[a]) /\ pc[a] \in Between
    /\ ~Multiplayer => /\ phase = "parallel" => MultiThreaded
                       /\ pc[a] # "recheck"
                       /\ pc[a] # "done" \/ phase \in {"idle", "polling"} =>
                              settings.keeps_updating

ReportsOnce == settings.keeps_updating => MultiThreaded /\ ~Realtime /\ ~Failures
Once == ReportsOnce => \A a \in Agents : GoneAt(a) /\ ToldAt(a) /\ ends[a] <= 1

LEMMA HealthyKept ==
    ASSUME IInv, Owed, Healthy, [Next]_vars
    PROVE  Healthy'
<1> SUFFICES ASSUME ~Failures', NEW a \in Agents' PROVE Fair(ses[a])'
  BY DEF Healthy, Untroubled
<1>1. a \in Agents /\ ~Failures
  BY SettingsStay, SameAgents DEF Failures
<1>2. Fair(ses[a]) /\ Moves(a) /\ OwedAt(a)
  BY <1>1, EveryoneMoves DEF Healthy, Untroubled, Owed
<1>3. CASE Heard(a)
  BY <1>2, <1>3 DEF Heard, OwedAt, Fair
<1>4. ~Unheard(a)
  BY <1>1 DEF Unheard
<1> QED
  BY <1>2, <1>3, <1>4 DEF Moves, Still, Sent, Replied, RanOut, Unharmed, Fair

LEMMA LiveKept ==
    ASSUME IInv, Owed, [Next]_vars, NEW a \in Agents, LiveAt(a)
    PROVE  LiveAt(a)'
<1>1. /\ Moves(a) /\ OwedAt(a)
      /\ inst'[a] \in Games /\ "in_replay" \notin Games
      /\ NoResponse.status = "unknown"
  <2>1. IInv' /\ Agents' = Agents
    BY NextKeeps, SettingsStay, SameAgents
  <2> QED
    BY <2>1, EveryoneMoves DEF IInv, TypeOK, Owed, Games, Lost, NoResponse
<1>2. CASE Still(a)
  BY <1>2 DEF Still, LiveAt
<1>3. CASE \E t \in Types : Sent(a, t)
  BY <1>3 DEF Sent, LiveAt
<1>4. CASE Heard(a)
  BY <1>1, <1>4 DEF Heard, LiveAt
<1>5. CASE Unheard(a)
  BY <1>1, <1>5 DEF Unheard, LiveAt, Lost
<1>6. CASE Replied(a)
  BY <1>1, <1>6 DEF Replied, LiveAt
<1>7. CASE RanOut(a)
  BY <1>7 DEF RanOut, LiveAt
<1> QED
  BY <1>1, <1>2, <1>3, <1>4, <1>5, <1>6, <1>7 DEF Moves

\* Only JoinGame asks to join.
NobodyJoins == \A a \in Agents : asked'[a] = "join_game" => asked[a] = "join_game"

LEMMA AsksElse ==
    ASSUME IInv, NEW a \in Agents,
           \/ UNCHANGED game \/ Wait(a) \/ ResponseComes(a)
           \/ \E s, t : t # "join_game" /\ Request(a, s, t)
    PROVE  NobodyJoins
<1>1. asked' = asked \/ \E t : t # "join_game" /\ asked' = [asked EXCEPT ![a] = t]
  BY DEF game, Wait, ResponseComes, NoResponseComes, Request
<1> QED
  BY <1>1 DEF NobodyJoins, IInv, TypeOK

LEMMA AgentAsksElse ==
    ASSUME IInv, NEW a \in Agents, Agent(a)
    PROVE  NobodyJoins
<1>1. CASE SkipAgent(a)
  BY <1>1, AsksElse DEF SkipAgent, PollLeaveGame, game
<1>2. CASE Observe(a)
  BY <1>2, AsksElse DEF Observe, GetObservation
<1>3. CASE Step(a) \/ Recheck(a) \/ StayInGame(a)
  BY <1>3, AsksElse DEF Step, Recheck, StayInGame
<1>4. CASE WaitStep(a) \/ WaitObservation(a) \/ WaitQuery(a) \/ WaitActions(a)
  BY <1>4, AsksElse DEF WaitStep, WaitObservation, WaitQuery, WaitActions
<1>5. CASE EndGame(a)
  BY <1>5, AsksElse DEF EndGame, RequestLeaveGame
<1>6. CASE IssueEvents(a) \/ SendActions(a)
  BY <1>6, AsksElse DEF IssueEvents, SendActions
<1> QED
  BY <1>1, <1>2, <1>3, <1>4, <1>5, <1>6 DEF Agent

LEMMA GamesAskNobody ==
    ASSUME IInv, Game \/ GameOver
    PROVE  NobodyJoins
<1>1. CASE \E a \in Agents : AnswerOne(a)
  BY <1>1 DEF AnswerOne, NobodyJoins, IInv, TypeOK
<1>2. CASE \E t \in Synchronous : AnswerAll(t)
  BY <1>2 DEF AnswerAll, NobodyJoins
<1> QED
  BY <1>1, <1>2 DEF Game, GameOver, NobodyJoins

LEMMA StepAsksElse ==
    ASSUME IInv, [Next]_vars, ~RequestJoinGame
    PROVE  NobodyJoins
<1>1. 1 \in Agents /\ "create_game" # "join_game"
  BY NumberOfAgents
<1>2. CASE CreateGame \/ WaitCreateGame
  BY <1>1, <1>2, AsksElse DEF CreateGame, WaitCreateGame
<1>3. CASE WaitJoinGame \/ FirstLook \/ WaitFirstLook
  <2>1. turn \in Agents
    BY <1>3 DEF IInv, AtRest, WaitJoinGame, FirstLook, WaitFirstLook
  <2> QED
    BY <1>3, <2>1, AsksElse DEF WaitJoinGame, FirstLook, WaitFirstLook, GetObservation
<1>4. CASE LeaveGame
  BY <1>4 DEF LeaveGame, NobodyJoins
<1>5. CASE ConsumeFirst
  BY <1>5 DEF ConsumeFirst, ResponseComes, NobodyJoins
<1>6. CASE \E a \in Agents : Agent(a)
  BY <1>6, AgentAsksElse
<1>7. CASE UNCHANGED game
  BY <1>7 DEF game, NobodyJoins
<1> QED
  BY <1>2, <1>3, <1>4, <1>5, <1>6, <1>7, GamesAskNobody
  DEF Next, Run, StartGame, CheckJoinErrors, OnGameStart, NextStart, Update,
      BeginSecondLoop, NextAgent, ReturnFromUpdate, WaitForAllResponses, EndOfWait, Exit,
      vars

\* Where the thread is in StartGame does not depend on the agents and the games.
LEMMA JoinsKept ==
    ASSUME IInv, Owed, [Next]_vars, NEW a \in Agents, JoinsAt(a)
    PROVE  JoinsAt(a)'
<1> SUFFICES ASSUME asked'[a] = "join_game"
             PROVE  /\ phase' \in {"joining", "waitjoin"} \cup Ended
                    /\ phase' = "waitjoin" => a >= turn'
  BY DEF JoinsAt, Ended
<1>1. CASE RequestJoinGame
  BY <1>1 DEF RequestJoinGame, AfterJoinRequest, NextTurn, HasNext, Ended, Agents
<1>2. CASE ~RequestJoinGame
  <2>1. /\ asked[a] = "join_game"
        /\ phase \in {"joining", "waitjoin", "exited", "crashed"}
        /\ phase = "waitjoin" => a >= turn
    BY <1>2, StepAsksElse DEF NobodyJoins, JoinsAt, Ended
  <2>2. CASE WaitJoinGame
    <3>1. turn \in Agents /\ Wait(turn)
      BY <2>2 DEF IInv, AtRest, WaitJoinGame
    <3>2. Heard(turn) \/ Unheard(turn)
      BY <3>1, WaitEffect
    <3>3. OwedAt(turn)
      BY <3>1 DEF Owed
    <3>4. a # turn
      BY <3>2, <3>3 DEF Heard, Unheard, OwedAt
    <3>5. a > turn /\ turn < N
      BY <2>1, <2>2, <3>1, <3>4, NumberOfAgents DEF WaitJoinGame, Agents
    <3> QED
      BY <2>2, <3>1, <3>5, NumberOfAgents DEF WaitJoinGame, NextTurn, HasNext, Agents
  <2>3. CASE \E b \in Agents : Agent(b)
    BY <2>1, <2>3, EveryAgentKeeps DEF Frame, Ended
  <2>4. CASE UNCHANGED coordinator \/ Exit
    BY <2>1, <2>4 DEF Exit, Ended, coordinator
  <2> QED
    BY <1>2, <2>1, <2>2, <2>3, <2>4
    DEF Next, Run, StartGame, CreateGame, WaitCreateGame, CheckJoinErrors, FirstLook,
        WaitFirstLook, OnGameStart, NextStart, Update, BeginSecondLoop, NextAgent,
        ReturnFromUpdate, ConsumeFirst, EndOfWait, LeaveGame, WaitForAllResponses, Game,
        GameOver, AnswerOne, AnswerAll, vars
<1> QED
  BY <1>1, <1>2

LEMMA AgentKeepsPlace ==
    ASSUME IInv, NEW a \in Agents, NEW b \in Agents, PlaceAt(a), Agent(b)
    PROVE  PlaceAt(a)'
<1>1. /\ phase' = "start" => phase = "start"
      /\ phase' = "parallel" => phase = "parallel"
      /\ (MultiThreaded' <=> MultiThreaded) /\ (Realtime' <=> Realtime)
      /\ \A c \in Agents : c # b => pc'[c] = pc[c]
  BY EveryAgentKeeps DEF Frame, MultiThreaded, Realtime
<1>2. CASE a # b
  BY <1>1, <1>2 DEF PlaceAt
<1>3. CASE a = b
  <2>1. \A p : Goto(a, p) => pc'[a] = p
    BY DEF Goto, IInv, TypeOK
  <2>2. phase = "start" => pc'[a] \in {"done", "events", "query"}
    <3> SUFFICES ASSUME phase = "start" PROVE pc'[a] \in {"done", "events", "query"}
      OBVIOUS
    <3>1. pc[a] \in {"done", "events", "query"}
      BY DEF PlaceAt
    <3> QED
      BY <1>3, <2>1, <3>1
      DEF Agent, SkipAgent, Step, WaitStep, Observe, WaitObservation, Recheck, EndGame,
          StayInGame, IssueEvents, WaitQuery, SendActions, WaitActions, AfterEvents
  <2>3. ASSUME phase = "parallel", ~MultiThreaded
        PROVE  ~Realtime /\ pc'[a] \in Stepping \cup {"done", "poll"}
    <3>1. ~Realtime /\ pc[a] \in Stepping \cup {"done", "poll"} /\ AfterObservation = "done"
      BY <2>3 DEF PlaceAt, AfterObservation
    <3>2. CASE Observe(a)
      BY <2>1, <3>1, <3>2 DEF Observe, GetObservation, Stepping
    <3>3. CASE WaitObservation(a) \/ WaitStep(a)
      BY <2>1, <3>1, <3>3 DEF WaitObservation, WaitStep, Stepping
    <3> QED
      BY <1>3, <2>1, <3>1, <3>2, <3>3
      DEF Stepping, Agent, SkipAgent, Step, Recheck, EndGame, StayInGame, IssueEvents,
          WaitQuery, SendActions, WaitActions
  <2> QED
    BY <1>1, <2>2, <2>3 DEF PlaceAt, Stepping
<1> QED
  BY <1>2, <1>3

LEMMA PlaceKept ==
    ASSUME IInv, [Next]_vars, NEW a \in Agents, PlaceAt(a)
    PROVE  PlaceAt(a)'
<1>1. (MultiThreaded' <=> MultiThreaded) /\ (Realtime' <=> Realtime)
  BY SettingsStay DEF MultiThreaded, Realtime
<1>2. CASE \E b \in Agents : Agent(b)
  BY <1>2, AgentKeepsPlace
<1>3. CASE UNCHANGED <<phase, pc>>
  BY <1>1, <1>3 DEF PlaceAt, Stepping
<1>4. CASE Update
  BY <1>1, <1>4 DEF Update, Sequential, PlaceAt
<1>5. CASE OnGameStart \/ NextStart
  <2>1. pc \in [Agents -> Pcs] /\ (phase = "started" => pc[a] = "done")
    BY AllRest DEF IInv, TypeOK
  <2> QED
    BY <1>5, <2>1 DEF OnGameStart, NextStart, PlaceAt, Goto
<1>6. CASE phase' \notin {"start", "parallel"}
  BY <1>6 DEF PlaceAt
<1> QED
  BY <1>2, <1>3, <1>4, <1>5, <1>6
  DEF Next, Run, StartGame, CreateGame, WaitCreateGame, RequestJoinGame, AfterJoinRequest,
      NextTurn, WaitJoinGame, CheckJoinErrors, FirstLook, WaitFirstLook, BeginSecondLoop,
      NextAgent, ReturnFromUpdate, ConsumeFirst, EndOfWait, LeaveGame,
      WaitForAllResponses, Exit, Game, GameOver, AnswerOne, AnswerAll, coordinator,
      clients, vars

LEMMA OngoingKept ==
    ASSUME IInv, Owed, Ongoing, [Next]_vars
    PROVE  Ongoing'
BY SettingsStay, SameAgents, JoinsKept, LiveKept, PlaceKept DEF Ongoing

\* Who keeps updating has threads and games that do not fail, so they are in order.
LEMMA KeptInOrder ==
    ASSUME IInv, Refusals, Owed, Protocol, Healthy, ReportsOnce, settings.keeps_updating
    PROVE  Sound /\ MultiThreaded
<1>1. MultiThreaded /\ ~Realtime /\ ~Failures /\ Restartable
  BY DEF ReportsOnce, Restartable
<1>2. InOrder
  BY <1>1 DEF Healthy, Protocol
<1>3. Orderly
  BY <1>2 DEF InOrder, Refusals, Clean, Mild
<1> QED
  BY <1>1, <1>2, <1>3 DEF Sound

\* A game that goes on has gone on, or has just been started by all.
LEMMA ContinuesFromStart ==
    ASSUME IInv, Refusals, Owed, Protocol, Healthy, ReportsOnce, [Next]_vars, Continues',
           ~Continues
    PROVE  CheckJoinErrors /\ ~HasErrors
<1>1. settings.keeps_updating => ~HasErrors
  BY KeptInOrder DEF Sound, InOrder, HasErrors
<1>2. settings' = settings
  BY SettingsStay
<1>3. ~\E b \in Agents : Agent(b)
  BY EveryAgentKeeps DEF Frame, Continues
<1>4. phase \notin {"firstlook", "started", "start", "parallel", "sequence"}
  BY DEF Continues
<1>5. ~CreateGame /\ ~WaitCreateGame
  BY DEF CreateGame, WaitCreateGame, Continues
<1>6. ~RequestJoinGame /\ ~WaitJoinGame
  BY DEF RequestJoinGame, AfterJoinRequest, NextTurn, WaitJoinGame, Continues
<1>7. ~UNCHANGED <<phase, updated, settings>>
  BY DEF Continues
<1>8. ~(ConsumeFirst \/ EndOfWait \/ LeaveGame \/ WaitForAllResponses \/ Exit)
  BY <1>7
  DEF ConsumeFirst, EndOfWait, LeaveGame, WaitForAllResponses, Exit, Continues,
      coordinator, Outside, Ended
<1>9. CheckJoinErrors
  BY <1>2, <1>3, <1>4, <1>5, <1>6, <1>7, <1>8
  DEF Next, Run, StartGame, FirstLook, WaitFirstLook, OnGameStart, NextStart,
      Update, BeginSecondLoop, NextAgent, ReturnFromUpdate, Game, GameOver, AnswerOne,
      AnswerAll, Continues, coordinator, vars
<1> QED
  BY <1>1, <1>2, <1>9 DEF CheckJoinErrors, Continues

LEMMA GoneKept ==
    ASSUME IInv, Refusals, Owed, Protocol, Healthy, Ongoing, ReportsOnce, [Next]_vars,
           NEW a \in Agents, GoneAt(a)
    PROVE  GoneAt(a)'
<1> SUFFICES ASSUME Continues', ses'[a].app = "normal", ses'[a].status # "in_game"
             PROVE  inst'[a] # "in_game" /\ ready'[a].status # "in_game"
  BY DEF GoneAt
<1>1. /\ Moves(a) /\ LiveAt(a) /\ JoinsAt(a) /\ OwedAt(a)
      /\ NoResponse.status = "unknown"
  BY EveryoneMoves DEF Ongoing, Owed, NoResponse
<1>2. CASE Continues
  <2>1. asked[a] # "join_game"
    BY <1>1, <1>2 DEF JoinsAt, Continues, Ended
  <2>2. CASE Heard(a)
    BY <1>1, <2>2 DEF Heard, LiveAt
  <2>3. CASE Unheard(a)
    BY <1>1, <2>3 DEF Unheard
  <2>4. CASE Replied(a)
    BY <1>2, <2>1, <2>4 DEF Replied, GoneAt
  <2> QED
    BY <1>1, <1>2, <2>2, <2>3, <2>4 DEF Moves, Still, Sent, RanOut, GoneAt
<1>3. CASE ~Continues
  <2>1. CheckJoinErrors /\ ~HasErrors
    BY <1>3, ContinuesFromStart
  <2>2. Orderly /\ pc[a] = "done"
    BY <2>1, AllRest DEF CheckJoinErrors, HasErrors, Refusals, Clean, Mild
  <2>3. ses[a].pending = "none"
    BY <2>1, <2>2, OrderlyFacts DEF CheckJoinErrors, AskedAt, None, HasResponsePending
  <2>4. ready[a] = NoResponse
    BY <1>1, <2>3, NothingReady
  <2> QED
    BY <1>1, <2>1, <2>4 DEF CheckJoinErrors, LiveAt, clients, game
<1> QED
  BY <1>2, <1>3

\* An agent that is told stays out of the game, whatever its client hears.
LEMMA StaysOut ==
    ASSUME IInv, Ongoing, Continues, NEW a \in Agents, GoneAt(a), ~IsInGame(ses[a]),
           Still(a) \/ Heard(a) \/ ses'[a] = ses[a]
    PROVE  ~IsInGame(ses'[a])
<1>1. LiveAt(a)
  BY DEF Ongoing
<1> QED
  BY <1>1 DEF Still, Heard, LiveAt, GoneAt, IsInGame

\* What ToldAt says of an agent that was told, in a game that goes on.
Told(a) ==
    /\ phase \in {"parallel", "sequence", "idle", "polling"} /\ Continues
    /\ ends[a] = 1 /\ ~IsInGame(ses[a]) /\ pc[a] \in Between
    /\ ~Multiplayer => /\ phase = "parallel" => MultiThreaded
                       /\ pc[a] # "recheck"
                       /\ pc[a] # "done" \/ phase \in {"idle", "polling"} =>
                              settings.keeps_updating

LEMMA ToldStays ==
    ASSUME settings' = settings, NEW a \in Agents, Told(a), ends'[a] = ends[a],
           ~IsInGame(ses'[a]), pc'[a] = pc[a], UNCHANGED <<phase, updated>>
    PROVE  ToldAt(a)'
<1>1. (Multiplayer' <=> Multiplayer) /\ (MultiThreaded' <=> MultiThreaded)
  BY DEF Multiplayer, MultiThreaded, N
<1> QED
  BY <1>1 DEF Told, ToldAt, Between

\* PollLeaveGame lets nobody pass who was told.
LEMMA ToldIsSkipped ==
    ASSUME IInv, Refusals, Owed, Protocol, Healthy, Ongoing, ReportsOnce,
           NEW a \in Agents, Told(a), Agent(a)
    PROVE  SkipAgent(a) /\ (Still(a) \/ Heard(a))
<1>1. pc[a] \in {"poll", "recheck"} /\ phase # "crashed"
  BY DEF Told, Between, Agent, SkipAgent, Step, WaitStep, Observe, WaitObservation,
         Recheck, EndGame, StayInGame, IssueEvents, WaitQuery, SendActions, WaitActions
<1>2. ~Passes(a, pc[a])
  <2>1. CASE Multiplayer
    BY <2>1 DEF Passes, LeavesGame, Told
  <2>2. CASE ~Multiplayer
    <3>1. pc[a] = "poll" /\ settings.keeps_updating
      BY <1>1, <2>2 DEF Told
    <3>2. Sound
      BY <3>1, KeptInOrder
    <3>3. AskedAt(phase, pc[a], ses[a]) /\ LeftAt(ses[a], left)
      BY <3>2, SoundFacts
    <3>4. ~HasResponsePending(ses[a])
      BY <2>2, <3>1, <3>3 DEF Told, AskedAt, LeftAt, Between, HasResponsePending
    <3> QED
      BY <3>1, <3>4 DEF Told, Passes, IsFinishedGame
  <2> QED
    BY <2>1, <2>2
<1>3. SkipAgent(a)
  BY <1>1, <1>2
  DEF Agent, SkipAgent, Step, WaitStep, Observe, WaitObservation, Recheck, EndGame,
      StayInGame, IssueEvents, WaitQuery, SendActions, WaitActions
<1>4. CASE ses[a].pending = "leave_game" /\ PollResponse(a) /\ ses[a].app = "normal"
  BY <1>3, <1>4, ResponseEffect DEF SkipAgent, PollLeaveGame
<1>5. CASE ~(ses[a].pending = "leave_game" /\ PollResponse(a) /\ ses[a].app = "normal")
  <2>1. CASE UNCHANGED <<ses, game>>
    BY <1>3, <2>1, NoneCalled
  <2>2. CASE ses' = [ses EXCEPT ![a] = PollLeaveErrors(@)] /\ UNCHANGED game
    <3>1. ses' = [ses EXCEPT ![a] = PollLeaveErrors(ses[a])]
      BY <2>2 DEF IInv, TypeOK
    <3> QED
      BY <1>3, <2>2, <3>1, PollAlike, SessionAfter
  <2> QED
    BY <1>3, <1>5, <2>1, <2>2 DEF SkipAgent, PollLeaveGame
<1> QED
  BY <1>3, <1>4, <1>5

\* A step of agent b: it is told, or it changes nothing for those that were told.
LEMMA AgentToldKept ==
    ASSUME IInv, Refusals, Owed, Protocol, Healthy, Ongoing, ReportsOnce,
           NEW a \in Agents, GoneAt(a), ToldAt(a), ends[a] <= 1,
           NEW b \in Agents, Agent(b)
    PROVE  ToldAt(a)' /\ ends'[a] <= 1
<1>1. /\ settings' = settings /\ phase' \in {phase, "crashed"} /\ updated' = updated
      /\ phase \in {"parallel", "sequence", "start"} /\ Continues
      /\ \A c \in Agents : c # b => pc'[c] = pc[c]
      /\ Others(b) /\ Moves(b)
  <2>1. Frame(b) /\ OneCalled(b)
    BY EveryAgentKeeps, AgentMoves
  <2>2. settings' = settings
    BY <2>1 DEF Frame
  <2> QED
    BY <2>1, <2>2 DEF Frame, OneCalled, Continues
<1>2. /\ ends \in [Agents -> 0..2] /\ pc \in [Agents -> Pcs]
      /\ (Multiplayer' <=> Multiplayer) /\ (MultiThreaded' <=> MultiThreaded)
      /\ PlaceAt(a)
  BY <1>1 DEF IInv, TypeOK, Multiplayer, MultiThreaded, N, Ongoing
<1>3. CASE phase' = "crashed"
  <2>1. ends' = ends
    BY <1>1, <1>3
    DEF Agent, EndGame, coordinator, SkipAgent, Step, WaitStep, Observe, WaitObservation,
        Recheck, StayInGame, IssueEvents, WaitQuery, SendActions, WaitActions
  <2> QED
    BY <1>3, <2>1 DEF ToldAt, Continues
<1>4. CASE phase' = phase /\ EndGame(b) /\ a = b
  <2>1. /\ pc[a] \in {"call", "endcheck"} /\ ~IsInGame(ses[a]) /\ pc'[a] = "done"
        /\ ends' = [ends EXCEPT ![a] = IF @ = 2 THEN 2 ELSE @ + 1]
    BY <1>2, <1>4 DEF EndGame, AfterEnd, Goto
  <2>2. phase # "start" /\ (phase = "parallel" => MultiThreaded)
    BY <1>2, <2>1 DEF PlaceAt, Stepping
  <2>3. ends[a] = 0
    BY <1>1, <1>2, <2>1 DEF ToldAt, Between
  <2>4. ends'[a] = 1
    BY <1>2, <2>1, <2>3
  <2>5. ~IsInGame(ses'[a])
    <3>1. ses[a] \in SessionType /\ Alike(ses[a], ses[a])
      BY ClientTypes, PollAlike
    <3>2. CASE Multiplayer
      <4>1. Request(a, ses[a], "leave_game") /\ "leave_game" \in Types
        BY <1>4, <3>2, CoordinatorAssumption DEF EndGame, RequestLeaveGame
      <4>2. Sent(a, "leave_game") \/ Still(a)
        BY <3>1, <4>1, RequestEffect
      <4> QED
        BY <2>1, <4>2 DEF Sent, Still, IsInGame
    <3>3. CASE ~Multiplayer
      BY <1>4, <2>1, <3>3 DEF EndGame, RequestLeaveGame
    <3> QED
      BY <3>2, <3>3
  <2> QED
    BY <1>1, <1>2, <1>4, <2>1, <2>2, <2>4, <2>5 DEF ToldAt, Between
<1>5. CASE phase' = phase /\ ~(EndGame(b) /\ a = b)
  <2>1. ends'[a] = ends[a]
    BY <1>2, <1>5
    DEF Agent, EndGame, coordinator, SkipAgent, Step, WaitStep, Observe, WaitObservation,
        Recheck, StayInGame, IssueEvents, WaitQuery, SendActions, WaitActions
  <2>2. CASE ends[a] = 0
    BY <2>1, <2>2 DEF ToldAt
  <2>3. CASE ends[a] # 0
    <3>1. ends[a] > 0
      BY <1>2, <2>3
    <3>2. Told(a)
      BY <1>1, <3>1 DEF ToldAt, Told
    <3>3. CASE a # b
      <4>1. Still(a) /\ pc'[a] = pc[a]
        BY <1>1, <3>3 DEF Others
      <4>2. ~IsInGame(ses'[a])
        BY <3>2, <4>1 DEF Still, IsInGame, Told
      <4> QED
        BY <1>1, <1>5, <2>1, <3>2, <4>1, <4>2, ToldStays
    <3>4. CASE a = b
      <4>1. SkipAgent(a) /\ (Still(a) \/ Heard(a))
        BY <3>2, <3>4, ToldIsSkipped
      <4>2. pc'[a] = "done"
        BY <1>2, <4>1 DEF SkipAgent, Goto
      <4>3. ~IsInGame(ses'[a])
        BY <3>2, <4>1, StaysOut DEF Told
      <4> QED
        BY <1>1, <1>2, <1>5, <2>1, <3>2, <4>2, <4>3 DEF Told, ToldAt, Between
    <3> QED
      BY <2>1, <3>3, <3>4
  <2> QED
    BY <2>1, <2>2, <2>3
<1> QED
  BY <1>1, <1>3, <1>4, <1>5

\* In a step of the thread: who was told stays told, until OnGameStart.
LEMMA ThreadTold ==
    ASSUME IInv, Refusals, Owed, Protocol, Healthy, Ongoing, ReportsOnce,
           NEW a \in Agents, GoneAt(a), Told(a), Continues',
           Run \/ LeaveGame \/ WaitForAllResponses \/ Exit
    PROVE  ToldAt(a)' /\ ends'[a] = 1
<1>1. /\ settings' = settings /\ (Multiplayer' <=> Multiplayer)
      /\ (MultiThreaded' <=> MultiThreaded) /\ pc \in [Agents -> Pcs]
  <2>1. settings' = settings
    BY SettingsStay DEF Next
  <2> QED
    BY <2>1 DEF Multiplayer, MultiThreaded, N, IInv, TypeOK
<1>2. phase \in {"parallel", "sequence", "idle", "polling"} /\ ends[a] = 1
  BY DEF Told
<1>3. ~StartGame
  BY <1>2
  DEF StartGame, CreateGame, WaitCreateGame, RequestJoinGame, WaitJoinGame,
      CheckJoinErrors, FirstLook, WaitFirstLook, OnGameStart, NextStart, Continues
<1>4. CASE Update
  <2>1. ends' = ends /\ ses' = ses /\ updated' = updated /\ phase = "idle"
    BY <1>4 DEF Update
  <2>2. pc'[a] \in {"poll", pc[a]}
    BY <1>1, <1>4 DEF Update, Goto
  <2>3. ~Multiplayer => settings.keeps_updating /\ phase' = "parallel" /\ MultiThreaded
    BY <1>4, <2>1 DEF Told, ReportsOnce, Update, Sequential
  <2>4. phase' \in {"parallel", "sequence"}
    BY <1>4 DEF Update
  <2> QED
    BY <1>1, <1>2, <2>1, <2>2, <2>3, <2>4 DEF Told, ToldAt, Between, IsInGame
<1>5. CASE BeginSecondLoop \/ NextAgent
  <2>1. ends' = ends /\ ses' = ses /\ phase' = "sequence"
    BY <1>5 DEF BeginSecondLoop, NextAgent
  <2>2. Multiplayer
    <3>1. CASE BeginSecondLoop
      BY <3>1 DEF BeginSecondLoop, Told
    <3>2. CASE NextAgent
      BY <3>2, NumberOfAgents DEF NextAgent, IInv, AtRest, Multiplayer, Agents
    <3> QED
      BY <1>5, <3>1, <3>2
  <2>3. pc'[a] \in Between
    BY <1>1, <1>5 DEF BeginSecondLoop, NextAgent, Goto, Told, Between
  <2> QED
    BY <1>1, <1>2, <2>1, <2>2, <2>3 DEF Told, ToldAt, Between, IsInGame
<1>6. CASE ReturnFromUpdate
  <2>1. ends' = ends /\ ses' = ses /\ pc' = pc /\ phase' = "idle" /\ updated' = GoesOn
    BY <1>6 DEF ReturnFromUpdate, clients
  <2>2. ASSUME ~Multiplayer PROVE settings.keeps_updating
    <3> SUFFICES ASSUME ~settings.keeps_updating PROVE FALSE
      OBVIOUS
    <3>1. ~HasErrors /\ ~AllGamesEnded
      BY <1>1, <2>1 DEF Continues, GoesOn
    <3>2. Orderly
      BY <3>1 DEF HasErrors, Refusals, Clean, Mild
    <3>3. N = 1 /\ a = 1 /\ Agents = {1}
      BY <2>2, NumberOfAgents DEF Multiplayer, Agents
    <3>4. phase \in {"parallel", "sequence"} /\ pc[a] = "done"
      BY <1>6, <3>3 DEF ReturnFromUpdate
    <3>5. ses[a].pending \in {"none", "leave_game"}
      BY <3>2, <3>4, OrderlyFacts DEF AskedAt, Between
    <3>6. ~HasResponsePending(ses[a])
      BY <2>2, <3>2, <3>5, OrderlyFacts DEF LeftAt, HasResponsePending
    <3> QED
      BY <3>1, <3>3, <3>6 DEF AllGamesEnded, Told
  <2> QED
    BY <1>1, <1>2, <2>1, <2>2 DEF Told, ToldAt, Between, IsInGame
<1>7. CASE WaitForAllResponses \/ EndOfWait
  <2>1. /\ ends' = ends /\ ses' = ses /\ pc' = pc
        /\ phase' \in {"idle", "polling", "exited"} /\ phase \in {"idle", "polling"}
    BY <1>7 DEF WaitForAllResponses, EndOfWait, clients
  <2> QED
    BY <1>1, <1>2, <2>1 DEF Told, ToldAt, Between, IsInGame
<1>8. CASE ConsumeFirst
  <2>1. Still(a) \/ Heard(a)
    BY <1>8, ConsumeFirstMoves
  <2>2. UNCHANGED <<ends, pc, phase, updated>>
    BY <1>8 DEF ConsumeFirst, coordinator
  <2>3. ~IsInGame(ses'[a])
    BY <2>1, StaysOut DEF Told
  <2> QED
    BY <1>1, <1>2, <2>2, <2>3, ToldStays DEF Told
<1>9. ~LeaveGame
  BY DEF LeaveGame, Told
<1>10. ~Exit
  BY DEF Exit, Continues
<1> QED
  BY <1>3, <1>4, <1>5, <1>6, <1>7, <1>8, <1>9, <1>10 DEF Run

LEMMA ThreadToldKept ==
    ASSUME IInv, Refusals, Owed, Protocol, Healthy, Ongoing, ReportsOnce,
           NEW a \in Agents, GoneAt(a), ToldAt(a), ends[a] <= 1,
           Run \/ LeaveGame \/ WaitForAllResponses \/ Exit
    PROVE  ToldAt(a)' /\ ends'[a] <= 1
<1>1. ends[a] \in 0..2
  BY DEF IInv, TypeOK
<1>2. ends'[a] = 0 \/ (ends'[a] = ends[a] /\ phase # "started")
  BY DEF Run, StartGame, CreateGame, WaitCreateGame, RequestJoinGame, WaitJoinGame,
         CheckJoinErrors, FirstLook, WaitFirstLook, OnGameStart, NextStart, Update,
         BeginSecondLoop, NextAgent, ReturnFromUpdate, ConsumeFirst, EndOfWait, LeaveGame,
         WaitForAllResponses, Exit, Outside, Ended, coordinator, clients
<1>3. ends'[a] <= 1
  BY <1>1, <1>2
<1>4. CASE ends'[a] = 0 \/ ~Continues' \/ phase' \in {"firstlook", "started"}
  BY <1>3, <1>4 DEF ToldAt
<1>5. CASE ends'[a] # 0 /\ Continues' /\ phase' \notin {"firstlook", "started"}
  <2>1. ends[a] > 0 /\ phase # "started"
    BY <1>1, <1>2, <1>5
  <2>2. Continues
    BY <1>5, ContinuesFromStart DEF CheckJoinErrors, Next
  <2>3. phase # "firstlook"
    BY <1>5 DEF Run, StartGame, CreateGame, WaitCreateGame, RequestJoinGame, WaitJoinGame,
         CheckJoinErrors, FirstLook, WaitFirstLook, NextTurn, OnGameStart, NextStart,
         Update, BeginSecondLoop, NextAgent, ReturnFromUpdate, ConsumeFirst, EndOfWait,
         LeaveGame, WaitForAllResponses, Exit, Outside, Ended, Continues
  <2>4. Told(a)
    BY <2>1, <2>2, <2>3 DEF ToldAt, Told, Continues
  <2> QED
    BY <1>3, <1>5, <2>4, ThreadTold
<1> QED
  BY <1>4, <1>5

LEMMA OnceKept ==
    ASSUME IInv, Refusals, Owed, Protocol, Healthy, Ongoing, Once, [Next]_vars
    PROVE  Once'
<1> SUFFICES ASSUME ReportsOnce', NEW a \in Agents'
             PROVE  (GoneAt(a) /\ ToldAt(a) /\ ends[a] <= 1)'
  BY DEF Once
<1>1. settings' = settings /\ a \in Agents
  BY SettingsStay, SameAgents
<1>2. ReportsOnce
  BY <1>1 DEF ReportsOnce, MultiThreaded, Realtime, Failures
<1>3. GoneAt(a) /\ ToldAt(a) /\ ends[a] <= 1
  BY <1>1, <1>2 DEF Once
<1>4. GoneAt(a)'
  BY <1>1, <1>2, <1>3, GoneKept
<1>5. CASE \E b \in Agents : Agent(b)
  BY <1>1, <1>2, <1>3, <1>4, <1>5, AgentToldKept
<1>6. CASE Run \/ LeaveGame \/ WaitForAllResponses \/ Exit
  BY <1>1, <1>2, <1>3, <1>4, <1>6, ThreadToldKept
<1>7. CASE UNCHANGED <<coordinator, clients>>
  <2>1. UNCHANGED <<phase, updated, ends, ses, pc>>
    BY <1>7 DEF coordinator, clients
  <2>2. (Multiplayer' <=> Multiplayer) /\ (MultiThreaded' <=> MultiThreaded)
    BY <1>1 DEF Multiplayer, MultiThreaded, N
  <2> QED
    BY <1>1, <1>3, <1>4, <2>1, <2>2 DEF ToldAt, Continues, Between, IsInGame
<1> QED
  BY <1>5, <1>6, <1>7 DEF Next, Game, GameOver, AnswerOne, AnswerAll, vars

LEMMA InitOnce ==
    ASSUME Init PROVE Healthy /\ Ongoing /\ Once
<1> DEFINE s == [NewSession EXCEPT !.status = "launched", !.connected = TRUE]
<1>1. s.status = "launched" /\ s.errors = {}
  BY DEF NewSession
<1>2. ses = [a \in Agents |-> s]
  BY DEF Init
<1> HIDE DEF s
<1>3. ASSUME NEW a \in Agents
      PROVE  /\ Fair(ses[a]) /\ JoinsAt(a) /\ LiveAt(a) /\ PlaceAt(a)
             /\ GoneAt(a) /\ ToldAt(a) /\ ends[a] <= 1
  <2>1. /\ ses[a] = s /\ pc[a] = "done" /\ inst[a] = "launched" /\ asked[a] = "none"
        /\ ready[a] = NoResponse /\ phase = "idle" /\ ends[a] = 0
        /\ NoResponse.status = "unknown"
    BY <1>2 DEF Init, NoResponse
  <2> QED
    BY <1>1, <2>1 DEF Fair, JoinsAt, LiveAt, PlaceAt, GoneAt, ToldAt
<1> QED
  BY <1>3 DEF Healthy, Untroubled, Ongoing, Once

LEMMA OnceInvariance ==
    Spec => [](IInv /\ Refusals /\ Owed /\ Protocol /\ Healthy /\ Ongoing /\ Once)
<1>1. Init => IInv /\ Refusals /\ Owed /\ Protocol /\ Healthy /\ Ongoing /\ Once
  BY InitHolds, InitIsOrderly, InitOwed, InitProtocol, InitOnce
<1>2. IInv /\ Refusals /\ Owed /\ Protocol /\ Healthy /\ Ongoing /\ Once /\ [Next]_vars =>
          (IInv /\ Refusals /\ Owed /\ Protocol /\ Healthy /\ Ongoing /\ Once)'
  BY NextKeeps, RefusalsKept, OwedKept, ProtocolKept, HealthyKept, OngoingKept, OnceKept
<1> QED
  BY <1>1, <1>2, PTL DEF Spec

\* OnGameEnd is called at most once for an agent and a game, for any number of agents,
\* threads or none: an agent that was told is passed by until the next OnGameStart, in
\* whatever order its client hears the end, leaves, and Update is called again.
THEOREM EndIsReportedOnceAlways == Spec => []EndIsReportedOnce
<1>1. Once => EndIsReportedOnce
  BY DEF Once, ReportsOnce, EndIsReportedOnce
<1> QED
  BY <1>1, OnceInvariance, PTL

=============================================================================
