----------------------------- MODULE ResponseBox -----------------------------
(***************************************************************************)
(* What the layers above sc2::Connection rely on, and all they rely on:    *)
(* a box of responses that belongs to one websocket at a time.  Responses  *)
(* come out in the order of the requests they answer, a wait that times    *)
(* out closes the box for good, and what is taken out of a box was put     *)
(* there by its own websocket.  The threads, the mutex and the shutdown    *)
(* protocol of the implementation are in module Connection.                *)
(***************************************************************************)
EXTENDS Integers, Sequences

CONSTANTS MaxEpoch,     \* websockets that may be opened, one after the other
          MaxRequests   \* requests that may be sent

VARIABLES current,      \* the websocket that feeds the box, 0 when there is none
          opened,       \* websockets opened so far
          box,          \* responses not yet taken, oldest first
          received      \* the last response that was taken out

boxVars == <<current, opened, box, received>>

Response == [req : 1..MaxRequests, via : 1..MaxEpoch]

\* Before the first response is taken.
NoResponse == [req |-> 0, via |-> 0]

\* Number of the request the newest response in the box (or the last one
\* taken) answers.
Newest == IF box = <<>> THEN received.req ELSE box[Len(box)].req

BoxInit ==
    /\ current = 0
    /\ opened = 0
    /\ box = <<>>
    /\ received = NoResponse

\* Connection::Connect succeeds.
Open ==
    /\ current = 0
    /\ opened < MaxEpoch
    /\ opened' = opened + 1
    /\ current' = opened + 1
    /\ UNCHANGED <<box, received>>

\* Connection::PushResponse: the answer to a request newer than all before.
Deliver ==
    /\ current # 0
    /\ \E r \in Response :
        /\ r.via = current
        /\ r.req > Newest
        /\ box' = Append(box, r)
    /\ UNCHANGED <<current, opened, received>>

\* Connection::Receive returns true.
Take ==
    /\ box # <<>>
    /\ received' = Head(box)
    /\ box' = Tail(box)
    /\ UNCHANGED <<current, opened>>

\* Connection::Receive gives up: nothing had arrived, and nothing will.
Expire ==
    /\ box = <<>>
    /\ current' = 0
    /\ UNCHANGED <<opened, box, received>>

\* Connection::Disconnect from ProtoInterface::Quit.
Close ==
    /\ current' = 0
    /\ box' = <<>>
    /\ UNCHANGED <<opened, received>>

BoxNext == Open \/ Deliver \/ Take \/ Expire \/ Close

BoxSpec == BoxInit /\ [][BoxNext]_boxVars
=============================================================================
