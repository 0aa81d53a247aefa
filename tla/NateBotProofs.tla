----------------------------- MODULE NateBotProofs -----------------------------
(***************************************************************************)
(* Why the throttle of NateBot::OnStep is enough where observations show   *)
(* an order within two game loops (ShortLag): the bot acts at even game    *)
(* loops, so that nothing it ordered is unseen when it acts again.         *)
(***************************************************************************)
EXTENDS NateBot, FiniteSetTheorems, SequenceTheorems, TLAPS

ShortLag == MaxLag <= 2

\* What a request may order to build, with one SCV at a time.
Single == Kinds \ {"command center"}

Ordering(i, w, k) == i \in DOMAIN sent /\ sent[i].order[w] = k

\* The SCVs that are not there have nothing to build, and no request reaches
\* one that is not trained yet.
Absent ==
    /\ \A w \in Workers \ alive : job[w] \notin Kinds
    /\ \A w \in unborn : \A k \in Kinds : \A i \in Nat : ~Ordering(i, w, k)
    /\ \A w \in onSite : job[w] \in Kinds

\* An order to build on its way was given at an even loop and is at most one
\* loop old.
Fresh ==
    \A i \in Nat, w \in Workers, k \in Kinds :
        Ordering(i, w, k) => \/ sent[i].age = 0 /\ loop % 2 = 0
                             \/ sent[i].age = 1 /\ loop % 2 = 1

\* It is the only one for its kind of structure, and then no SCV builds that.
Alone ==
    \A k \in Single :
        /\ \A i, j \in Nat, v, w \in Workers :
               Ordering(i, v, k) /\ Ordering(j, w, k) => i = j /\ v = w
        /\ \A i \in Nat, v, w \in Workers : Ordering(i, v, k) => job[w] # k
        /\ \A v, w \in Workers : job[v] = k /\ job[w] = k => v = w

IInv == TypeOK /\ Absent /\ Fresh /\ Alone

-----------------------------------------------------------------------------
(* Lemmas.                                                                 *)

\* OnStep acts at even game loops only.
LEMMA ActsAtEvenLoops ==
    ASSUME NEW l \in 0..11, Acts(l) PROVE l % 2 = 0
<1>1. CASE used >= FoodCap
  BY <1>1 DEF Acts
<1>2. CASE ~(used >= FoodCap)
  BY <1>2 DEF Acts
<1> QED
  BY <1>1, <1>2

\* The loop after an even one is odd.
LEMMA OddAfterEven ==
    ASSUME NEW l \in 0..11, l % 2 = 0 PROVE ((l + 1) % 12) % 2 = 1
  OBVIOUS

\* What is sent after a step was sent before, and is older, or is new.
LEMMA SendFacts ==
    ASSUME sent \in Seq(Request), NEW order \in [Workers -> Jobs \cup {"none"}],
           NEW s \in Nat, Send(order, s)
    PROVE  /\ sent' \in Seq(Request)
           /\ \A i \in DOMAIN sent' :
                 \/ /\ i \in DOMAIN sent
                    /\ sent'[i].order = sent[i].order
                    /\ sent'[i].age = sent[i].age + s
                 \/ /\ i = Len(sent) + 1
                    /\ sent'[i].order = order
                    /\ sent'[i].age = 0
<1> DEFINE older == [i \in DOMAIN sent |-> [sent[i] EXCEPT !.age = @ + s]]
           new == [order |-> order, age |-> 0]
<1>1. new \in Request
  BY DEF Request
<1>2. \A i \in DOMAIN sent : /\ sent[i] \in Request
                             /\ older[i] \in Request
                             /\ older[i].order = sent[i].order
                             /\ older[i].age = sent[i].age + s
  <2> TAKE i \in DOMAIN sent
  <2>1. sent[i] \in Request
    OBVIOUS
  <2>2. older[i] = [sent[i] EXCEPT !.age = @ + s]
    OBVIOUS
  <2> QED
    BY <2>1, <2>2 DEF Request
<1>3. DOMAIN sent = 1..Len(sent) /\ Len(sent) \in Nat
  OBVIOUS
<1>4. older \in Seq(Request) /\ Len(older) = Len(sent)
  <2>1. older \in [1..Len(sent) -> Request]
    BY <1>2, <1>3
  <2> QED
    BY <1>3, <2>1, LenProperties, SeqDef
<1>5. sent' = older \/ sent' = Append(older, new)
  BY DEF Send
<1> HIDE DEF older, new
<1>6. CASE sent' = older
  BY <1>2, <1>3, <1>4, <1>6
<1>7. CASE sent' = Append(older, new)
  <2>1. sent' \in Seq(Request)
    BY <1>1, <1>4, <1>7
  <2>2. DOMAIN sent' = 1..(Len(sent) + 1)
    BY <1>1, <1>3, <1>4, <1>7
  <2>3. \A i \in 1..Len(sent) : sent'[i] = older[i]
    BY <1>1, <1>3, <1>4, <1>7
  <2>4. sent'[Len(sent) + 1] = new
    BY <1>1, <1>3, <1>4, <1>7
  <2> QED
    BY <1>2, <1>3, <2>1, <2>2, <2>3, <2>4 DEF new
<1> QED
  BY <1>5, <1>6, <1>7

\* The commands of one step: of each kind of structure but command centers one
\* at most is ordered, if none is ordered as the observation shows it.
Sensible(c) ==
    /\ c \in [Workers -> Jobs \cup {"none"}]
    /\ \A w \in Workers : c[w] \in Kinds => w \in alive
    /\ \A k \in Single : \A v, w \in Workers : c[v] = k /\ c[w] = k => v = w
    /\ \A k \in Single : \A w \in Workers : c[w] = k => ~IsOrdered(k)
    /\ \A w \in Workers : c[w] = "fusion core" => Count("fusion core") < 1

\* OnStep gives such commands where it acts ...
LEMMA DecidesFacts ==
    ASSUME NateBotAssumption, NEW idle, NEW s, Decides(idle, s)
    PROVE  Acts(loop') /\ \E c : Sensible(c) /\ Send(c, s)
<1>1. PICK base \in BuildOrderBase, core \in BuildOrderCore, moved \in ManageWorkers,
           depot \in TryBuildSupplyDepot, refinery \in BuildRefinery,
           late \in TryBuildStructure("command center") :
           Send(Commands(idle, base, core, moved, depot, refinery, late), s)
  BY DEF Decides
<1>2. Sensible(Commands(idle, base, core, moved, depot, refinery, late))
  BY DEF NateBotAssumption, BuildOrderBase, BuildOrderCore, ManageWorkers,
         TryBuildSupplyDepot, BuildRefinery, TryBuildStructure, Commands, ToMine,
         Jobs, Kinds, Single, Sensible
<1> QED
  BY <1>1, <1>2 DEF Decides

\* ... and none to build where it does not.
LEMMA ThrottledFacts ==
    ASSUME NEW idle, NEW s, Throttled(idle, s)
    PROVE  \E c : /\ Sensible(c) /\ Send(c, s)
                  /\ \A w \in Workers : c[w] \notin Kinds
<1>1. ToMine(idle) \in [Workers -> Jobs \cup {"none"}]
  BY DEF ToMine, Jobs
<1>2. \A w \in Workers : ToMine(idle)[w] \notin Kinds
  BY DEF ToMine, Kinds
<1>3. "fusion core" \in Kinds
  BY DEF Kinds
<1>4. Sensible(ToMine(idle))
  BY <1>1, <1>2, <1>3 DEF Sensible, Single
<1> QED
  BY <1>2, <1>4 DEF Throttled

-----------------------------------------------------------------------------
(* The invariant is inductive.                                             *)

\* Steps that send nothing and order no SCV to build keep the orders apart.
LEMMA Quiet ==
    ASSUME IInv, sent' = sent, loop' = loop, unborn' \subseteq unborn,
           \A w \in Workers : job'[w] \in Kinds => job'[w] = job[w]
    PROVE  /\ \A w \in unborn' : \A k \in Kinds : \A i \in Nat : ~Ordering(i, w, k)'
           /\ Fresh'
           /\ Alone'
<1>1. \A i, w, k : Ordering(i, w, k)' <=> Ordering(i, w, k)
  BY DEF Ordering
<1>2. Single \subseteq Kinds
  BY DEF Single
<1>3. Fresh'
  BY <1>1 DEF IInv, Fresh
<1>4. Alone'
  BY <1>1, <1>2 DEF IInv, Alone
<1> QED
  BY <1>1, <1>3, <1>4 DEF IInv, Absent

LEMMA InitIInv ==
    ASSUME NateBotAssumption, Init PROVE IInv
<1>1. sent = <<>> /\ sent \in Seq(Request)
  BY EmptySeq DEF Init
<1>2. \A i, w, k : ~Ordering(i, w, k)
  <2>1. DOMAIN sent = {}
    BY <1>1
  <2> QED
    BY <2>1 DEF Ordering
<1>3. \A w \in Workers : job[w] = "mine"
  BY DEF Init
<1>4. \A k \in Kinds : k # "mine"
  BY DEF Kinds
<1>5. job \in [Workers -> Jobs] /\ built \in [Kinds -> Nat] /\ halted \in [Kinds -> Nat]
  BY DEF Init, Jobs
<1>6. TypeOK
  <2>1. loop \in 0..11
    <3>1. loop = 0
      BY DEF Init
    <3> QED
      BY <3>1
  <2>2. unborn \subseteq Workers
    BY Zenon DEF Init
  <2>3. alive \subseteq Workers \ unborn
    BY Zenon DEF Init
  <2>4. onSite \subseteq alive /\ lost \in Nat /\ used \in Foods
    BY DEF Init
  <2> QED
    BY <1>1, <1>5, <2>1, <2>2, <2>3, <2>4 DEF TypeOK
<1>7. Absent
  BY <1>2, <1>3, <1>4 DEF Absent, Init
<1>8. Fresh
  BY <1>2 DEF Fresh
<1>9. Alone
  BY <1>2, <1>3, <1>4 DEF Alone, Single
<1> QED
  BY <1>6, <1>7, <1>8, <1>9 DEF IInv

LEMMA ExecuteIInv ==
    ASSUME NateBotAssumption, IInv, Execute PROVE IInv'
<1> USE DEF IInv
<1>1. /\ sent \in Seq(Request)
      /\ sent # <<>>
      /\ sent' = Tail(sent)
      /\ job' = [w \in Workers |->
                    IF Head(sent).order[w] # "none" /\ w \in alive \ onSite
                    THEN Head(sent).order[w] ELSE job[w]]
  BY DEF TypeOK, Execute
<1>2. sent' \in Seq(Request) /\ 1 \in DOMAIN sent /\ Head(sent) = sent[1]
  BY <1>1
<1>3. \A i \in DOMAIN sent' : i \in Nat /\ i >= 1 /\ i + 1 \in DOMAIN sent /\ sent'[i] = sent[i + 1]
  BY <1>1
<1>4. sent[1] \in Request
  BY <1>1, <1>2
<1>5. \A i, w, k : Ordering(i, w, k)' => i \in Nat /\ i >= 1 /\ Ordering(i + 1, w, k)
  BY <1>3 DEF Ordering
<1>6. \A w \in Workers, k \in Kinds : job'[w] = k => job[w] = k \/ Ordering(1, w, k)
  BY <1>1, <1>2 DEF Ordering
<1>7. TypeOK'
  BY <1>1, <1>2, <1>4 DEF TypeOK, Execute, Request, structures
<1>8. Absent'
  <2>1. \A w \in Workers \ alive : job'[w] \notin Kinds
    BY <1>1 DEF Absent, TypeOK
  <2>2. \A w \in onSite : job'[w] \in Kinds
    BY <1>1 DEF Absent, TypeOK
  <2>3. \A w \in unborn : \A k \in Kinds : \A i \in Nat : ~Ordering(i, w, k)'
    BY <1>5 DEF Absent
  <2> QED
    BY <2>1, <2>2, <2>3 DEF Absent, Execute
<1>9. Fresh'
  <2> SUFFICES ASSUME NEW i \in Nat, NEW w \in Workers, NEW k \in Kinds, Ordering(i, w, k)'
               PROVE  (\/ sent[i].age = 0 /\ loop % 2 = 0
                       \/ sent[i].age = 1 /\ loop % 2 = 1)'
    BY DEF Fresh
  <2>1. Ordering(i + 1, w, k) /\ i + 1 \in Nat /\ sent'[i] = sent[i + 1]
    BY <1>3, <1>5 DEF Ordering
  <2> QED
    BY <2>1 DEF Fresh, Execute
<1>10. Alone'
  <2> SUFFICES ASSUME NEW k \in Single
               PROVE  (/\ \A i, j \in Nat, v, w \in Workers :
                            Ordering(i, v, k) /\ Ordering(j, w, k) => i = j /\ v = w
                       /\ \A i \in Nat, v, w \in Workers : Ordering(i, v, k) => job[w] # k
                       /\ \A v, w \in Workers : job[v] = k /\ job[w] = k => v = w)'
    BY DEF Alone
  <2>1. k \in Kinds
    BY DEF Single
  <2>2. \A i, j \in Nat, v, w \in Workers :
            Ordering(i, v, k)' /\ Ordering(j, w, k)' => i = j /\ v = w
    <3> SUFFICES ASSUME NEW i \in Nat, NEW j \in Nat, NEW v \in Workers, NEW w \in Workers,
                        Ordering(i, v, k)', Ordering(j, w, k)'
                 PROVE  i = j /\ v = w
      OBVIOUS
    <3>1. i + 1 = j + 1 /\ v = w
      BY <1>5 DEF Alone
    <3> QED
      BY <3>1
  <2>3. \A i \in Nat, v, w \in Workers : Ordering(i, v, k)' => job'[w] # k
    <3> SUFFICES ASSUME NEW i \in Nat, NEW v \in Workers, NEW w \in Workers,
                        Ordering(i, v, k)', job'[w] = k
                 PROVE  FALSE
      OBVIOUS
    <3>1. i + 1 \in Nat /\ i + 1 # 1 /\ Ordering(i + 1, v, k)
      BY <1>5
    <3>2. job[w] = k \/ Ordering(1, w, k)
      BY <1>6, <2>1
    <3> QED
      BY <3>1, <3>2 DEF Alone
  <2>4. \A v, w \in Workers : job'[v] = k /\ job'[w] = k => v = w
    BY <1>6, <2>1 DEF Alone
  <2> QED
    BY <2>2, <2>3, <2>4
<1> QED
  BY <1>7, <1>8, <1>9, <1>10

LEMMA FoodIInv ==
    ASSUME IInv, Food PROVE IInv'
<1>1. TypeOK'
  BY DEF IInv, TypeOK, Food, scvs, structures
<1> QED
  BY <1>1, Quiet DEF IInv, Absent, Food, scvs, structures

LEMMA ArriveIInv ==
    ASSUME IInv, NEW w \in Workers, Arrive(w) PROVE IInv'
<1>1. TypeOK'
  BY DEF IInv, TypeOK, Arrive, structures
<1> QED
  BY <1>1, Quiet DEF IInv, Absent, Arrive, structures

LEMMA FailIInv ==
    ASSUME IInv, NEW w \in Workers, Fail(w) PROVE IInv'
<1>1. TypeOK'
  BY DEF IInv, TypeOK, Fail, structures, Jobs
<1>2. "idle" \notin Kinds
  BY DEF Kinds
<1>3. \A v \in Workers : job'[v] = job[v] \/ (v = w /\ job'[v] = "idle")
  BY DEF Fail, IInv, TypeOK
<1> QED
  BY <1>1, <1>2, <1>3, Quiet DEF IInv, Absent, TypeOK, Fail

LEMMA FinishIInv ==
    ASSUME IInv, NEW w \in Workers, Finish(w) PROVE IInv'
<1>1. job[w] \in Kinds
  BY DEF IInv, Absent, Finish
<1>2. TypeOK'
  BY <1>1 DEF IInv, TypeOK, Finish, Jobs
<1>3. "idle" \notin Kinds
  BY DEF Kinds
<1>4. \A v \in Workers : job'[v] = job[v] \/ (v = w /\ job'[v] = "idle")
  BY DEF Finish, IInv, TypeOK
<1> QED
  BY <1>2, <1>3, <1>4, Quiet DEF IInv, Absent, TypeOK, Finish

LEMMA DieIInv ==
    ASSUME IInv, NEW w \in Workers, Die(w) PROVE IInv'
<1>1. w \in onSite => job[w] \in Kinds
  BY DEF IInv, Absent
<1>2. TypeOK'
  BY <1>1 DEF IInv, TypeOK, Die, Jobs
<1>3. "idle" \notin Kinds
  BY DEF Kinds
<1>4. \A v \in Workers : (job'[v] = job[v] /\ v # w) \/ (v = w /\ job'[v] = "idle")
  BY DEF Die, IInv, TypeOK
<1> QED
  BY <1>2, <1>3, <1>4, Quiet DEF IInv, Absent, TypeOK, Die

LEMMA TrainedIInv ==
    ASSUME IInv, NEW w \in Workers, Trained(w) PROVE IInv'
<1>1. TypeOK'
  BY DEF IInv, TypeOK, Trained, structures
<1> QED
  BY <1>1, Quiet DEF IInv, Absent, Trained

LEMMA DestroyedIInv ==
    ASSUME IInv, NEW k \in Kinds, Destroyed(k) PROVE IInv'
<1>1. TypeOK'
  <2>1. built' \in [Kinds -> Nat] /\ halted' \in [Kinds -> Nat]
    <3>1. CASE built[k] > 0 /\ built' = [built EXCEPT ![k] = @ - 1] /\ UNCHANGED halted
      <4>1. built[k] - 1 \in Nat
        BY <3>1 DEF IInv, TypeOK
      <4> QED
        BY <3>1, <4>1 DEF IInv, TypeOK
    <3>2. CASE halted[k] > 0 /\ halted' = [halted EXCEPT ![k] = @ - 1] /\ UNCHANGED built
      <4>1. halted[k] - 1 \in Nat
        BY <3>2 DEF IInv, TypeOK
      <4> QED
        BY <3>2, <4>1 DEF IInv, TypeOK
    <3> QED
      BY <3>1, <3>2 DEF Destroyed
  <2>2. lost' \in Nat
    <3>1. lost \in Nat /\ lost' = lost + 1
      BY DEF IInv, TypeOK, Destroyed
    <3> QED
      BY <3>1
  <2>3. UNCHANGED <<sent, loop, used, unborn, alive, job, onSite>>
    BY DEF Destroyed, scvs
  <2> QED
    BY <2>1, <2>2, <2>3 DEF IInv, TypeOK
<1> QED
  BY <1>1, Quiet DEF IInv, Absent, Destroyed, scvs

\* A step sends orders to build only when no order to build is on its way.
LEMMA StepIInv ==
    ASSUME NateBotAssumption, ShortLag, IInv, NEW s \in StepSizes, OnStep(s) PROVE IInv'
<1> USE DEF IInv
<1>1. /\ loop \in 0..11 /\ loop' \in 0..11 /\ loop' = (loop + s) % 12
      /\ s \in Nat /\ s >= 1 /\ MaxLag \in Nat
  BY DEF NateBotAssumption, OnStep, TypeOK
<1>2. \A i \in DOMAIN sent : sent[i].age \in Nat /\ sent[i].age + s < MaxLag
  <2>1. sent \in Seq(Request)
    BY DEF TypeOK
  <2>2. \A i \in DOMAIN sent : sent[i] \in Request
    BY <2>1
  <2> QED
    BY <2>2 DEF OnStep, Request
<1>3. \A i \in Nat, w \in Workers, k \in Kinds :
          Ordering(i, w, k) => sent[i].age = 0 /\ s = 1 /\ loop' % 2 = 1
  <2> SUFFICES ASSUME NEW i \in Nat, NEW w \in Workers, NEW k \in Kinds, Ordering(i, w, k)
               PROVE  sent[i].age = 0 /\ s = 1 /\ loop' % 2 = 1
    OBVIOUS
  <2>1. sent[i].age = 0 /\ s = 1
    BY <1>1, <1>2 DEF Ordering, ShortLag
  <2>2. loop % 2 = 0
    BY <2>1 DEF Fresh
  <2> QED
    BY <1>1, <2>1, <2>2, OddAfterEven
<1>4. PICK idle \in SUBSET Idle : Throttled(idle, s) \/ Decides(idle, s)
  BY DEF OnStep
<1>5. PICK order : /\ Sensible(order) /\ Send(order, s)
                   /\ \A w \in Workers : order[w] \in Kinds => loop' % 2 = 0
  <2>1. CASE Throttled(idle, s)
    BY <2>1, ThrottledFacts
  <2>2. CASE Decides(idle, s)
    <3>1. loop' % 2 = 0
      BY <1>1, <2>2, ActsAtEvenLoops, DecidesFacts
    <3> QED
      BY <2>2, <3>1, DecidesFacts
  <2> QED
    BY <1>4, <2>1, <2>2
<1>6. /\ sent' \in Seq(Request)
      /\ \A i \in DOMAIN sent' :
            \/ /\ i \in DOMAIN sent
               /\ sent'[i].order = sent[i].order
               /\ sent'[i].age = sent[i].age + s
            \/ /\ i = Len(sent) + 1
               /\ sent'[i].order = order
               /\ sent'[i].age = 0
  <2>1. sent \in Seq(Request)
    BY DEF TypeOK
  <2>2. order \in [Workers -> Jobs \cup {"none"}] /\ Send(order, s)
    BY <1>5 DEF Sensible
  <2> QED
    BY ONLY <1>1, <2>1, <2>2, SendFacts
<1>7. \A i \in Nat, w \in Workers, k \in Kinds : Ordering(i, w, k)' =>
          \/ /\ Ordering(i, w, k)
             /\ sent'[i].age = 1 /\ loop' % 2 = 1
          \/ /\ i = Len(sent) + 1 /\ order[w] = k
             /\ sent'[i].age = 0 /\ loop' % 2 = 0
  <2> SUFFICES ASSUME NEW i \in Nat, NEW w \in Workers, NEW k \in Kinds, Ordering(i, w, k)'
               PROVE  \/ /\ Ordering(i, w, k)
                         /\ sent'[i].age = 1 /\ loop' % 2 = 1
                      \/ /\ i = Len(sent) + 1 /\ order[w] = k
                         /\ sent'[i].age = 0 /\ loop' % 2 = 0
    OBVIOUS
  <2>1. i \in DOMAIN sent' /\ sent'[i].order[w] = k
    BY DEF Ordering
  <2>2. CASE i \in DOMAIN sent /\ sent'[i].order = sent[i].order
                               /\ sent'[i].age = sent[i].age + s
    <3>1. Ordering(i, w, k)
      BY <2>1, <2>2 DEF Ordering
    <3> QED
      BY <1>3, <2>2, <3>1
  <2>3. CASE i = Len(sent) + 1 /\ sent'[i].order = order /\ sent'[i].age = 0
    BY <1>5, <2>1, <2>3
  <2> QED
    BY <1>6, <2>1, <2>2, <2>3
<1>8. /\ unborn' = unborn /\ alive' = alive /\ job' = job /\ onSite' = onSite
      /\ built' = built /\ halted' = halted /\ lost' = lost /\ used' = used
  BY DEF OnStep, scvs, structures
<1>9. TypeOK'
  BY <1>1, <1>6, <1>8 DEF TypeOK
<1>10. Absent'
  <2>1. \A w \in unborn : w \in Workers /\ w \notin alive
    BY DEF TypeOK
  <2>2. \A w \in unborn : \A k \in Kinds : \A i \in Nat : ~Ordering(i, w, k)'
    <3> SUFFICES ASSUME NEW w \in unborn, NEW k \in Kinds, NEW i \in Nat, Ordering(i, w, k)'
                 PROVE  FALSE
      OBVIOUS
    <3>1. Ordering(i, w, k) \/ order[w] = k
      BY <1>7, <2>1
    <3> QED
      BY <1>5, <2>1, <3>1 DEF Absent, Sensible
  <2> QED
    BY <1>8, <2>2 DEF Absent
<1>11. Fresh'
  BY <1>7 DEF Fresh
<1>12. Alone'
  <2> SUFFICES ASSUME NEW k \in Single
               PROVE  (/\ \A i, j \in Nat, v, w \in Workers :
                            Ordering(i, v, k) /\ Ordering(j, w, k) => i = j /\ v = w
                       /\ \A i \in Nat, v, w \in Workers : Ordering(i, v, k) => job[w] # k
                       /\ \A v, w \in Workers : job[v] = k /\ job[w] = k => v = w)'
    BY DEF Alone
  <2>1. k \in Kinds
    BY DEF Single
  <2>2. \A i, j \in Nat, v, w \in Workers :
            Ordering(i, v, k)' /\ Ordering(j, w, k)' => i = j /\ v = w
    <3> SUFFICES ASSUME NEW i \in Nat, NEW j \in Nat, NEW v \in Workers, NEW w \in Workers,
                        Ordering(i, v, k)', Ordering(j, w, k)'
                 PROVE  i = j /\ v = w
      OBVIOUS
    <3>1. CASE loop' % 2 = 1
      <4>1. Ordering(i, v, k) /\ Ordering(j, w, k)
        BY <1>7, <2>1, <3>1
      <4> QED
        BY <4>1 DEF Alone
    <3>2. CASE loop' % 2 # 1
      <4>1. i = Len(sent) + 1 /\ j = Len(sent) + 1 /\ order[v] = k /\ order[w] = k
        BY <1>7, <2>1, <3>2
      <4> QED
        BY <1>5, <4>1 DEF Sensible
    <3> QED
      BY <3>1, <3>2
  <2>3. \A i \in Nat, v, w \in Workers : Ordering(i, v, k)' => job[w] # k
    <3> SUFFICES ASSUME NEW i \in Nat, NEW v \in Workers, NEW w \in Workers,
                        Ordering(i, v, k)', job[w] = k
                 PROVE  FALSE
      OBVIOUS
    <3>1. Ordering(i, v, k) \/ order[v] = k
      BY <1>7, <2>1
    <3>2. w \in alive
      BY <2>1 DEF Absent
    <3> QED
      BY <1>5, <3>1, <3>2 DEF Alone, IsOrdered, Sensible
  <2> QED
    BY <1>8, <2>2, <2>3 DEF Alone
<1> QED
  BY <1>9, <1>10, <1>11, <1>12

LEMMA NextIInv ==
    ASSUME NateBotAssumption, ShortLag, IInv, [Next]_vars PROVE IInv'
<1>1. CASE Game
  BY <1>1, ExecuteIInv, FoodIInv, ArriveIInv, FailIInv, FinishIInv, DieIInv,
     TrainedIInv, DestroyedIInv DEF Game
<1>2. CASE Step
  BY <1>2, StepIInv DEF Step
<1>3. CASE UNCHANGED vars
  <2>1. TypeOK'
    BY <1>3 DEF vars, IInv, TypeOK
  <2> QED
    BY <1>3, <2>1, Quiet DEF vars, IInv, Absent
<1> QED
  BY <1>1, <1>2, <1>3 DEF Next

\* Types are kept, and what keeps the orders of the bot apart (NateBot::OnStep).
THEOREM IInvAlways ==
    ASSUME ShortLag PROVE Spec => []IInv
<1>1. Init => IInv
  BY InitIInv, NateBotAssumption
<1>2. IInv /\ [Next]_vars => IInv'
  BY NextIInv, NateBotAssumption
<1> QED
  BY <1>1, <1>2, PTL DEF Spec

-----------------------------------------------------------------------------
(* Safety.                                                                 *)

LEMMA OneBuilderInv == ASSUME IInv PROVE OneBuilder
<1> SUFFICES ASSUME NEW k \in Single, NEW v \in Builders(k), NEW w \in Builders(k)
             PROVE  v = w
  BY DEF OneBuilder, AtMostOne, Single
<1>1. sent \in Seq(Request) /\ alive \subseteq Workers
  BY DEF IInv, TypeOK
<1>2. \A u \in Builders(k) :
          u \in Workers /\ (job[u] = k \/ \E i \in Nat : Ordering(i, u, k))
  BY <1>1 DEF Builders, Ordering
<1> QED
  BY <1>2 DEF IInv, Alone

\* The bot never sends two SCVs to build the same (bot_nate.cc, OnStep).
THEOREM OneBuilderAlways ==
    ASSUME ShortLag PROVE Spec => []OneBuilder
<1>1. IInv => OneBuilder
  BY OneBuilderInv
<1> QED
  BY <1>1, IInvAlways, PTL

Core == "fusion core"
Cores == built[Core] + halted[Core]

\* Who is to build a fusion core after a step of the game was before it.
LEMMA BuildersShrink ==
    ASSUME IInv, Game PROVE Builders(Core)' \subseteq Builders(Core)
<1>1. Core \in Kinds /\ Core # "idle"
  BY DEF Core, Kinds
<1>2. sent \in Seq(Request) /\ alive \subseteq Workers /\ job \in [Workers -> Jobs]
  BY DEF IInv, TypeOK
<1>3. CASE Execute
  <2>1. /\ sent # <<>> /\ sent' = Tail(sent) /\ alive' = alive
        /\ job' = [w \in Workers |->
                      IF Head(sent).order[w] # "none" /\ w \in alive \ onSite
                      THEN Head(sent).order[w] ELSE job[w]]
    BY <1>3 DEF Execute
  <2>2. 1 \in DOMAIN sent /\ Head(sent) = sent[1]
    BY <1>2, <2>1
  <2>3. \A i \in DOMAIN sent' : i + 1 \in DOMAIN sent /\ sent'[i] = sent[i + 1]
    BY <1>2, <2>1
  <2>4. \A w \in alive : job'[w] = Core => w \in Builders(Core)
    BY <1>2, <2>1, <2>2 DEF Builders
  <2>5. \A w \in alive : (\E i \in DOMAIN sent' : sent'[i].order[w] = Core) => w \in Builders(Core)
    BY <2>3 DEF Builders
  <2> QED
    BY <2>1, <2>4, <2>5 DEF Builders
<1>4. CASE Food
  BY <1>4 DEF Food, Builders, scvs
<1>5. ASSUME NEW w \in Workers, Arrive(w) PROVE Builders(Core)' \subseteq Builders(Core)
  BY <1>5 DEF Arrive, Builders
<1>6. ASSUME NEW w \in Workers, Fail(w) PROVE Builders(Core)' \subseteq Builders(Core)
  BY <1>1, <1>2, <1>6 DEF Fail, Builders
<1>7. ASSUME NEW w \in Workers, Finish(w) PROVE Builders(Core)' \subseteq Builders(Core)
  BY <1>1, <1>2, <1>7 DEF Finish, Builders
<1>8. ASSUME NEW w \in Workers, Die(w) PROVE Builders(Core)' \subseteq Builders(Core)
  BY <1>1, <1>2, <1>8 DEF Die, Builders
<1>9. ASSUME NEW w \in Workers, Trained(w) PROVE Builders(Core)' \subseteq Builders(Core)
  <2>1. w \in Workers \ alive /\ \A i \in Nat : ~Ordering(i, w, Core)
    BY <1>1, <1>9 DEF Trained, IInv, Absent, TypeOK
  <2>2. job[w] # Core /\ \A i \in DOMAIN sent : sent[i].order[w] # Core
    BY <1>1, <1>2, <2>1 DEF IInv, Absent, Ordering
  <2> QED
    BY <1>9, <2>2 DEF Trained, Builders
<1>10. ASSUME NEW k \in Kinds, Destroyed(k) PROVE Builders(Core)' \subseteq Builders(Core)
  BY <1>10 DEF Destroyed, Builders, scvs
<1> QED
  BY <1>3, <1>4, <1>5, <1>6, <1>7, <1>8, <1>9, <1>10 DEF Game

\* An SCV that finishes a fusion core, or dies at one, was the only one for it.
LEMMA CoreEnds ==
    ASSUME IInv, OneFusionCore, NEW w \in onSite, job[w] = Core,
           Finish(w) \/ Die(w), Builders(Core)' \subseteq Builders(Core)
    PROVE  Cores = 0 /\ Builders(Core)' = {}
<1>1. Core \in Single /\ Core # "idle"
  BY DEF Core, Kinds, Single
<1>2. w \in alive /\ w \in Workers /\ job \in [Workers -> Jobs] /\ sent \in Seq(Request)
  BY DEF IInv, TypeOK
<1>3. w \in Builders(Core)
  BY <1>2 DEF Builders
<1>4. Builders(Core) = {w}
  <2>1. OneBuilder
    BY OneBuilderInv
  <2>2. \A v \in Builders(Core) : v = w
    BY <1>1, <1>3, <2>1 DEF OneBuilder, AtMostOne, Single
  <2> QED
    BY <1>3, <2>2
<1>5. Cores = 0
  <2>1. built[Core] \in Nat /\ halted[Core] \in Nat
    BY <1>1 DEF IInv, TypeOK, Single
  <2>2. Cores <= 1 /\ (Cores = 1 => Builders(Core) = {})
    BY DEF OneFusionCore, Cores, Core
  <2> QED
    BY <1>3, <2>1, <2>2 DEF Cores
<1>6. \A i \in Nat : ~Ordering(i, w, Core)
  BY <1>1, <1>2 DEF IInv, Alone
<1>7. w \notin Builders(Core)'
  <2>1. sent' = sent /\ job'[w] = "idle"
    BY <1>2 DEF Finish, Die
  <2>2. \A i \in DOMAIN sent : sent[i].order[w] # Core
    BY <1>2, <1>6 DEF Ordering
  <2> QED
    BY <1>1, <2>1, <2>2 DEF Builders
<1> QED
  BY <1>4, <1>5, <1>7

LEMMA CoreGame ==
    ASSUME IInv, IInv', OneFusionCore, Game PROVE OneFusionCore'
<1> DEFINE Kept == \/ Cores' = Cores
                   \/ Cores' = Cores - 1
                   \/ Cores = 0 /\ Cores' = 1 /\ Builders(Core)' = {}
<1>1. Core \in Kinds
  BY DEF Core, Kinds
<1>2. /\ built \in [Kinds -> Nat] /\ halted \in [Kinds -> Nat]
      /\ built' \in [Kinds -> Nat] /\ halted' \in [Kinds -> Nat]
  BY DEF IInv, TypeOK
<1>3. Builders(Core)' \subseteq Builders(Core)
  BY BuildersShrink
<1>4. ASSUME Execute PROVE Kept
  BY <1>4 DEF Execute, Cores, structures
<1>5. ASSUME Food PROVE Kept
  BY <1>5 DEF Food, Cores, structures
<1>6. ASSUME NEW w \in Workers, Arrive(w) \/ Fail(w) \/ Trained(w) PROVE Kept
  BY <1>6 DEF Arrive, Fail, Trained, Cores, structures
<1>7. ASSUME NEW w \in Workers, Finish(w) PROVE Kept
  <2>1. w \in onSite /\ job[w] \in Kinds /\ halted' = halted
        /\ built' = [built EXCEPT ![job[w]] = @ + 1]
    BY <1>7 DEF Finish, IInv, Absent
  <2>2. CASE job[w] = Core
    <3>1. Cores = 0 /\ Builders(Core)' = {}
      BY <1>3, <1>7, <2>1, <2>2, CoreEnds
    <3> QED
      BY <1>1, <1>2, <2>1, <2>2, <3>1 DEF Cores
  <2>3. CASE job[w] # Core
    BY <1>1, <1>2, <2>1, <2>3 DEF Cores
  <2> QED
    BY <2>2, <2>3
<1>8. ASSUME NEW w \in Workers, Die(w) PROVE Kept
  <2>1. built' = built
        /\ halted' = IF w \in onSite THEN [halted EXCEPT ![job[w]] = @ + 1] ELSE halted
    BY <1>8 DEF Die
  <2>2. CASE w \in onSite /\ job[w] = Core
    <3>1. Cores = 0 /\ Builders(Core)' = {}
      BY <1>3, <1>8, <2>2, CoreEnds
    <3> QED
      BY <1>1, <1>2, <2>1, <2>2, <3>1 DEF Cores
  <2>3. CASE ~(w \in onSite /\ job[w] = Core)
    BY <1>1, <1>2, <2>1, <2>3 DEF Cores
  <2> QED
    BY <2>2, <2>3
<1>9. ASSUME NEW k \in Kinds, Destroyed(k) PROVE Kept
  <2>1. CASE built' = [built EXCEPT ![k] = @ - 1] /\ UNCHANGED halted
    BY <1>1, <1>2, <2>1 DEF Cores
  <2>2. CASE halted' = [halted EXCEPT ![k] = @ - 1] /\ UNCHANGED built
    BY <1>1, <1>2, <2>2 DEF Cores
  <2> QED
    BY <1>9, <2>1, <2>2 DEF Destroyed
<1>10. Kept
  <2> HIDE DEF Kept
  <2> QED
    BY <1>4, <1>5, <1>6, <1>7, <1>8, <1>9 DEF Game
<1>11. Cores \in Nat /\ Cores' \in Nat
  BY <1>1, <1>2 DEF Cores
<1>12. Cores <= 1 /\ (Cores = 1 => Builders(Core) = {})
  BY DEF OneFusionCore, Cores, Core
<1>13. Cores' <= 1 /\ (Cores' = 1 => Builders(Core)' = {})
  BY <1>3, <1>10, <1>11, <1>12
<1> QED
  BY <1>13 DEF OneFusionCore, Cores, Core

LEMMA CoreStep ==
    ASSUME NateBotAssumption, IInv, IInv', OneFusionCore, NEW s \in StepSizes, OnStep(s)
    PROVE  OneFusionCore'
<1>1. PICK c : Sensible(c) /\ Send(c, s)
  BY DecidesFacts, ThrottledFacts DEF OnStep
<1>2. built' = built /\ halted' = halted /\ alive' = alive /\ job' = job
  BY DEF OnStep, scvs, structures
<1>3. built[Core] \in Nat /\ halted[Core] \in Nat
  BY DEF Core, Kinds, IInv, TypeOK
<1>4. Count(Core) >= built[Core] + halted[Core]
  <2>1. IsFiniteSet(OnSite(Core))
    <3>1. OnSite(Core) \subseteq Workers
      BY DEF OnSite, IInv, TypeOK
    <3> QED
      BY <3>1, FS_Subset DEF NateBotAssumption
  <2>2. Cardinality(OnSite(Core)) \in Nat
    BY <2>1, FS_CardinalityType
  <2> QED
    BY <1>3, <2>2 DEF Count, Unfinished
<1>5. CASE built[Core] + halted[Core] = 1
  <2>1. \A w \in Workers : c[w] # Core
    <3>1. ~(Count(Core) < 1)
      <4>1. Count(Core) \in Int
        <5>1. OnSite(Core) \subseteq Workers
          BY DEF OnSite, IInv, TypeOK
        <5>2. Cardinality(OnSite(Core)) \in Nat
          BY <5>1, FS_Subset, FS_CardinalityType DEF NateBotAssumption
        <5> QED
          BY <1>3, <5>2 DEF Count, Unfinished
      <4> QED
        BY <1>3, <1>4, <1>5, <4>1
    <3> QED
      BY <1>1, <3>1 DEF Sensible, Core
  <2>2. /\ sent \in Seq(Request) /\ s \in Nat
        /\ c \in [Workers -> Jobs \cup {"none"}] /\ Send(c, s)
    BY <1>1 DEF NateBotAssumption, IInv, TypeOK, Sensible
  <2>3. \A i \in DOMAIN sent' : \/ i \in DOMAIN sent /\ sent'[i].order = sent[i].order
                               \/ sent'[i].order = c
    BY ONLY <2>2, SendFacts
  <2>4. alive \subseteq Workers
    BY DEF IInv, TypeOK
  <2>5. Builders(Core)' \subseteq Builders(Core)
    BY <1>2, <2>1, <2>3, <2>4 DEF Builders
  <2> QED
    BY <1>2, <1>5, <2>5 DEF OneFusionCore, Core
<1>6. CASE built[Core] + halted[Core] # 1
  BY <1>2, <1>6 DEF OneFusionCore, Core
<1> QED
  BY <1>5, <1>6

LEMMA InitCore == ASSUME Init PROVE OneFusionCore
<1>1. Core \in Kinds /\ Core # "command center"
  BY DEF Core, Kinds
<1>2. built[Core] = 0 /\ halted[Core] = 0
  BY <1>1 DEF Init
<1>3. built[Core] + halted[Core] <= 1 /\ built[Core] + halted[Core] # 1
  BY <1>2
<1> QED
  BY <1>3 DEF OneFusionCore, Core

\* The bot never has, or orders, a second fusion core (NateBot::BuildOrder).
THEOREM OneFusionCoreAlways ==
    ASSUME ShortLag PROVE Spec => []OneFusionCore
<1>1. Init => OneFusionCore
  BY InitCore
<1>2. IInv /\ IInv' /\ OneFusionCore /\ [Next]_vars => OneFusionCore'
  <2> SUFFICES ASSUME IInv, IInv', OneFusionCore, [Next]_vars PROVE OneFusionCore'
    OBVIOUS
  <2>1. CASE Game
    BY <2>1, CoreGame
  <2>2. CASE Step
    BY <2>2, CoreStep, NateBotAssumption DEF Step
  <2>3. CASE UNCHANGED vars
    BY <2>3 DEF vars, OneFusionCore, Builders
  <2> QED
    BY <2>1, <2>2, <2>3 DEF Next
<1> QED
  BY <1>1, <1>2, IInvAlways, PTL DEF Spec
=============================================================================
