-------------------------- MODULE ProductionProofs ---------------------------
(***************************************************************************)
(* Proofs about Production, for all producers, productions, costs, prices, *)
(* durations and bounds.                                                   *)
(***************************************************************************)
EXTENDS Production, Sums, SequenceTheorems, TLAPS

(* What the frame has bought fits in the stock, and its steps on the stock *)
(* take no more than what was bought.                                      *)
Solvent ==
  /\ stock >= 0
  /\ pc # "idle" => stock >= spent /\ delta + spent >= 0

(* The operations of a frame are all applied when it ends, and the observer *)
(* runs within the update phase.                                            *)
PhasesOK ==
  /\ pc = "idle" => \A e \in Producers : ops[e] = << >>
  /\ victim # None => pc = "update"

TypeInv == TypeOK /\ Solvent /\ PhasesOK

-----------------------------------------------------------------------------
(* A queue without the production at one index is a queue, whose first      *)
(* production is the same unless the index is 1.                            *)
LEMMA RemoveAtFacts ==
  ASSUME NEW S, NEW q \in Seq(S), NEW i \in 1..Len(q)
  PROVE  /\ RemoveAt(q, i) \in Seq(S)
         /\ i # 1 => RemoveAt(q, i) # << >> /\ Head(RemoveAt(q, i)) = Head(q)
<1> DEFINE front == SubSeq(q, 1, i - 1)
           back == SubSeq(q, i + 1, Len(q))
<1>1. front \in Seq(S) /\ Len(front) = i - 1
  OBVIOUS
<1>2. back \in Seq(S)
  OBVIOUS
<1>3. RemoveAt(q, i) = front \o back
  BY DEF RemoveAt
<1> HIDE DEF front, back
<1>4. /\ front \o back \in Seq(S)
      /\ Len(front \o back) = Len(front) + Len(back)
      /\ \A j \in 1..(Len(front) + Len(back)) :
           (front \o back)[j] = IF j <= Len(front) THEN front[j] ELSE back[j - Len(front)]
  BY <1>1, <1>2, ConcatProperties
<1>5. ASSUME i # 1 PROVE front \o back # << >> /\ Head(front \o back) = Head(q)
  <2>1. front[1] = q[1] /\ Len(front) > 0
    BY <1>1, <1>5 DEF front
  <2>2. (front \o back)[1] = front[1] /\ Len(front \o back) > 0
    BY <1>2, <1>4, <2>1
  <2> QED
    BY <1>4, <2>1, <2>2
<1> QED
  BY <1>3, <1>4, <1>5

(* The same of apply_step, for any operation. *)
LEMMA OperatedFacts ==
  ASSUME NEW q \in Seq(Productions), NEW op \in Operation
  PROVE  /\ Operated(q, op) \in Seq(Productions)
         /\ op.at # 1 /\ q # << >> =>
              Operated(q, op) # << >> /\ Head(Operated(q, op)) = Head(q)
<1> DEFINE cut == IF op.at \in DOMAIN q THEN RemoveAt(q, op.at) ELSE q
<1>1. /\ cut \in Seq(Productions)
      /\ op.at # 1 /\ q # << >> => cut # << >> /\ Head(cut) = Head(q)
  <2>1. DOMAIN q = 1..Len(q)
    OBVIOUS
  <2>2. CASE op.at \in DOMAIN q
    BY <2>1, <2>2, RemoveAtFacts
  <2>3. CASE op.at \notin DOMAIN q
    BY <2>3
  <2> QED
    BY <2>2, <2>3
<1> HIDE DEF cut
<1>2. Operated(q, op) = IF op.add = None THEN cut ELSE Append(cut, op.add)
  BY DEF Operated, cut
<1>3. op.add # None => op.add \in Productions
  BY DEF Operation
<1>4. ASSUME NEW p \in Productions
      PROVE  /\ Append(cut, p) \in Seq(Productions)
             /\ Append(cut, p) # << >>
             /\ cut # << >> => Head(Append(cut, p)) = Head(cut)
  BY <1>1, <1>4
<1> QED
  BY <1>1, <1>2, <1>3, <1>4

(* The records that the steps on a queue are. *)
LEMMA OperationFacts ==
  /\ \A p \in Productions : Addition(p) \in Operation /\ Addition(p).at = 0
  /\ \A i \in Nat : Removal(i) \in Operation /\ Removal(i).at = i
BY DEF Addition, Removal, Operation

-----------------------------------------------------------------------------
(* The first states have all of it: nothing is spent yet. *)
LEMMA TypeInvInit == Init => TypeInv
<1> SUFFICES ASSUME Init PROVE TypeInv
  OBVIOUS
<1>1. queue \in [Producers -> Seq(Productions)]
  <2>1. {<< >>} \union {<<p>> : p \in Productions} \subseteq Seq(Productions)
    <3>1. << >> \in Seq(Productions)
      OBVIOUS
    <3>2. ASSUME NEW p \in Productions PROVE <<p>> \in Seq(Productions)
      OBVIOUS
    <3> QED
      BY <3>1, <3>2, Zenon
  <2> QED
    BY <2>1, Zenon DEF Init
<1> QED
  BY <1>1, ConstantsAssumption
  DEF Init, ConstantsAssumption, TypeInv, TypeOK, Solvent, PhasesOK, Operation

(* An addition that was paid for. *)
LEMMA BuyFacts ==
  ASSUME TypeInv, NEW e \in Producers, NEW p \in Productions, Buy(e, p), pc # "idle"
  PROVE  /\ ops' \in [Producers -> Seq(Operation)]
         /\ ops' = [ops EXCEPT ![e] = Append(@, Addition(p))]
         /\ spent' \in Nat /\ delta' \in Int
         /\ stock >= spent' /\ delta' + spent' >= 0
<1>1. Cost[p] \in Nat
  BY ConstantsAssumption DEF ConstantsAssumption
<1>2. ops \in [Producers -> Seq(Operation)] /\ spent \in Nat /\ delta \in Int /\ stock \in Int
      /\ stock >= spent /\ delta + spent >= 0
  BY DEF TypeInv, TypeOK, Solvent
<1>3. ops' \in [Producers -> Seq(Operation)]
  BY <1>2, OperationFacts DEF Buy
<1> QED
  BY <1>1, <1>2, <1>3 DEF Buy

(* A cancellation, by a player or by the observer. *)
LEMMA CancelFacts ==
  ASSUME TypeInv, NEW e \in Producers, NEW i \in DOMAIN queue[e], Cancel(e, i), pc # "idle"
  PROVE  /\ ops' \in [Producers -> Seq(Operation)]
         /\ stamp' \in [Producers -> {"none", "now", "reset"}]
         /\ spent' = spent /\ delta' \in Int
         /\ delta' + spent >= 0
         /\ clashed' \in {"no", "now", "before"}
<1>1. queue[e] \in Seq(Productions)
  BY DEF TypeInv, TypeOK
<1>2. i \in Nat /\ queue[e][i] \in Productions
  BY <1>1
<1>3. Price[queue[e][i]] \in Nat
  BY <1>2, ConstantsAssumption DEF ConstantsAssumption
<1>4. ops' \in [Producers -> Seq(Operation)]
  <2>1. ops \in [Producers -> Seq(Operation)] /\ Removal(i) \in Operation
    BY <1>2, OperationFacts DEF TypeInv, TypeOK
  <2>2. ops' = [ops EXCEPT ![e] = Append(@, Removal(i))]
    BY DEF Cancel
  <2> QED
    BY <2>1, <2>2
<1>5. delta' \in Int /\ delta' + spent >= 0 /\ spent' = spent
  <2>1. delta \in Int /\ spent \in Nat /\ delta + spent >= 0
    BY DEF TypeInv, TypeOK, Solvent
  <2>2. delta' = delta + Price[queue[e][i]] /\ spent' = spent
    BY DEF Cancel
  <2> HIDE DEF Cancel
  <2> QED
    BY <1>3, <2>1, <2>2
<1>6. stamp' \in [Producers -> {"none", "now", "reset"}]
  BY DEF Cancel, TypeInv, TypeOK
<1> QED
  BY <1>4, <1>5, <1>6 DEF Cancel, TypeInv, TypeOK


(* Every step keeps the types, the bound on what is spent, and the phases. *)
LEMMA TypeInvNext == TypeInv /\ [Next]_vars => TypeInv'
<1> SUFFICES ASSUME TypeInv, [Next]_vars PROVE TypeInv'
  OBVIOUS
<1> USE DEF TypeInv
<1>1. CASE BeginFrame
  <2>1. since' \in [Producers -> Nat]
    BY <1>1 DEF BeginFrame, TypeOK
  <2> QED
    BY <1>1, <2>1 DEF BeginFrame, TypeOK, Solvent, PhasesOK, producers, observer
<1>2. ASSUME NEW e \in Producers, Destroy(e) PROVE TypeInv'
  BY <1>2 DEF Destroy, TypeOK, Solvent, PhasesOK
<1>3. CASE CancelOfDestroyed
  <2>1. victim \in Producers /\ index \in DOMAIN queue[victim] /\ pc = "update"
    BY <1>3 DEF CancelOfDestroyed, TypeOK, PhasesOK
  <2>2. Cancel(victim, index)
    BY <1>3 DEF CancelOfDestroyed
  <2>3. /\ ops' \in [Producers -> Seq(Operation)]
        /\ stamp' \in [Producers -> {"none", "now", "reset"}]
        /\ spent' = spent /\ delta' \in Int
        /\ delta' + spent >= 0
        /\ clashed' \in {"no", "now", "before"}
    BY <2>1, <2>2, CancelFacts
  <2>4. UNCHANGED <<queue, age, alive, early, stock, pc, victim, since>>
    BY <1>3 DEF CancelOfDestroyed, producers
  <2>5. index' \in Nat \ {0}
    BY <1>3 DEF CancelOfDestroyed, TypeOK
  <2> QED
    BY <2>1, <2>3, <2>4, <2>5 DEF TypeOK, Solvent, PhasesOK
<1>4. CASE AllCancelled
  BY <1>4 DEF AllCancelled, TypeOK, Solvent, PhasesOK, producers
<1>5. CASE ProductionSystem
  <2>1. ops' \in [Producers -> Seq(Operation)]
    <3>1. ASSUME NEW e \in Producers PROVE Append(ops[e], Removal(1)) \in Seq(Operation)
      BY OperationFacts DEF TypeOK
    <3>2. ops' = [e \in Producers |-> IF Ends(e) THEN Append(ops[e], Removal(1)) ELSE ops[e]]
      BY <1>5 DEF ProductionSystem
    <3> QED
      BY <3>1, <3>2 DEF TypeOK
  <2>2. stamp' \in [Producers -> {"none", "now", "reset"}]
    BY <1>5 DEF ProductionSystem, TypeOK
  <2>3. /\ UNCHANGED <<producers, stock, spent, delta, observer, since, clashed>>
        /\ pc = "update" /\ victim = None /\ pc' = "adds"
    BY <1>5 DEF ProductionSystem
  <2> QED
    BY <2>1, <2>2, <2>3 DEF TypeOK, Solvent, PhasesOK, producers, observer
<1>6. ASSUME NEW e \in Producers, NEW p \in Productions, Buy(e, p), pc \in {"adds", "orders"},
             UNCHANGED <<producers, stock, pc, stamp, observer, since, made, clashed>>
      PROVE  TypeInv'
  <2>1. /\ ops' \in [Producers -> Seq(Operation)]
        /\ spent' \in Nat /\ delta' \in Int
        /\ stock >= spent' /\ delta' + spent' >= 0
    BY <1>6, BuyFacts
  <2> QED
    BY <1>6, <2>1 DEF TypeOK, Solvent, PhasesOK, producers, observer
<1>7. ASSUME NEW e \in Producers, NEW p \in Productions, AddProduction(e, p) PROVE TypeInv'
  BY <1>6, <1>7 DEF AddProduction
<1>8. ASSUME NEW p \in Productions, NewProduction(p) PROVE TypeInv'
  BY <1>6, <1>8 DEF NewProduction
<1>9. ASSUME NEW e \in Producers, NEW i \in DOMAIN queue[e], CancelProduction(e, i)
      PROVE TypeInv'
  <2>1. /\ ops' \in [Producers -> Seq(Operation)]
        /\ stamp' \in [Producers -> {"none", "now", "reset"}]
        /\ spent' = spent /\ delta' \in Int
        /\ delta' + spent >= 0
        /\ clashed' \in {"no", "now", "before"}
    BY <1>9, CancelFacts DEF CancelProduction
  <2>2. UNCHANGED <<producers, stock, pc, observer, since, made>> /\ pc = "cancels"
    BY <1>9 DEF CancelProduction
  <2> QED
    BY <2>1, <2>2 DEF TypeOK, Solvent, PhasesOK, producers, observer
<1>10. CASE NextInputs
  BY <1>10 DEF NextInputs, TypeOK, Solvent, PhasesOK, producers, observer
<1>11. CASE ApplyOperations
  <2>1. queue' \in [Producers -> Seq(Productions)]
    <3>1. ASSUME NEW e \in Producers, ops[e] # << >>
          PROVE  Operated(queue[e], Head(ops[e])) \in Seq(Productions)
      <4>1. queue[e] \in Seq(Productions) /\ Head(ops[e]) \in Operation
        BY <3>1 DEF TypeOK
      <4> QED
        BY <4>1, OperatedFacts
    <3>2. queue' = [e \in Producers |->
            IF ops[e] = << >> THEN queue[e] ELSE Operated(queue[e], Head(ops[e]))]
      BY <1>11 DEF ApplyOperations
    <3> QED
      BY <3>1, <3>2 DEF TypeOK
  <2>2. ops' \in [Producers -> Seq(Operation)]
    BY <1>11 DEF ApplyOperations, TypeOK
  <2>3. since' \in [Producers -> Nat]
    BY <1>11 DEF ApplyOperations, TypeOK
  <2>4. /\ UNCHANGED <<age, alive, early, stock, spent, pc, stamp, delta, observer, made,
                       clashed>>
        /\ pc = "apply"
    BY <1>11 DEF ApplyOperations
  <2> QED
    BY <2>1, <2>2, <2>3, <2>4 DEF TypeOK, Solvent, PhasesOK, observer
<1>12. CASE EndFrame
  <2>1. age' \in [Producers -> Nat]
    <3>1. ASSUME NEW e \in Producers
          PROVE  (CASE stamp[e] = "now"   -> IF early THEN 0 ELSE 1
                    [] stamp[e] = "reset" -> 0
                    [] stamp[e] = "none"  -> IF age[e] = 0 \/ ~ alive[e] THEN age[e]
                                             ELSE age[e] + 1) \in Nat
      BY DEF TypeOK
    <3> QED
      BY <1>12, <3>1 DEF EndFrame
  <2>2. stock' \in Int /\ stock' >= 0
    BY <1>12 DEF EndFrame, TypeOK, Solvent
  <2>3. /\ UNCHANGED <<queue, alive, spent, ops, stamp, delta, observer, since, made>>
        /\ early' = FALSE /\ pc' = "idle" /\ clashed' \in {"no", "before"}
        /\ pc = "apply" /\ \A e \in Producers : ops[e] = << >>
    BY <1>12 DEF EndFrame
  <2> QED
    BY <2>1, <2>2, <2>3 DEF TypeOK, Solvent, PhasesOK, observer
<1>13. CASE UNCHANGED vars
  BY <1>13 DEF vars, producers, observer, TypeOK, Solvent, PhasesOK
<1> QED
  BY <1>1, <1>2, <1>3, <1>4, <1>5, <1>7, <1>8, <1>9, <1>10, <1>11, <1>12, <1>13 DEF Next

(* All three hold of every state. *)
THEOREM TypeInvAlways == Spec => []TypeInv
<1> QED
  BY TypeInvInit, TypeInvNext, PTL DEF Spec

(* The data of the producers and of the frame keep their shape. *)
THEOREM TypeCorrect == Spec => []TypeOK
<1>1. TypeInv => TypeOK
  BY DEF TypeInv
<1> QED
  BY <1>1, TypeInvAlways, PTL

(* However many orders and cancellations a frame takes, for any costs and   *)
(* prices: check_resources and spend_resources keep the stock above zero.   *)
THEOREM NoOverspendHolds == Spec => []NoOverspend
<1>1. TypeInv => NoOverspend
  BY DEF TypeInv, TypeOK, Solvent, NoOverspend
<1> QED
  BY <1>1, TypeInvAlways, PTL

-----------------------------------------------------------------------------
(* How the age that the production system keeps follows the frames that the *)
(* first production could use, of a producer that is not disabled.          *)
Limit(p) == IF Duration[p] < 2 THEN 2 ELSE Duration[p]

(* No operation, or some operation, on the way removes the first production. *)
HeadKept(e) == \A i \in 1..Len(ops[e]) : ops[e][i].at # 1
HeadRemoved(e) == \E i \in 1..Len(ops[e]) : ops[e][i].at = 1

(* An age is that of a production that has not lasted. *)
Underway(e) ==
  age[e] # 0 => ~ early /\ queue[e] # << >> /\ age[e] < Limit(Head(queue[e]))

(* Between frames. *)
Between(e) == since[e] = age[e] /\ Underway(e)

(* Before the production system. *)
Unvisited(e) ==
  /\ ops[e] = << >> /\ stamp[e] = "none"
  /\ since[e] = IF queue[e] = << >> \/ early THEN 0 ELSE age[e] + 1
  /\ Underway(e)

(* After it: the timestamp stays, is written, or is given back. *)
Kept(e) ==
  /\ HeadKept(e)
  /\ age[e] = 0 => since[e] = 0
  /\ age[e] # 0 => /\ ~ early /\ queue[e] # << >>
                   /\ since[e] = age[e] + 1 /\ since[e] < Limit(Head(queue[e]))
Started(e) ==
  /\ HeadKept(e) /\ queue[e] # << >> /\ age[e] = 0
  /\ since[e] = IF early THEN 0 ELSE 1
Left(e) ==
  since[e] # 0 =>
    HeadRemoved(e) /\ queue[e] # << >> /\ since[e] <= Limit(Head(queue[e]))

Timed(e) ==
  /\ pc = "idle" => Between(e)
  /\ pc = "update" => Unvisited(e)
  /\ pc \notin {"idle", "update"} =>
       /\ stamp[e] = "none" => Kept(e)
       /\ stamp[e] = "now" => Started(e)
       /\ stamp[e] = "reset" => Left(e)

Clock ==
  /\ \A e \in Producers : alive[e] => Timed(e)
  /\ victim # None => ~ alive[victim]

(* An operation more, or one less, on the way to a queue. *)
LEMMA AppendOperation ==
  ASSUME TypeOK, NEW e \in Producers, NEW op \in Operation, ops'[e] = Append(ops[e], op)
  PROVE  /\ HeadKept(e) /\ op.at # 1 => HeadKept(e)'
         /\ HeadRemoved(e) \/ op.at = 1 => HeadRemoved(e)'
<1>1. ops[e] \in Seq(Operation)
  BY DEF TypeOK
<1>2. /\ Len(ops'[e]) = Len(ops[e]) + 1
      /\ \A i \in 1..Len(ops[e]) : ops'[e][i] = ops[e][i]
      /\ ops'[e][Len(ops[e]) + 1] = op
  BY <1>1, AppendProperties
<1>3. Len(ops[e]) \in Nat
  BY <1>1
<1>4. ASSUME HeadKept(e), op.at # 1 PROVE HeadKept(e)'
  BY <1>2, <1>3, <1>4 DEF HeadKept
<1>5. ASSUME HeadRemoved(e) PROVE HeadRemoved(e)'
  BY <1>2, <1>3, <1>5 DEF HeadRemoved
<1>6. ASSUME op.at = 1 PROVE HeadRemoved(e)'
  BY <1>2, <1>3, <1>6 DEF HeadRemoved
<1> QED
  BY <1>4, <1>5, <1>6

(* The same when the first one has been applied. *)
LEMMA NextOperation ==
  ASSUME TypeOK, NEW e \in Producers, ops[e] # << >>, ops'[e] = Tail(ops[e])
  PROVE  /\ HeadKept(e) => HeadKept(e)' /\ Head(ops[e]).at # 1
         /\ HeadRemoved(e) /\ Head(ops[e]).at # 1 => HeadRemoved(e)'
<1>1. ops[e] \in Seq(Operation) /\ Len(ops[e]) \in Nat \ {0}
  BY DEF TypeOK
<1>2. /\ Len(ops'[e]) = Len(ops[e]) - 1
      /\ \A i \in 1..Len(ops'[e]) : ops'[e][i] = ops[e][i + 1]
  BY <1>1, HeadTailProperties
<1>3. Head(ops[e]) = ops[e][1]
  BY <1>1
<1>4. ASSUME HeadKept(e) PROVE HeadKept(e)' /\ Head(ops[e]).at # 1
  BY <1>1, <1>2, <1>3, <1>4 DEF HeadKept
<1>5. ASSUME HeadRemoved(e), Head(ops[e]).at # 1 PROVE HeadRemoved(e)'
  <2>1. PICK i \in 1..Len(ops[e]) : ops[e][i].at = 1
    BY <1>5 DEF HeadRemoved
  <2>2. i - 1 \in 1..Len(ops'[e]) /\ ops'[e][i - 1] = ops[e][i]
    <3>1. i # 1
      BY <1>3, <1>5, <2>1
    <3> DEFINE j == i - 1
    <3>2. j \in 1..Len(ops'[e]) /\ j + 1 = i
      BY <1>1, <1>2, <2>1, <3>1
    <3> HIDE DEF j
    <3>3. ops'[e][j] = ops[e][j + 1]
      BY <1>2, <3>2
    <3> USE DEF j
    <3> QED
      BY <3>2, <3>3
  <2> QED
    BY <2>1, <2>2 DEF HeadRemoved
<1> QED
  BY <1>4, <1>5

(* A step that leaves a producer alone. *)
LEMMA TimedUnchanged ==
  ASSUME NEW e \in Producers, Timed(e),
         ops'[e] = ops[e], stamp'[e] = stamp[e], queue'[e] = queue[e],
         age'[e] = age[e], since'[e] = since[e], UNCHANGED <<early, pc>>
  PROVE  Timed(e)'
BY DEF Timed, Between, Unvisited, Kept, Started, Left, Underway, HeadKept, HeadRemoved

(* No production is at the head for less than its duration. *)
LEMMA LimitFacts ==
  \A p \in Productions : Limit(p) \in Nat /\ Limit(p) >= 2 /\ Limit(p) >= Duration[p]
BY ConstantsAssumption DEF ConstantsAssumption, Limit

(* At first nothing has an age. *)
LEMMA ClockInit == Init => Clock
<1> SUFFICES ASSUME Init PROVE Clock
  OBVIOUS
<1> QED
  BY DEF Init, Clock, Timed, Between, Underway

(* A player cancels a production. *)
LEMMA TimedCancel ==
  ASSUME TypeInv, NEW e \in Producers, NEW i \in DOMAIN queue[e],
         Cancel(e, i), pc = "cancels", UNCHANGED <<producers, pc, since>>,
         NEW f \in Producers, Timed(f)
  PROVE  Timed(f)'
<1>1. /\ ops' = [ops EXCEPT ![e] = Append(@, Removal(i))]
      /\ stamp' = IF i = 1 THEN [stamp EXCEPT ![e] = "reset"] ELSE stamp
  BY DEF Cancel
<1>2. TypeOK /\ UNCHANGED <<queue, age, early, pc, since>>
  BY DEF TypeInv, producers
<1>3. CASE f # e
  BY <1>1, <1>2, <1>3, TimedUnchanged DEF TypeOK
<1>4. CASE f = e
  <2>1. i \in Nat /\ queue[e] \in Seq(Productions) /\ queue[e] # << >>
    BY <1>2 DEF TypeOK
  <2>2. Removal(i) \in Operation /\ Removal(i).at = i
    BY <2>1, OperationFacts
  <2>3. ops'[e] = Append(ops[e], Removal(i))
    BY <1>1, <1>2 DEF TypeOK
  <2>4. /\ HeadKept(e) /\ i # 1 => HeadKept(e)'
        /\ HeadRemoved(e) \/ i = 1 => HeadRemoved(e)'
    BY <1>2, <2>2, <2>3, AppendOperation
  <2>5. CASE i # 1
    <3>1. stamp' = stamp
      BY <1>1, <2>5
    <3> QED
      BY <1>2, <1>4, <2>4, <2>5, <3>1 DEF Timed, Kept, Started, Left
  <2>6. CASE i = 1
    <3>1. stamp'[e] = "reset" /\ HeadRemoved(e)'
      BY <1>1, <1>2, <2>4, <2>6 DEF TypeOK
    <3>2. /\ Head(queue[e]) \in Productions
          /\ Limit(Head(queue[e])) \in Nat /\ Limit(Head(queue[e])) >= 2
      BY <2>1, LimitFacts
    <3>3. stamp[e] \in {"none", "now", "reset"} /\ since[e] \in Nat
      BY <1>2 DEF TypeOK
    <3>4. since[e] # 0 => since[e] <= Limit(Head(queue[e]))
      BY <1>4, <3>2, <3>3 DEF Timed, Kept, Started, Left
    <3> QED
      BY <1>2, <1>4, <2>1, <3>1, <3>4 DEF Timed, Left
  <2> QED
    BY <2>5, <2>6
<1> QED
  BY <1>3, <1>4

(* A player orders a production. *)
LEMMA TimedBuy ==
  ASSUME TypeInv, NEW e \in Producers, NEW p \in Productions, Buy(e, p),
         pc \in {"adds", "orders"}, UNCHANGED <<producers, pc, stamp, since>>,
         NEW f \in Producers, Timed(f)
  PROVE  Timed(f)'
<1>1. ops' = [ops EXCEPT ![e] = Append(@, Addition(p))]
  BY DEF Buy
<1>2. TypeOK /\ UNCHANGED <<queue, age, early, pc, since, stamp>>
  BY DEF TypeInv, producers
<1>3. CASE f # e
  BY <1>1, <1>2, <1>3, TimedUnchanged DEF TypeOK
<1>4. CASE f = e
  <2>1. Addition(p) \in Operation /\ Addition(p).at = 0 /\ ops'[e] = Append(ops[e], Addition(p))
    BY <1>1, <1>2, OperationFacts DEF TypeOK
  <2>2. /\ HeadKept(e) => HeadKept(e)'
        /\ HeadRemoved(e) => HeadRemoved(e)'
    BY <1>2, <2>1, AppendOperation
  <2> QED
    BY <1>2, <1>4, <2>2 DEF Timed, Kept, Started, Left
<1> QED
  BY <1>3, <1>4

(* The operations on the queues are applied one after the other. *)
LEMMA TimedApply ==
  ASSUME TypeInv, ApplyOperations, NEW e \in Producers, Timed(e)
  PROVE  Timed(e)'
<1>1. TypeOK /\ pc = "apply" /\ UNCHANGED <<age, early, pc, stamp>>
  BY DEF TypeInv, ApplyOperations
<1>2. CASE ops[e] = << >>
  <2>1. queue'[e] = queue[e] /\ since'[e] = since[e] /\ ops'[e] = ops[e]
    BY <1>1, <1>2 DEF ApplyOperations, TypeOK
  <2> QED
    BY <1>1, <2>1, TimedUnchanged DEF TypeOK
<1>3. CASE ops[e] # << >>
  <2>1. /\ queue'[e] = Operated(queue[e], Head(ops[e]))
        /\ since'[e] = IF Head(ops[e]).at = 1 THEN 0 ELSE since[e]
        /\ ops'[e] = Tail(ops[e])
    BY <1>1, <1>3 DEF ApplyOperations, TypeOK
  <2>2. queue[e] \in Seq(Productions) /\ Head(ops[e]) \in Operation
    BY <1>1, <1>3 DEF TypeOK
  <2>3. Head(ops[e]).at # 1 /\ queue[e] # << >> =>
          queue'[e] # << >> /\ Head(queue'[e]) = Head(queue[e])
    BY <2>1, <2>2, OperatedFacts
  <2>4. /\ HeadKept(e) => HeadKept(e)' /\ Head(ops[e]).at # 1
        /\ HeadRemoved(e) /\ Head(ops[e]).at # 1 => HeadRemoved(e)'
    BY <1>1, <1>3, <2>1, NextOperation
  <2>5. CASE stamp[e] = "none"
    <3>1. Kept(e)
      BY <1>1, <2>5 DEF Timed
    <3>2. Kept(e)'
      BY <1>1, <2>1, <2>3, <2>4, <3>1 DEF Kept
    <3> QED
      BY <1>1, <2>5, <3>2 DEF Timed
  <2>6. CASE stamp[e] = "now"
    <3>1. Started(e)
      BY <1>1, <2>6 DEF Timed
    <3>2. Started(e)'
      BY <1>1, <2>1, <2>3, <2>4, <3>1 DEF Started
    <3> QED
      BY <1>1, <2>6, <3>2 DEF Timed
  <2>7. CASE stamp[e] = "reset"
    <3>1. Left(e)
      BY <1>1, <2>7 DEF Timed
    <3>2. Left(e)'
      BY <1>1, <2>1, <2>3, <2>4, <3>1 DEF Left
    <3> QED
      BY <1>1, <2>7, <3>2 DEF Timed
  <2> QED
    BY <1>1, <2>5, <2>6, <2>7 DEF TypeOK
<1> QED
  BY <1>2, <1>3

(* The production system visits a producer: it starts, ends or waits. *)
LEMMA TimedVisit ==
  ASSUME TypeInv, ProductionSystem, NEW e \in Producers, alive[e], Timed(e)
  PROVE  Timed(e)'
<1>1. /\ TypeOK /\ pc = "update" /\ pc' = "adds"
      /\ UNCHANGED <<queue, age, alive, early, since>>
  BY DEF TypeInv, ProductionSystem, producers
<1>2. Unvisited(e)
  BY <1>1 DEF Timed
<1>3. /\ ops'[e] = IF Ends(e) THEN Append(ops[e], Removal(1)) ELSE ops[e]
      /\ stamp'[e] = IF Starts(e) THEN "now" ELSE IF Ends(e) THEN "reset" ELSE stamp[e]
  BY DEF ProductionSystem
<1>4. age[e] \in Nat /\ since[e] \in Nat /\ queue[e] \in Seq(Productions)
  BY <1>1 DEF TypeOK
<1>5. queue[e] # << >> =>
        /\ Limit(Head(queue[e])) \in Nat /\ Duration[Head(queue[e])] \in Nat
        /\ Limit(Head(queue[e])) >= Duration[Head(queue[e])]
  BY <1>4, LimitFacts, ConstantsAssumption DEF ConstantsAssumption
<1>6. Removal(1) \in Operation /\ Removal(1).at = 1
  BY OperationFacts
<1>7. ops[e] = << >> => HeadKept(e)
  BY DEF HeadKept
<1>8. ops'[e] = ops[e] => HeadKept(e)' = HeadKept(e)
  BY DEF HeadKept
<1>9. CASE Starts(e)
  <2>1. ~ Ends(e)
    BY <1>9 DEF Starts, Ends
  <2>2. HeadKept(e)' /\ stamp'[e] = "now"
    BY <1>2, <1>3, <1>7, <1>8, <1>9, <2>1 DEF Unvisited
  <2>3. Started(e)'
    BY <1>1, <1>2, <1>9, <2>2 DEF Started, Unvisited, Starts
  <2> QED
    BY <1>1, <2>2, <2>3 DEF Timed
<1>10. CASE Ends(e)
  <2>1. HeadRemoved(e)' /\ stamp'[e] = "reset"
    BY <1>1, <1>3, <1>6, <1>10, AppendOperation DEF Starts, Ends
  <2>2. Left(e)'
    BY <1>1, <1>2, <1>4, <1>5, <1>10, <2>1 DEF Left, Unvisited, Underway, Ends
  <2> QED
    BY <1>1, <2>1, <2>2 DEF Timed
<1>11. CASE ~ Starts(e) /\ ~ Ends(e)
  <2>1. HeadKept(e)' /\ stamp'[e] = "none"
    BY <1>2, <1>3, <1>7, <1>8, <1>11 DEF Unvisited
  <2>2. age[e] = 0 => since[e] = 0
    BY <1>2, <1>11 DEF Unvisited, Starts
  <2>3. age[e] # 0 => age[e] + 1 < Duration[Head(queue[e])]
    BY <1>2, <1>4, <1>5, <1>11 DEF Unvisited, Underway, Ends
  <2>4. age[e] # 0 => /\ ~ early /\ queue[e] # << >>
                      /\ since[e] = age[e] + 1 /\ since[e] < Limit(Head(queue[e]))
    BY <1>2, <1>4, <1>5, <2>3 DEF Unvisited, Underway
  <2>5. Kept(e)'
    BY <1>1, <2>1, <2>2, <2>4 DEF Kept
  <2> QED
    BY <1>1, <2>1, <2>5 DEF Timed
<1> QED
  BY <1>9, <1>10, <1>11

(* The timestamps of the frame are applied. *)
LEMMA TimedEnd ==
  ASSUME TypeInv, EndFrame, NEW e \in Producers, alive[e], Timed(e)
  PROVE  Timed(e)'
<1>1. /\ TypeOK /\ pc = "apply" /\ pc' = "idle" /\ early' = FALSE
      /\ UNCHANGED <<queue, alive, since>> /\ ops[e] = << >>
  BY DEF TypeInv, EndFrame
<1>2. age[e] \in Nat /\ since[e] \in Nat /\ queue[e] \in Seq(Productions)
  BY <1>1 DEF TypeOK
<1>3. queue[e] # << >> => Limit(Head(queue[e])) \in Nat /\ Limit(Head(queue[e])) >= 2
  BY <1>2, LimitFacts
<1>4. CASE stamp[e] = "none"
  <2>1. age'[e] = IF age[e] = 0 THEN age[e] ELSE age[e] + 1
    BY <1>4 DEF EndFrame
  <2>2. Kept(e)
    BY <1>1, <1>4 DEF Timed
  <2> QED
    BY <1>1, <1>2, <1>3, <2>1, <2>2 DEF Timed, Kept, Between, Underway
<1>5. CASE stamp[e] = "now"
  <2>1. age'[e] = IF early THEN 0 ELSE 1
    BY <1>5 DEF EndFrame
  <2>2. Started(e)
    BY <1>1, <1>5 DEF Timed
  <2> QED
    BY <1>1, <1>2, <1>3, <2>1, <2>2 DEF Timed, Started, Between, Underway
<1>6. CASE stamp[e] = "reset"
  <2>1. age'[e] = 0
    BY <1>6 DEF EndFrame
  <2>2. Left(e) /\ ~ HeadRemoved(e)
    BY <1>1, <1>6 DEF Timed, HeadRemoved
  <2> QED
    BY <1>1, <2>1, <2>2 DEF Timed, Left, Between, Underway
<1> QED
  BY <1>1, <1>4, <1>5, <1>6 DEF TypeOK

(* Every step keeps the ages and the frames in agreement. *)
LEMMA ClockNext == TypeInv /\ Clock /\ [Next]_vars => Clock'
<1> SUFFICES ASSUME TypeInv, Clock, [Next]_vars PROVE Clock'
  OBVIOUS
<1> DEFINE AllTimed == \A e \in Producers : alive'[e] => Timed(e)'
<1>a. TypeOK /\ \A e \in Producers : alive[e] => Timed(e)
  BY DEF TypeInv, Clock
<1>b. ASSUME UNCHANGED <<alive, victim>>, AllTimed PROVE Clock'
  BY <1>b DEF Clock
<1>1. CASE BeginFrame
  <2>1. /\ UNCHANGED <<queue, age, alive, early, ops, victim>>
        /\ pc = "idle" /\ pc' = "update" /\ stamp' = [e \in Producers |-> "none"]
    BY <1>1 DEF BeginFrame, producers, observer
  <2>2. ASSUME NEW e \in Producers, alive[e] PROVE Timed(e)'
    <3>1. Between(e) /\ ops[e] = << >> /\ age[e] \in Nat
      BY <1>a, <2>1, <2>2 DEF Timed, TypeInv, TypeOK, PhasesOK
    <3>2. since'[e] = IF queue[e] # << >> /\ ~ early THEN since[e] + 1 ELSE since[e]
      BY <1>1, <2>2 DEF BeginFrame
    <3>3. since'[e] = IF queue[e] = << >> \/ early THEN 0 ELSE age[e] + 1
      BY <3>1, <3>2 DEF Between, Underway
    <3> QED
      BY <2>1, <3>1, <3>3 DEF Timed, Between, Unvisited, Underway
  <2> QED
    BY <1>b, <2>1, <2>2
<1>2. ASSUME NEW e \in Producers, Destroy(e) PROVE Clock'
  <2>1. /\ alive' = [alive EXCEPT ![e] = FALSE] /\ victim' = e
        /\ UNCHANGED <<queue, age, early, pc, ops, stamp, since>>
    BY <1>2 DEF Destroy
  <2>2. ASSUME NEW f \in Producers, alive'[f] PROVE Timed(f)'
    <3>1. alive[f]
      BY <1>a, <2>1, <2>2 DEF TypeOK
    <3> QED
      BY <1>a, <2>1, <3>1, TimedUnchanged
  <2> QED
    BY <1>a, <2>1, <2>2 DEF Clock, TypeOK
<1>3. CASE CancelOfDestroyed
  <2>1. /\ UNCHANGED <<queue, age, alive, early, pc, victim, since>>
        /\ victim \in Producers /\ ~ alive[victim] /\ Cancel(victim, index)
    BY <1>a, <1>3 DEF CancelOfDestroyed, producers, Clock, TypeOK
  <2>2. ASSUME NEW e \in Producers, alive[e] PROVE Timed(e)'
    <3>1. ops'[e] = ops[e] /\ stamp'[e] = stamp[e]
      BY <1>a, <2>1, <2>2 DEF Cancel, TypeOK
    <3> QED
      BY <1>a, <2>1, <2>2, <3>1, TimedUnchanged
  <2> QED
    BY <1>b, <2>1, <2>2
<1>4. CASE AllCancelled
  <2>1. UNCHANGED <<queue, age, alive, early, pc, ops, stamp, since>> /\ victim' = None
    BY <1>4 DEF AllCancelled, producers
  <2>2. AllTimed
    BY <1>a, <2>1, TimedUnchanged
  <2> QED
    BY <2>1, <2>2 DEF Clock
<1>5. CASE ProductionSystem
  <2>1. UNCHANGED <<alive, victim>>
    BY <1>5 DEF ProductionSystem, producers, observer
  <2> QED
    BY <1>a, <1>b, <1>5, <2>1, TimedVisit
<1>6. ASSUME NEW e \in Producers, NEW p \in Productions, AddProduction(e, p) PROVE Clock'
  <2>1. UNCHANGED <<producers, pc, stamp, since, alive, victim>> /\ Buy(e, p) /\ pc = "adds"
    BY <1>6 DEF AddProduction, producers, observer
  <2> QED
    BY <1>a, <1>b, <2>1, TimedBuy
<1>7. ASSUME NEW p \in Productions, NewProduction(p) PROVE Clock'
  <2>1. UNCHANGED <<producers, pc, stamp, since, alive, victim>> /\ pc = "orders"
    BY <1>7 DEF NewProduction, producers, observer
  <2>2. PICK e \in Producers : Buy(e, p)
    BY <1>7 DEF NewProduction
  <2> QED
    BY <1>a, <1>b, <2>1, <2>2, TimedBuy
<1>8. ASSUME NEW e \in Producers, NEW i \in DOMAIN queue[e], CancelProduction(e, i)
      PROVE  Clock'
  <2>1. UNCHANGED <<producers, pc, since, alive, victim>> /\ Cancel(e, i) /\ pc = "cancels"
    BY <1>8 DEF CancelProduction, producers, observer
  <2> QED
    BY <1>a, <1>b, <2>1, TimedCancel
<1>9. CASE NextInputs
  <2>1. /\ UNCHANGED <<queue, age, alive, early, ops, stamp, since, victim>>
        /\ pc \notin {"idle", "update"} /\ pc' \notin {"idle", "update"}
    BY <1>9 DEF NextInputs, producers, observer
  <2>2. ASSUME NEW e \in Producers, alive[e] PROVE Timed(e)'
    BY <1>a, <2>1, <2>2 DEF Timed, Kept, Started, Left, HeadKept, HeadRemoved
  <2> QED
    BY <1>b, <2>1, <2>2
<1>10. CASE ApplyOperations
  <2>1. UNCHANGED <<alive, victim>>
    BY <1>10 DEF ApplyOperations, observer
  <2> QED
    BY <1>a, <1>b, <1>10, <2>1, TimedApply
<1>11. CASE EndFrame
  <2>1. UNCHANGED <<alive, victim>>
    BY <1>11 DEF EndFrame, observer
  <2> QED
    BY <1>a, <1>b, <1>11, <2>1, TimedEnd
<1>12. CASE UNCHANGED vars
  <2>1. UNCHANGED <<queue, age, alive, early, pc, ops, stamp, since, victim>>
    BY <1>12 DEF vars, producers, observer
  <2> QED
    BY <1>a, <1>b, <2>1, TimedUnchanged
<1> QED
  BY <1>1, <1>2, <1>3, <1>4, <1>5, <1>6, <1>7, <1>8, <1>9, <1>10, <1>11, <1>12 DEF Next

(* The ages and the frames that were available always agree. *)
THEOREM ClockAlways == Spec => [](TypeInv /\ Clock)
<1>1. Init => TypeInv /\ Clock
  BY TypeInvInit, ClockInit
<1>2. TypeInv /\ Clock /\ [Next]_vars => (TypeInv /\ Clock)'
  BY TypeInvNext, ClockNext
<1> QED
  BY <1>1, <1>2, PTL DEF Spec

(* A production is produced only after all the frames of its duration at    *)
(* the head of its queue: the timestamp is given back on every cancellation *)
(* and end, whatever comes in the same frame.                               *)
THEOREM FullDurationHolds == Spec => FullDuration
<1> DEFINE Full == ProductionSystem => \A e \in Producers :
             Len(ops'[e]) > Len(ops[e]) => since[e] >= Duration[Head(queue[e])]
<1>1. TypeInv /\ Clock => [Full]_vars
  <2> SUFFICES ASSUME TypeInv, Clock, ProductionSystem, NEW e \in Producers,
                      Len(ops'[e]) > Len(ops[e])
               PROVE  since[e] >= Duration[Head(queue[e])]
    OBVIOUS
  <2>1. /\ age[e] \in Nat /\ since[e] \in Nat /\ queue[e] \in Seq(Productions)
        /\ Len(ops[e]) \in Nat
    BY DEF TypeInv, TypeOK
  <2>2. Ends(e)
    <3>1. ops'[e] = IF Ends(e) THEN Append(ops[e], Removal(1)) ELSE ops[e]
      BY DEF ProductionSystem
    <3> QED
      BY <2>1, <3>1
  <2>3. /\ alive[e] /\ queue[e] # << >> /\ age[e] # 0
        /\ Duration[Head(queue[e])] <= age[e] + 1
    BY <2>2 DEF Ends
  <2>4. Duration[Head(queue[e])] \in Nat
    BY <2>1, <2>3, ConstantsAssumption DEF ConstantsAssumption
  <2>5. Unvisited(e)
    BY <2>3 DEF Clock, Timed, ProductionSystem
  <2>6. since[e] = age[e] + 1
    BY <2>3, <2>5 DEF Unvisited, Underway
  <2> QED
    BY <2>1, <2>3, <2>4, <2>6
<1> QED
  BY <1>1, ClockAlways, PTL DEF FullDuration

(* Nor does one stay at the head of its queue longer than that, or than two *)
(* frames.                                                                  *)
THEOREM OnTimeHolds == Spec => []OnTime
<1>1. TypeInv /\ Clock => OnTime
  <2> SUFFICES ASSUME TypeInv, Clock, NEW e \in Producers, alive[e], queue[e] # << >>
               PROVE  since[e] <= Limit(Head(queue[e]))
    BY DEF OnTime, Limit
  <2>1. /\ age[e] \in Nat /\ since[e] \in Nat /\ queue[e] \in Seq(Productions)
        /\ stamp[e] \in {"none", "now", "reset"}
    BY DEF TypeInv, TypeOK
  <2>2. Limit(Head(queue[e])) \in Nat /\ Limit(Head(queue[e])) >= 2
    BY <2>1, LimitFacts
  <2>3. Timed(e)
    BY DEF Clock
  <2>4. CASE pc = "idle"
    BY <2>1, <2>2, <2>3, <2>4 DEF Timed, Between, Underway
  <2>5. CASE pc = "update"
    BY <2>1, <2>2, <2>3, <2>5 DEF Timed, Unvisited, Underway
  <2>6. CASE pc \notin {"idle", "update"}
    BY <2>1, <2>2, <2>3, <2>6 DEF Timed, Kept, Started, Left
  <2> QED
    BY <2>4, <2>5, <2>6
<1> QED
  BY <1>1, ClockAlways, PTL

-----------------------------------------------------------------------------
(* The books of the player: what operations on their way will change.       *)
(* What an operation changes the worth of a queue by. *)
Effect(q, op) == (IF op.add = None THEN 0 ELSE Cost[op.add]) - (IF op.at = 0 THEN 0 ELSE Cost[q[op.at]])
Pending(q, seq) == SumFunction([i \in DOMAIN seq |-> Effect(q, seq[i])])

(* Operations of which at most one removes, something that is there. *)
Applicable(q, seq) ==
  /\ \A i \in 1..Len(seq) : seq[i].at <= Len(q)
  /\ \A i, j \in 1..Len(seq) : seq[i].at # 0 /\ seq[j].at # 0 => i = j

(* The worth of a queue when its operations have been applied. *)
Value(e) == Worth(queue[e]) + Pending(queue[e], ops[e])

(* What is summed are naturals. *)
LEMMA CostNat == \A p \in Productions : Cost[p] \in Nat
BY ConstantsAssumption

LEMMA WorthNat ==
  ASSUME NEW q \in Seq(Productions) PROVE Worth(q) \in Nat
<1> DEFINE f == [i \in DOMAIN q |-> Cost[q[i]]]
<1>1. IsFiniteSet(DOMAIN q) /\ f \in [DOMAIN q -> Nat]
  <2>1. Len(q) \in Nat /\ DOMAIN q = 1..Len(q)
    OBVIOUS
  <2> QED BY <2>1, CostNat, FS_Interval
<1> HIDE DEF f
<1>2. SumFunction(f) \in Nat
  BY <1>1, SumNat
<1> QED BY <1>2 DEF Worth, f

(* One production more, one less. *)
LEMMA WorthAppend ==
  ASSUME NEW q \in Seq(Productions), NEW p \in Productions
  PROVE  Worth(Append(q, p)) = Worth(q) + Cost[p]
<1> DEFINE n == Len(q)
           r == Append(q, p)
           f == [i \in DOMAIN r |-> Cost[r[i]]]
           g == [i \in DOMAIN q |-> Cost[q[i]]]
<1>1. /\ n \in Nat /\ DOMAIN q = 1..n /\ DOMAIN r = 1..(n + 1)
      /\ r[n + 1] = p /\ \A i \in 1..n : r[i] = q[i] /\ r[i] \in Productions
  BY AppendProperties
<1>2. f \in [1..(n + 1) -> Int] /\ g \in [1..n -> Int] /\ f[n + 1] = Cost[p]
  <2>1. \A i \in 1..(n + 1) : r[i] \in Productions
    BY <1>1
  <2> HIDE DEF r, n
  <2> QED BY <1>1, <2>1, CostNat
<1>3. \A j \in 1..n : g[j] = f[IF j < n + 1 THEN j ELSE j + 1]
  <2> HIDE DEF r
  <2> QED BY <1>1
<1>4. Worth(r) = SumFunction(f) /\ Worth(q) = SumFunction(g)
  BY DEF Worth
<1> HIDE DEF f, g, r, n
<1>5. n + 1 \in 1..(n + 1)
  BY <1>1
<1>6. SumFunction(f) = f[n + 1] + SumFunction(g)
  BY <1>1, <1>2, <1>3, <1>5, SumWithout
<1>7. SumFunction(g) \in Nat /\ Cost[p] \in Nat
  BY <1>4, WorthNat, CostNat
<1> QED BY <1>2, <1>4, <1>6, <1>7 DEF r

LEMMA WorthRemoveAt ==
  ASSUME NEW q \in Seq(Productions), NEW i \in 1..Len(q)
  PROVE  Worth(q) = Cost[q[i]] + Worth(RemoveAt(q, i))
<1> DEFINE r == RemoveAt(q, i)
           front == SubSeq(q, 1, i - 1)
           back == SubSeq(q, i + 1, Len(q))
           f == [j \in DOMAIN q |-> Cost[q[j]]]
           g == [j \in DOMAIN r |-> Cost[r[j]]]
<1>0. PICK n \in Nat : Len(q) = n + 1
  <2>1. Len(q) - 1 \in Nat
    OBVIOUS
  <2> QED BY <2>1
<1>1. /\ front \in Seq(Productions) /\ Len(front) = i - 1
      /\ \A j \in 1..(i - 1) : front[j] = q[j]
  OBVIOUS
<1>2. /\ back \in Seq(Productions) /\ Len(back) = Len(q) - i
      /\ \A j \in 1..(Len(q) - i) : back[j] = q[j + i]
  OBVIOUS
<1>3. r = front \o back
  BY DEF RemoveAt
<1> HIDE DEF front, back, r
<1>4. /\ r \in Seq(Productions) /\ Len(r) = n
      /\ \A j \in 1..n : r[j] = IF j <= Len(front) THEN front[j] ELSE back[j - Len(front)]
  <2>1. Len(front) + Len(back) = n
    BY <1>0, <1>1, <1>2
  <2> QED BY <1>1, <1>2, <1>3, <2>1, ConcatProperties
<1>5. \A j \in 1..n : r[j] = q[IF j < i THEN j ELSE j + 1]
  <2> TAKE j \in 1..n
  <2>1. CASE j < i
    BY <1>1, <1>4, <2>1
  <2>2. CASE ~ (j < i)
    <3>1. r[j] = back[j - (i - 1)] /\ j - (i - 1) \in 1..(Len(q) - i)
      BY <1>0, <1>1, <1>4, <2>2
    <3>2. (j - (i - 1)) + i = j + 1
      OBVIOUS
    <3> QED BY <1>2, <2>2, <3>1, <3>2
  <2> QED BY <2>1, <2>2
<1>6. /\ f \in [1..(n + 1) -> Int] /\ g \in [1..n -> Int] /\ f[i] = Cost[q[i]]
      /\ \A j \in 1..n : g[j] = f[IF j < i THEN j ELSE j + 1]
  <2>1. DOMAIN q = 1..(n + 1) /\ \A j \in 1..(n + 1) : q[j] \in Productions
    BY <1>0
  <2>2. DOMAIN r = 1..n /\ \A j \in 1..n : r[j] \in Productions
    BY <1>4
  <2> QED BY <1>0, <1>5, <2>1, <2>2, CostNat
<1>7. Worth(q) = SumFunction(f) /\ Worth(r) = SumFunction(g)
  BY DEF Worth
<1> HIDE DEF f, g
<1>8. i \in 1..(n + 1)
  BY <1>0
<1>9. SumFunction(f) = f[i] + SumFunction(g)
  BY <1>6, <1>8, SumWithout
<1> QED BY <1>6, <1>7, <1>9 DEF r

(* The effects of operations are integers, and add up. *)
LEMMA EffectInt ==
  ASSUME NEW q \in Seq(Productions), NEW op \in Operation, op.at <= Len(q)
  PROVE  Effect(q, op) \in Int
<1>1. op.add # None => Cost[op.add] \in Nat
  BY CostNat DEF Operation
<1>2. op.at # 0 => Cost[q[op.at]] \in Nat
  <2>1. op.at \in Nat /\ Len(q) \in Nat
    BY DEF Operation
  <2>2. op.at # 0 => q[op.at] \in Productions
    BY <2>1
  <2> QED BY <2>2, CostNat
<1> QED BY <1>1, <1>2 DEF Effect

LEMMA PendingAppend ==
  ASSUME NEW q \in Seq(Productions), NEW seq \in Seq(Operation), NEW op \in Operation,
         Applicable(q, seq), op.at <= Len(q)
  PROVE  Pending(q, Append(seq, op)) = Pending(q, seq) + Effect(q, op)
<1> DEFINE n == Len(seq)
           r == Append(seq, op)
           f == [i \in DOMAIN r |-> Effect(q, r[i])]
           g == [i \in DOMAIN seq |-> Effect(q, seq[i])]
<1>1. /\ n \in Nat /\ DOMAIN seq = 1..n /\ DOMAIN r = 1..(n + 1)
      /\ r[n + 1] = op /\ \A i \in 1..n : r[i] = seq[i] /\ seq[i] \in Operation
  BY AppendProperties
<1>2. \A i \in 1..n : Effect(q, seq[i]) \in Int
  BY <1>1, EffectInt DEF Applicable
<1>3. Effect(q, op) \in Int
  BY EffectInt
<1> HIDE DEF r, n
<1>4. /\ f \in [1..(n + 1) -> Int] /\ g \in [1..n -> Int] /\ f[n + 1] = Effect(q, op)
      /\ \A j \in 1..n : g[j] = f[IF j < n + 1 THEN j ELSE j + 1]
  <2>1. \A i \in 1..(n + 1) : Effect(q, r[i]) \in Int
    <3> TAKE i \in 1..(n + 1)
    <3>1. CASE i = n + 1
      BY <1>1, <1>3, <3>1
    <3>2. CASE i # n + 1
      <4>1. i \in 1..n
        BY <1>1, <3>2
      <4> QED BY <1>1, <1>2, <4>1
    <3> QED BY <3>1, <3>2
  <2> QED BY <1>1, <1>2, <2>1
<1>5. Pending(q, r) = SumFunction(f) /\ Pending(q, seq) = SumFunction(g)
  BY DEF Pending
<1> HIDE DEF f, g
<1>6. n + 1 \in 1..(n + 1) /\ IsFiniteSet(1..n)
  BY <1>1, FS_Interval
<1>7. SumFunction(f) = f[n + 1] + SumFunction(g)
  BY <1>1, <1>4, <1>6, SumWithout
<1>8. SumFunction(g) \in Int
  BY <1>4, <1>6, SumInt
<1> QED BY <1>3, <1>4, <1>5, <1>7, <1>8 DEF r

LEMMA PendingTail ==
  ASSUME NEW q \in Seq(Productions), NEW seq \in Seq(Operation), Applicable(q, seq), seq # << >>
  PROVE  Pending(q, seq) = Effect(q, Head(seq)) + Pending(q, Tail(seq))
<1> DEFINE t == Tail(seq)
           f == [i \in DOMAIN seq |-> Effect(q, seq[i])]
           g == [i \in DOMAIN t |-> Effect(q, t[i])]
<1>0. PICK n \in Nat : Len(seq) = n + 1
  <2>1. Len(seq) - 1 \in Nat
    OBVIOUS
  <2> QED BY <2>1
<1>1. /\ t \in Seq(Operation) /\ Len(t) = n /\ \A i \in 1..n : t[i] = seq[i + 1]
  BY <1>0, HeadTailProperties
<1>2. Head(seq) = seq[1] /\ DOMAIN seq = 1..(n + 1) /\ \A i \in 1..(n + 1) : seq[i] \in Operation
  BY <1>0
<1>3. \A i \in 1..(n + 1) : Effect(q, seq[i]) \in Int
  BY <1>0, <1>2, EffectInt DEF Applicable
<1> HIDE DEF t
<1>4. DOMAIN t = 1..n
  BY <1>1
<1>5. /\ f \in [1..(n + 1) -> Int] /\ g \in [1..n -> Int] /\ f[1] = Effect(q, Head(seq))
      /\ \A j \in 1..n : g[j] = f[IF j < 1 THEN j ELSE j + 1]
  <2>1. ASSUME NEW i \in 1..n PROVE Effect(q, t[i]) \in Int
    <3>1. i + 1 \in 1..(n + 1)
      OBVIOUS
    <3>2. Effect(q, seq[i + 1]) \in Int /\ t[i] = seq[i + 1]
      BY <1>1, <1>3, <3>1
    <3> QED BY <3>2
  <2> QED BY <1>1, <1>2, <1>3, <1>4, <2>1
<1>6. Pending(q, seq) = SumFunction(f) /\ Pending(q, t) = SumFunction(g)
  BY DEF Pending
<1> HIDE DEF f, g
<1>7. 1 \in 1..(n + 1)
  OBVIOUS
<1>8. SumFunction(f) = f[1] + SumFunction(g)
  BY <1>5, <1>7, SumWithout
<1> QED BY <1>5, <1>6, <1>8 DEF t

(* Nothing is pending where there are no operations. *)
LEMMA PendingNone ==
  ASSUME NEW q PROVE Pending(q, << >>) = 0
<1> DEFINE e == << >>
           f == [i \in DOMAIN e |-> Effect(q, e[i])]
<1>1. DOMAIN e = {}
  OBVIOUS
<1>2. f \in [{} -> Int]
  BY <1>1
<1> HIDE DEF f
<1>3. SumFunction(f) = 0
  BY <1>2, FS_EmptySet, SumZero
<1> QED BY <1>3 DEF Pending, f

(* The pending operations on a queue that keeps what they are about. *)
LEMMA PendingSame ==
  ASSUME NEW q, NEW r, NEW seq, \A i \in DOMAIN seq : Effect(r, seq[i]) = Effect(q, seq[i])
  PROVE  Pending(r, seq) = Pending(q, seq)
BY DEF Pending

(* Applying the first operation leaves the value of the whole as it is. *)
LEMMA OperatedValue ==
  ASSUME NEW q \in Seq(Productions), NEW seq \in Seq(Operation), seq # << >>, Applicable(q, seq),
         NEW r, r = Operated(q, Head(seq))
  PROVE  /\ Worth(r) + Pending(r, Tail(seq)) = Worth(q) + Pending(q, seq)
         /\ Applicable(r, Tail(seq))
<1> DEFINE op == Head(seq)
           t == Tail(seq)
           n == Len(q)
           cut == IF op.at \in DOMAIN q THEN RemoveAt(q, op.at) ELSE q
<1>0. PICK m \in Nat : Len(seq) = m + 1
  <2>1. Len(seq) - 1 \in Nat
    OBVIOUS
  <2> QED BY <2>1
<1>1. /\ op \in Operation /\ op = seq[1] /\ t \in Seq(Operation) /\ Len(t) = m
      /\ \A i \in 1..m : t[i] = seq[i + 1]
  BY <1>0, HeadTailProperties
<1>2. /\ \A i \in 1..(m + 1) : seq[i].at <= n
      /\ \A i, j \in 1..(m + 1) : seq[i].at # 0 /\ seq[j].at # 0 => i = j
  BY <1>0 DEF Applicable
<1>3. op.at \in Nat /\ op.at <= n /\ n \in Nat /\ DOMAIN q = 1..n
  <2>1. 1 \in 1..(m + 1)
    OBVIOUS
  <2> QED BY <1>1, <1>2, <2>1 DEF Operation
<1>4. \A i \in 1..m : t[i] \in Operation /\ t[i].at \in Nat /\ t[i].at <= n
  <2> TAKE i \in 1..m
  <2>1. i + 1 \in 1..(m + 1) /\ t[i] \in Operation
    BY <1>1
  <2> QED BY <1>1, <1>2, <2>1 DEF Operation
<1>5. op.at # 0 => \A i \in 1..m : t[i].at = 0
  <2> SUFFICES ASSUME op.at # 0, NEW i \in 1..m PROVE t[i].at = 0
    OBVIOUS
  <2>1. i + 1 \in 1..(m + 1) /\ 1 \in 1..(m + 1) /\ i + 1 # 1
    OBVIOUS
  <2> QED BY <1>1, <1>2, <2>1
<1>6. \A i, j \in 1..m : t[i].at # 0 /\ t[j].at # 0 => i = j
  <2> SUFFICES ASSUME NEW i \in 1..m, NEW j \in 1..m, t[i].at # 0, t[j].at # 0 PROVE i = j
    OBVIOUS
  <2>1. i + 1 \in 1..(m + 1) /\ j + 1 \in 1..(m + 1)
    OBVIOUS
  <2>2. i + 1 = j + 1
    BY <1>1, <1>2, <2>1
  <2> QED BY <2>2
<1>7. Pending(q, seq) = Effect(q, op) + Pending(q, t)
  BY PendingTail
<1>8. /\ r = IF op.add = None THEN cut ELSE Append(cut, op.add)
      /\ op.add # None => op.add \in Productions
  BY <1>1 DEF Operated, Operation
<1> HIDE DEF op, t
<1>9. /\ cut \in Seq(Productions)
      /\ Worth(cut) = Worth(q) - (IF op.at = 0 THEN 0 ELSE Cost[q[op.at]])
      /\ op.at = 0 => cut = q
  <2>1. CASE op.at = 0
    <3>1. cut = q /\ Worth(q) \in Nat
      BY <1>3, <2>1, WorthNat
    <3> QED BY <2>1, <3>1
  <2>2. CASE op.at # 0
    <3>1. PICK i \in 1..n : i = op.at
      BY <1>3, <2>2
    <3>2. cut = RemoveAt(q, i)
      BY <1>3, <3>1
    <3>3. RemoveAt(q, i) \in Seq(Productions) /\ Worth(q) = Cost[q[i]] + Worth(RemoveAt(q, i))
      BY RemoveAtFacts, WorthRemoveAt
    <3>4. Cost[q[i]] \in Nat /\ Worth(RemoveAt(q, i)) \in Nat
      <4>1. q[i] \in Productions
        OBVIOUS
      <4> QED BY <3>3, <4>1, WorthNat, CostNat
    <3> HIDE DEF cut
    <3> QED BY <2>2, <3>1, <3>2, <3>3, <3>4
  <2> QED BY <2>1, <2>2
<1> HIDE DEF cut
<1>10. /\ Worth(r) = Worth(q) + Effect(q, op) /\ r \in Seq(Productions)
       /\ op.at = 0 => Len(r) >= n /\ \A i \in 1..n : r[i] = q[i]
  <2>1. Worth(q) \in Nat /\ (op.at # 0 => Cost[q[op.at]] \in Nat)
    <3>1. op.at # 0 => q[op.at] \in Productions
      BY <1>3
    <3> QED BY <3>1, WorthNat, CostNat
  <2>2. CASE op.add = None
    BY <1>3, <1>8, <1>9, <2>1, <2>2 DEF Effect
  <2>3. CASE op.add # None
    <3>1. PICK p \in Productions : p = op.add
      BY <1>8, <2>3
    <3>2. r = Append(cut, p) /\ Worth(r) = Worth(cut) + Cost[p] /\ Cost[p] \in Nat
      BY <1>8, <1>9, <2>3, <3>1, WorthAppend, CostNat
    <3>3. r \in Seq(Productions)
      <4>1. \A s \in Seq(Productions) : Append(s, p) \in Seq(Productions)
        OBVIOUS
      <4> QED BY <1>9, <3>2, <4>1
    <3>4. op.at = 0 => Len(r) >= n /\ \A i \in 1..n : r[i] = q[i]
      BY <1>3, <1>9, <3>2, AppendProperties
    <3>5. Worth(r) = Worth(q) + Effect(q, op)
      BY <1>9, <2>1, <2>3, <3>1, <3>2 DEF Effect
    <3> QED BY <3>3, <3>4, <3>5
  <2> QED BY <2>2, <2>3
<1>11. \A i \in 1..m : Effect(r, t[i]) = Effect(q, t[i])
  <2> TAKE i \in 1..m
  <2>1. CASE op.at = 0
    <3>1. t[i].at # 0 => r[t[i].at] = q[t[i].at]
      BY <1>4, <1>10, <2>1
    <3> QED BY <3>1 DEF Effect
  <2>2. CASE op.at # 0
    BY <1>5, <2>2 DEF Effect
  <2> QED BY <2>1, <2>2
<1>12. Pending(r, t) = Pending(q, t)
  <2>1. DOMAIN t = 1..m
    BY <1>1
  <2> QED BY <1>11, <2>1, PendingSame
<1>13. Applicable(r, t)
  <2>1. \A i \in 1..m : t[i].at <= Len(r)
    <3> TAKE i \in 1..m
    <3>1. Len(r) \in Nat
      BY <1>10
    <3>2. CASE op.at = 0
      BY <1>3, <1>4, <1>10, <3>1, <3>2
    <3>3. CASE op.at # 0
      BY <1>5, <3>1, <3>3
    <3> QED BY <3>2, <3>3
  <2> QED BY <1>1, <1>6, <2>1 DEF Applicable
<1>14. Worth(q) \in Int /\ Effect(q, op) \in Int /\ Pending(q, t) \in Int
  <2>1. \A i \in 1..m : Effect(q, t[i]) \in Int
    BY <1>4, EffectInt
  <2> DEFINE g == [i \in DOMAIN t |-> Effect(q, t[i])]
  <2>2. IsFiniteSet(1..m) /\ DOMAIN t = 1..m
    BY <1>1, FS_Interval
  <2>3. g \in [1..m -> Int]
    BY <2>1, <2>2
  <2> HIDE DEF g
  <2>4. SumFunction(g) \in Int
    BY <2>2, <2>3, SumInt
  <2>5. Pending(q, t) \in Int
    BY <2>4 DEF Pending, g
  <2> QED BY <1>1, <1>3, <2>5, WorthNat, EffectInt
<1> QED BY <1>7, <1>10, <1>12, <1>13, <1>14 DEF t, op

-----------------------------------------------------------------------------
(* Stock, steps, products and values together are what the player began     *)
(* with, in every phase, until two removals meet in one queue.              *)
Balance ==
  stock + (IF pc = "idle" THEN 0 ELSE delta) + made + SumFunction([e \in Producers |-> Value(e)]) = Stock
Applies == \A e \in Producers : Applicable(queue[e], ops[e])
Ledger ==
  /\ made \in Int
  /\ clashed = "no" => Applies /\ (Cost = Price => Balance)

LEMMA ValueInt ==
  ASSUME TypeOK, NEW e \in Producers, Applicable(queue[e], ops[e])
  PROVE  Value(e) \in Int
<1> DEFINE g == [i \in DOMAIN ops[e] |-> Effect(queue[e], ops[e][i])]
           m == Len(ops[e])
<1>1. /\ queue[e] \in Seq(Productions) /\ ops[e] \in Seq(Operation)
      /\ m \in Nat /\ DOMAIN ops[e] = 1..m
  BY DEF TypeOK
<1>2. \A i \in 1..m : Effect(queue[e], ops[e][i]) \in Int
  BY <1>1, EffectInt DEF Applicable
<1> HIDE DEF m
<1>3. g \in [1..m -> Int] /\ IsFiniteSet(1..m)
  <2>1. IsFiniteSet(1..m)
    BY <1>1, FS_Interval
  <2>2. g \in [1..m -> Int]
    BY <1>1, <1>2
  <2> QED BY <2>1, <2>2
<1> HIDE DEF g
<1>4. SumFunction(g) \in Int
  BY <1>3, SumInt
<1>5. Pending(queue[e], ops[e]) \in Int
  BY <1>4 DEF Pending, g
<1> QED BY <1>1, <1>5, WorthNat DEF Value

(* The sum of the values when that of one producer changes. *)
LEMMA ValuesChanged ==
  ASSUME TypeOK, TypeOK', Applies, Applies', NEW e \in Producers, NEW d \in Int,
         Value(e)' = Value(e) + d,
         \A x \in Producers \ {e} : Value(x)' = Value(x)
  PROVE  /\ SumFunction([x \in Producers |-> Value(x)]) \in Int
         /\ SumFunction([x \in Producers |-> Value(x)])' = SumFunction([x \in Producers |-> Value(x)]) + d
<1> DEFINE f == [x \in Producers |-> Value(x)]
           g == [x \in Producers |-> Value(x)']
<1>1. ASSUME NEW x \in Producers PROVE Value(x) \in Int /\ Value(x)' \in Int
  <2>1. Value(x) \in Int
    BY ValueInt DEF Applies
  <2>2. Value(x)' \in Int
    BY <2>1
  <2> QED BY <2>1, <2>2
<1>2. /\ f \in [Producers -> Int] /\ g \in [Producers -> Int] /\ IsFiniteSet(Producers)
      /\ g[e] = f[e] + d /\ \A x \in Producers \ {e} : g[x] = f[x]
  BY <1>1, ConstantsAssumption
<1> HIDE DEF f, g
<1>3. SumFunction(g) = SumFunction(f) - f[e] + g[e] /\ SumFunction(f) \in Int /\ f[e] \in Int
  BY <1>2, SumChanged, SumInt
<1>4. SumFunction(g) = SumFunction(f) + d
  BY <1>2, <1>3
<1> QED BY <1>3, <1>4 DEF f, g

(* An operation more on the way to one queue. *)
LEMMA ValueAppended ==
  ASSUME TypeOK, NEW e \in Producers, Applicable(queue[e], ops[e]), NEW op \in Operation,
         op.at <= Len(queue[e]), op.at # 0 => ~ HasRemoval(ops[e]),
         ops' = [ops EXCEPT ![e] = Append(@, op)], queue' = queue
  PROVE  /\ Applicable(queue[e], ops[e])'
         /\ Value(e)' = Value(e) + Effect(queue[e], op)
         /\ \A x \in Producers \ {e} : ops'[x] = ops[x] /\ Value(x)' = Value(x)
<1> DEFINE q == queue[e]
           s == ops[e]
           n == Len(s)
           r == Append(s, op)
<1>1. q \in Seq(Productions) /\ s \in Seq(Operation) /\ n \in Nat /\ DOMAIN s = 1..n
  BY DEF TypeOK
<1>2. ops'[e] = r /\ queue'[e] = q /\ \A x \in Producers \ {e} : ops'[x] = ops[x]
  BY DEF TypeOK
<1>3. /\ Len(r) = n + 1 /\ r[n + 1] = op /\ \A i \in 1..n : r[i] = s[i]
  BY <1>1, AppendProperties
<1>4. /\ \A i \in 1..n : s[i].at <= Len(q)
      /\ \A i, j \in 1..n : s[i].at # 0 /\ s[j].at # 0 => i = j
  BY DEF Applicable
<1>5. op.at # 0 => \A i \in 1..n : s[i].at = 0
  BY <1>1 DEF HasRemoval
<1> HIDE DEF q, s, r, n
<1>6. Applicable(q, r)
  <2>1. \A i \in 1..(n + 1) : i \in 1..n \/ i = n + 1
    BY <1>1
  <2>2. \A i \in 1..(n + 1) : r[i].at <= Len(q)
    BY <1>3, <1>4, <2>1 DEF q
  <2>3. \A i, j \in 1..(n + 1) : r[i].at # 0 /\ r[j].at # 0 => i = j
    BY <1>3, <1>4, <1>5, <2>1
  <2> QED BY <1>3, <2>2, <2>3 DEF Applicable
<1>7. Pending(q, r) = Pending(q, s) + Effect(q, op)
  BY <1>1, PendingAppend DEF q, r, s
<1>8. Worth(q) \in Int /\ Pending(q, s) \in Int /\ Effect(q, op) \in Int
  <2>1. Value(e) \in Int /\ Value(e) = Worth(q) + Pending(q, s)
    BY ValueInt DEF Value, q, s
  <2>2. Worth(q) \in Int /\ Effect(q, op) \in Int
    BY <1>1, WorthNat, EffectInt DEF q
  <2>3. Pending(q, s) \in Int
    <3> DEFINE g == [i \in DOMAIN s |-> Effect(q, s[i])]
    <3>1. \A i \in 1..n : Effect(q, s[i]) \in Int
      BY <1>1, <1>4, EffectInt
    <3>2. IsFiniteSet(1..n)
      BY <1>1, FS_Interval
    <3>3. g \in [1..n -> Int]
      BY <1>1, <3>1
    <3> HIDE DEF g
    <3>4. SumFunction(g) \in Int
      BY <3>2, <3>3, SumInt
    <3> QED BY <3>4 DEF Pending, g
  <2> QED BY <2>2, <2>3
<1>9. Applicable(queue[e], ops[e])'
  BY <1>2, <1>6 DEF q
<1>10. Value(e)' = Value(e) + Effect(q, op)
  <2>1. Value(e)' = Worth(q) + Pending(q, r)
    <3>1. Value(e)' = Worth(queue'[e]) + Pending(queue'[e], ops'[e])
      BY DEF Value, Worth, Pending, Effect
    <3> QED BY <1>2, <3>1
  <2>2. Value(e) = Worth(q) + Pending(q, s)
    BY DEF Value, q, s
  <2> QED BY <1>7, <1>8, <2>1, <2>2
<1>11. \A x \in Producers \ {e} : Value(x)' = Value(x)
  BY <1>2 DEF Value, Worth, Pending, Effect
<1> QED BY <1>2, <1>9, <1>10, <1>11 DEF q

(* Paying for an addition, and giving the price of a removal back. *)
LEMMA LedgerAppended ==
  ASSUME TypeInv, TypeInv', Ledger, clashed = "no",
         NEW e \in Producers, NEW op \in Operation, NEW d \in Int,
         op.at <= Len(queue[e]), op.at # 0 => ~ HasRemoval(ops[e]),
         ops' = [ops EXCEPT ![e] = Append(@, op)],
         Cost = Price => Effect(queue[e], op) = d, delta' = delta - d,
         UNCHANGED <<queue, stock, made, pc>>, pc # "idle"
  PROVE  Applies' /\ (Cost = Price => Balance')
<1>1. Applies /\ TypeOK /\ TypeOK' /\ made \in Int
  BY DEF Ledger, TypeInv
<1>2. /\ Applicable(queue[e], ops[e])'
      /\ Value(e)' = Value(e) + Effect(queue[e], op)
      /\ \A x \in Producers \ {e} : ops'[x] = ops[x] /\ Value(x)' = Value(x)
  BY <1>1, ValueAppended DEF Applies
<1>3. Applies'
  BY <1>1, <1>2 DEF Applies, Applicable
<1>4. ASSUME Cost = Price PROVE Balance'
  <2> DEFINE sum == SumFunction([x \in Producers |-> Value(x)])
             after == SumFunction([x \in Producers |-> Value(x)])'
  <2>1. sum \in Int /\ after = sum + d
    BY <1>1, <1>2, <1>3, <1>4, ValuesChanged
  <2>2. stock + delta + made + sum = Stock
    BY <1>4 DEF Ledger, Balance
  <2>3. stock \in Int /\ delta \in Int
    BY <1>1 DEF TypeOK
  <2> HIDE DEF sum, after
  <2>4. stock + (delta - d) + made + after = Stock
    BY <1>1, <2>1, <2>2, <2>3
  <2>5. stock' + delta' + made' + after = Stock
    BY <2>4
  <2> QED BY <2>5 DEF Balance, after
<1> QED BY <1>3, <1>4

LEMMA LedgerBuy ==
  ASSUME TypeInv, TypeInv', Ledger, clashed = "no", NEW e \in Producers, NEW p \in Productions,
         Buy(e, p), UNCHANGED <<queue, stock, made, pc>>, pc # "idle"
  PROVE  Applies' /\ (Cost = Price => Balance')
<1>1. /\ Addition(p) \in Operation /\ Addition(p).at = 0 /\ Addition(p).add = p /\ p # None
  BY OperationFacts, ConstantsAssumption DEF Addition
<1>2. Effect(queue[e], Addition(p)) = Cost[p] /\ Cost[p] \in Int
  BY <1>1, CostNat DEF Effect
<1>3. Len(queue[e]) \in Nat
  BY DEF TypeInv, TypeOK
<1>4. ops' = [ops EXCEPT ![e] = Append(@, Addition(p))] /\ delta' = delta - Cost[p]
  BY DEF Buy
<1>5. PICK op \in Operation, d \in Int : op = Addition(p) /\ d = Cost[p]
  BY <1>1, <1>2
<1>6. /\ op.at <= Len(queue[e]) /\ op.at = 0 /\ delta' = delta - d
      /\ ops' = [ops EXCEPT ![e] = Append(@, op)] /\ Effect(queue[e], op) = d
  BY <1>1, <1>2, <1>3, <1>4, <1>5
<1> QED BY <1>6, LedgerAppended

LEMMA LedgerCancel ==
  ASSUME TypeInv, TypeInv', Ledger, clashed' = "no", NEW e \in Producers, NEW i \in DOMAIN queue[e],
         Cancel(e, i), UNCHANGED <<queue, stock, made, pc>>, pc # "idle"
  PROVE  Applies' /\ (Cost = Price => Balance')
<1>1. queue[e] \in Seq(Productions) /\ i \in 1..Len(queue[e]) /\ queue[e][i] \in Productions
  <2>1. queue[e] \in Seq(Productions)
    BY DEF TypeInv, TypeOK
  <2> QED BY <2>1
<1>2. clashed = "no" /\ ~ HasRemoval(ops[e])
  BY DEF Cancel, TypeInv, TypeOK
<1>3. Removal(i) \in Operation /\ Removal(i).at = i /\ Removal(i).add = None
  BY <1>1, OperationFacts DEF Removal
<1> DEFINE c == Price[queue[e][i]]
           d == - c
<1>4. c \in Nat /\ d \in Int
  BY <1>1, ConstantsAssumption
<1>5. Cost = Price => Effect(queue[e], Removal(i)) = d
  BY <1>1, <1>3, <1>4 DEF Effect
<1>6. ops' = [ops EXCEPT ![e] = Append(@, Removal(i))] /\ delta' = delta + c
  BY DEF Cancel
<1>7. delta' = delta - d
  <2>1. delta \in Int
    BY DEF TypeInv, TypeOK
  <2> HIDE DEF c
  <2> QED BY <1>4, <1>6, <2>1
<1>8. Removal(i).at <= Len(queue[e])
  BY <1>1, <1>3
<1> HIDE DEF d, c
<1> QED BY <1>2, <1>3, <1>4, <1>5, <1>6, <1>7, <1>8, LedgerAppended

(* The production system removes what it has produced. *)
LEMMA LedgerVisit ==
  ASSUME TypeInv, TypeInv', Clock, Ledger, clashed = "no", ProductionSystem
  PROVE  Applies' /\ made' \in Int /\ (Cost = Price => Balance')
<1>1. Applies /\ TypeOK /\ made \in Int /\ pc = "update" /\ pc' = "adds"
  BY DEF Ledger, TypeInv, ProductionSystem
<1>2. /\ UNCHANGED <<queue, stock, delta>>
      /\ ops' = [e \in Producers |-> IF Ends(e) THEN Append(ops[e], Removal(1)) ELSE ops[e]]
      /\ made' = made + SumFunction([e \in Producers |->
                                       IF Ends(e) THEN Cost[Head(queue[e])] ELSE 0])
  BY DEF ProductionSystem, producers
<1>3. ASSUME NEW e \in Producers
      PROVE  /\ Applicable(queue[e], ops[e])' /\ Value(e) \in Int /\ Value(e)' \in Int
             /\ (IF Ends(e) THEN Cost[Head(queue[e])] ELSE 0) \in Nat
             /\ Value(e) = Value(e)' + (IF Ends(e) THEN Cost[Head(queue[e])] ELSE 0)
  <2>1. Value(e) \in Int /\ Applicable(queue[e], ops[e])
    BY <1>1, ValueInt DEF Applies
  <2>2. CASE ~ Ends(e)
    <3>1. ops'[e] = ops[e] /\ queue'[e] = queue[e]
      BY <1>2, <2>2
    <3>2. Value(e)' = Value(e) /\ Applicable(queue[e], ops[e])'
      BY <2>1, <3>1 DEF Value, Worth, Pending, Effect, Applicable
    <3> QED BY <2>1, <2>2, <3>2
  <2>3. CASE Ends(e)
    <3> DEFINE q == queue[e]
               none == << >>
               one == Append(none, Removal(1))
    <3>1. /\ ops[e] = none /\ q # << >> /\ q \in Seq(Productions)
      BY <1>1, <2>3 DEF Ends, Clock, Timed, Unvisited, TypeOK
    <3>2. /\ Len(q) \in Nat /\ 1 <= Len(q) /\ Head(q) = q[1] /\ q[1] \in Productions
      BY <3>1
    <3>3. Removal(1) \in Operation /\ Removal(1).at = 1 /\ Removal(1).add = None
      BY OperationFacts DEF Removal
    <3>4. none \in Seq(Operation) /\ Applicable(q, none)
      BY DEF Applicable
    <3>5. ops'[e] = one /\ queue'[e] = q
      BY <1>2, <2>3, <3>1
    <3>6. Effect(q, Removal(1)) = - Cost[q[1]] /\ Cost[q[1]] \in Nat
      BY <3>2, <3>3, CostNat DEF Effect
    <3>7. Pending(q, one) = Pending(q, none) + Effect(q, Removal(1))
      <4> HIDE DEF q, none
      <4> QED BY <3>1, <3>2, <3>3, <3>4, PendingAppend
    <3>8. Pending(q, none) = 0
      BY PendingNone
    <3>9. Applicable(q, one)
      <4>1. Len(one) = 1 /\ one[1] = Removal(1)
        OBVIOUS
      <4> HIDE DEF one
      <4> QED BY <3>2, <3>3, <4>1 DEF Applicable
    <3>10. Applicable(queue[e], ops[e])'
      BY <3>5, <3>9
    <3>11. Worth(q) \in Nat
      BY <3>1, WorthNat
    <3>12. Value(e) = Worth(q) + Pending(q, none) /\ Value(e)' = Worth(q) + Pending(q, one)
      BY <3>1, <3>5 DEF Value, Worth, Pending, Effect
    <3>13. Value(e) = Worth(q) /\ Value(e)' = Worth(q) - Cost[q[1]]
      <4> HIDE DEF q, none, one
      <4> QED BY <3>6, <3>7, <3>8, <3>11, <3>12
    <3> QED BY <2>1, <2>3, <3>2, <3>6, <3>10, <3>11, <3>13
  <2> QED BY <2>2, <2>3
<1>4. Applies'
  BY <1>3 DEF Applies
<1> DEFINE f == [e \in Producers |-> Value(e)]
           g == [e \in Producers |-> Value(e)']
           h == [e \in Producers |-> IF Ends(e) THEN Cost[Head(queue[e])] ELSE 0]
<1>5. /\ f \in [Producers -> Int] /\ g \in [Producers -> Int] /\ h \in [Producers -> Int]
      /\ \A e \in Producers : f[e] = g[e] + h[e]
      /\ IsFiniteSet(Producers)
  BY <1>3, ConstantsAssumption
<1>6. made' = made + SumFunction(h) /\ SumFunction([e \in Producers |-> Value(e)])' = SumFunction(g)
      /\ SumFunction([e \in Producers |-> Value(e)]) = SumFunction(f)
  BY <1>2
<1> HIDE DEF f, g, h
<1>7. SumFunction(f) = SumFunction(g) + SumFunction(h)
  BY <1>5, SumPlus
<1>8. SumFunction(g) \in Int /\ SumFunction(h) \in Int
  BY <1>5, SumInt
<1>9. made' \in Int
  BY <1>1, <1>6, <1>8
<1>10. ASSUME Cost = Price PROVE Balance'
  <2>1. stock + delta + made + SumFunction(f) = Stock
    BY <1>1, <1>6, <1>10 DEF Ledger, Balance
  <2>2. stock + delta + made' + SumFunction(g) = Stock
    <3>1. stock \in Int /\ delta \in Int
      BY <1>1 DEF TypeOK
    <3> QED BY <1>1, <1>6, <1>7, <1>8, <2>1, <3>1
  <2>3. stock' + delta' + made' + SumFunction(g) = Stock
    BY <1>2, <2>2
  <2> QED BY <1>1, <1>6, <2>3 DEF Balance
<1> QED BY <1>4, <1>9, <1>10

(* Nothing is on its way at the start. *)
LEMMA LedgerInit == Init => Ledger
<1> SUFFICES ASSUME Init PROVE Ledger
  OBVIOUS
<1>1. TypeOK
  BY TypeInvInit DEF TypeInv
<1>2. \A e \in Producers : ops[e] = << >>
  BY DEF Init
<1>3. Applies
  BY <1>2 DEF Applies, Applicable
<1>4. ASSUME NEW e \in Producers PROVE Value(e) = Worth(queue[e]) /\ Worth(queue[e]) \in Nat
  <2>1. Worth(queue[e]) \in Nat
    BY <1>1, WorthNat DEF TypeOK
  <2>2. Value(e) = Worth(queue[e]) + 0
    BY <1>2, PendingNone DEF Value
  <2> QED BY <2>1, <2>2
<1> DEFINE f == [e \in Producers |-> Value(e)]
           g == [e \in Producers |-> Worth(queue[e])]
<1>5. f = g /\ g \in [Producers -> Int] /\ IsFiniteSet(Producers)
  BY <1>4, ConstantsAssumption
<1>6. pc = "idle" /\ stock = Stock /\ Stock \in Nat /\ made = Stock - (stock + SumFunction(g))
  BY ConstantsAssumption DEF Init, Holdings
<1> HIDE DEF g
<1>7. SumFunction(g) \in Int
  BY <1>5, SumInt
<1>8. stock + 0 + made + SumFunction(f) = Stock /\ made \in Int
  BY <1>5, <1>6, <1>7
<1>9. Balance
  BY <1>6, <1>8 DEF Balance
<1> QED BY <1>3, <1>8, <1>9 DEF Ledger

(* One operation of each queue is applied. *)
LEMMA LedgerApply ==
  ASSUME TypeInv, Ledger, clashed = "no", ApplyOperations
  PROVE  Applies' /\ (Cost = Price => Balance')
<1>1. Applies /\ TypeOK /\ pc = "apply"
  BY DEF Ledger, TypeInv, ApplyOperations
<1>2. /\ UNCHANGED <<stock, delta, made, pc>>
      /\ queue' = [e \in Producers |->
           IF ops[e] = << >> THEN queue[e] ELSE Operated(queue[e], Head(ops[e]))]
      /\ ops' = [e \in Producers |-> IF ops[e] = << >> THEN << >> ELSE Tail(ops[e])]
  BY DEF ApplyOperations
<1>3. ASSUME NEW e \in Producers
      PROVE  Value(e)' = Value(e) /\ Applicable(queue[e], ops[e])'
  <2>1. queue[e] \in Seq(Productions) /\ ops[e] \in Seq(Operation) /\ Applicable(queue[e], ops[e])
    BY <1>1 DEF TypeOK, Applies
  <2>2. Value(e)' = Worth(queue'[e]) + Pending(queue'[e], ops'[e])
    BY DEF Value, Worth, Pending, Effect
  <2>3. CASE ops[e] = << >>
    <3>1. queue'[e] = queue[e] /\ ops'[e] = ops[e]
      BY <1>2, <2>3
    <3> QED BY <2>1, <2>2, <3>1 DEF Value, Applicable
  <2>4. CASE ops[e] # << >>
    <3>1. queue'[e] = Operated(queue[e], Head(ops[e])) /\ ops'[e] = Tail(ops[e])
      BY <1>2, <2>4
    <3>2. PICK r : r = queue'[e]
      OBVIOUS
    <3>3. /\ Worth(r) + Pending(r, Tail(ops[e])) = Worth(queue[e]) + Pending(queue[e], ops[e])
          /\ Applicable(r, Tail(ops[e]))
      BY <2>1, <2>4, <3>1, <3>2, OperatedValue
    <3>4. Applicable(queue'[e], ops'[e])
      BY <3>1, <3>2, <3>3
    <3>5. Value(e)' = Value(e)
      BY <2>2, <3>1, <3>2, <3>3 DEF Value
    <3> QED BY <3>4, <3>5 DEF Applicable
  <2> QED BY <2>3, <2>4
<1>4. Applies'
  BY <1>3 DEF Applies
<1>5. [e \in Producers |-> Value(e)]' = [e \in Producers |-> Value(e)]
  BY <1>3
<1>6. Cost = Price => Balance'
  <2>1. SumFunction([e \in Producers |-> Value(e)])' = SumFunction([e \in Producers |-> Value(e)])
    BY <1>5
  <2>2. Cost = Price => Balance
    BY DEF Ledger
  <2> QED BY <1>1, <1>2, <2>1, <2>2 DEF Balance
<1> QED BY <1>4, <1>6

(* Steps that change no queue and no operation. *)
LEMMA LedgerSame ==
  ASSUME Ledger, clashed = "no", UNCHANGED <<queue, ops, made>>,
         stock' + (IF pc' = "idle" THEN 0 ELSE delta') = stock + (IF pc = "idle" THEN 0 ELSE delta)
  PROVE  Applies' /\ (Cost = Price => Balance')
<1>1. Applies'
  BY DEF Ledger, Applies, Applicable
<1>2. SumFunction([e \in Producers |-> Value(e)])' = SumFunction([e \in Producers |-> Value(e)])
  BY DEF Value, Worth, Pending, Effect
<1>3. (Cost = Price => Balance) => (Cost = Price => Balance')
  BY <1>2 DEF Balance
<1> QED BY <1>1, <1>3 DEF Ledger

(* Every step balances. *)
LEMMA LedgerNext == TypeInv /\ TypeInv' /\ Clock /\ Ledger /\ [Next]_vars => Ledger'
<1> SUFFICES ASSUME TypeInv, TypeInv', Clock, Ledger, [Next]_vars PROVE Ledger'
  OBVIOUS
<1>0. TypeOK /\ made \in Int
  BY DEF TypeInv, Ledger
<1>1. CASE BeginFrame
  <2>1. UNCHANGED <<queue, ops, made, clashed, stock>> /\ pc = "idle" /\ pc' = "update" /\ delta' = 0
    BY <1>1 DEF BeginFrame, producers
  <2>2. stock' + (IF pc' = "idle" THEN 0 ELSE delta') = stock + (IF pc = "idle" THEN 0 ELSE delta)
    BY <2>1
  <2> QED BY <1>0, <2>1, <2>2, LedgerSame DEF Ledger
<1>2. CASE ProductionSystem
  <2>1. ASSUME clashed # "no" PROVE made' \in Int
    <3> DEFINE h == [e \in Producers |-> IF Ends(e) THEN Cost[Head(queue[e])] ELSE 0]
    <3>1. h \in [Producers -> Int]
      <4>1. ASSUME NEW e \in Producers, Ends(e) PROVE Cost[Head(queue[e])] \in Nat
        BY <1>0, <4>1, CostNat DEF TypeOK, Ends
      <4> QED BY <4>1
    <3>2. made' = IF clashed = "before" THEN made ELSE made + SumFunction(h)
      BY <1>2 DEF ProductionSystem
    <3> HIDE DEF h
    <3>3. SumFunction(h) \in Int
      BY <3>1, SumInt, ConstantsAssumption
    <3> QED BY <1>0, <3>2, <3>3
  <2>2. clashed' = clashed
    BY <1>2 DEF ProductionSystem
  <2> QED BY <1>2, <2>1, <2>2, LedgerVisit DEF Ledger
<1>3. CASE NextInputs
  <2>1. UNCHANGED <<queue, ops, made, clashed, stock, delta>> /\ pc # "idle" /\ pc' # "idle"
    BY <1>3 DEF NextInputs, producers
  <2>2. stock' + (IF pc' = "idle" THEN 0 ELSE delta') = stock + (IF pc = "idle" THEN 0 ELSE delta)
    BY <2>1
  <2> QED BY <1>0, <2>1, <2>2, LedgerSame DEF Ledger
<1>4. CASE ApplyOperations
  BY <1>0, <1>4, LedgerApply DEF Ledger, ApplyOperations
<1>5. CASE EndFrame
  <2>1. /\ UNCHANGED <<queue, ops, made>> /\ pc = "apply" /\ pc' = "idle" /\ stock' = stock + delta
        /\ clashed' = "no" => clashed = "no"
    BY <1>5 DEF EndFrame
  <2>2. stock \in Int /\ delta \in Int
    BY <1>0 DEF TypeOK
  <2>3. stock' + (IF pc' = "idle" THEN 0 ELSE delta') = stock + (IF pc = "idle" THEN 0 ELSE delta)
    BY <2>1, <2>2
  <2> QED BY <1>0, <2>1, <2>3, LedgerSame DEF Ledger
<1>6. CASE \E e \in Producers : Destroy(e)
  <2>1. UNCHANGED <<queue, ops, made, clashed, stock, delta, pc>>
    BY <1>6 DEF Destroy
  <2> QED BY <1>0, <2>1, LedgerSame DEF Ledger
<1>7. CASE AllCancelled
  <2>1. UNCHANGED <<queue, ops, made, clashed, stock, delta, pc>>
    BY <1>7 DEF AllCancelled, producers
  <2> QED BY <1>0, <2>1, LedgerSame DEF Ledger
<1>8. CASE CancelOfDestroyed
  <2>1. /\ victim \in Producers /\ index \in DOMAIN queue[victim] /\ Cancel(victim, index)
        /\ UNCHANGED <<queue, stock, made, pc>> /\ pc # "idle"
    BY <1>8 DEF CancelOfDestroyed, producers, TypeInv, TypeOK, PhasesOK
  <2> QED BY <1>0, <2>1, LedgerCancel DEF Ledger
<1>9. CASE \E e \in Producers, p \in Productions : AddProduction(e, p)
  <2>1. PICK e \in Producers, p \in Productions : AddProduction(e, p)
    BY <1>9
  <2>2. Buy(e, p) /\ UNCHANGED <<queue, stock, made, pc, clashed>> /\ pc # "idle"
    BY <2>1 DEF AddProduction, producers
  <2> QED BY <1>0, <2>2, LedgerBuy DEF Ledger
<1>10. CASE \E e \in Producers : \E i \in DOMAIN queue[e] : CancelProduction(e, i)
  <2>1. PICK e \in Producers : \E i \in DOMAIN queue[e] : CancelProduction(e, i)
    BY <1>10
  <2>2. PICK i \in DOMAIN queue[e] : CancelProduction(e, i)
    BY <2>1
  <2>3. Cancel(e, i) /\ UNCHANGED <<queue, stock, made, pc>> /\ pc # "idle"
    BY <2>2 DEF CancelProduction, producers
  <2> QED BY <1>0, <2>3, LedgerCancel DEF Ledger
<1>11. CASE \E p \in Productions : NewProduction(p)
  <2>1. PICK p \in Productions : NewProduction(p)
    BY <1>11
  <2>2. PICK e \in Producers : Buy(e, p)
    BY <2>1 DEF NewProduction
  <2>3. UNCHANGED <<queue, stock, made, pc, clashed>> /\ pc # "idle"
    BY <2>1 DEF NewProduction, producers
  <2> QED BY <1>0, <2>2, <2>3, LedgerBuy DEF Ledger
<1>12. CASE UNCHANGED vars
  <2>1. UNCHANGED <<queue, ops, made, clashed, stock, delta, pc>>
    BY <1>12 DEF vars, producers
  <2> QED BY <1>0, <2>1, LedgerSame DEF Ledger
<1> QED BY <1>1, <1>2, <1>3, <1>4, <1>5, <1>6, <1>7, <1>8, <1>9, <1>10, <1>11, <1>12 DEF Next

(* Conserved: nothing is paid and lost, given for nothing, or given back    *)
(* and still produced, as long as no frame removes twice from one queue.    *)
THEOREM ConservedHolds == Spec => []Conserved
<1>1. TypeInv /\ Clock /\ Ledger => Conserved
  <2> SUFFICES ASSUME TypeInv, Ledger, pc = "idle", clashed = "no", Cost = Price
               PROVE  Holdings + made = Stock
    BY DEF Conserved
  <2> DEFINE f == [e \in Producers |-> Value(e)]
             g == [e \in Producers |-> Worth(queue[e])]
  <2>1. ASSUME NEW e \in Producers PROVE Value(e) = Worth(queue[e]) /\ Worth(queue[e]) \in Nat
    <3>1. Worth(queue[e]) \in Nat /\ ops[e] = << >>
      BY WorthNat DEF TypeInv, TypeOK, PhasesOK
    <3>2. Value(e) = Worth(queue[e]) + 0
      BY <3>1, PendingNone DEF Value
    <3> QED BY <3>1, <3>2
  <2>2. f = g /\ g \in [Producers -> Int] /\ IsFiniteSet(Producers)
    BY <2>1, ConstantsAssumption
  <2>3. stock + 0 + made + SumFunction(f) = Stock /\ Holdings = stock + SumFunction(g)
    BY DEF Ledger, Balance, Holdings
  <2>4. stock \in Int /\ made \in Int
    BY DEF TypeInv, TypeOK, Ledger
  <2> HIDE DEF f, g
  <2>5. SumFunction(g) \in Int
    BY <2>2, SumInt
  <2> QED BY <2>2, <2>3, <2>4, <2>5
<1>2. TypeInv /\ Clock /\ TypeInv' /\ Ledger /\ [Next]_vars => Ledger'
  BY LedgerNext
<1> QED BY <1>1, <1>2, LedgerInit, ClockAlways, PTL DEF Spec
=============================================================================
