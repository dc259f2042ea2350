----------------------------- MODULE Production ------------------------------
(***************************************************************************)
(* Production and resources of one player of octopus.  Players order and   *)
(* cancel productions, the first production of each queue advances until   *)
(* it is produced, a destroyed producer cancels all it had                 *)
(* (ProductionSystem.hh, InputProduction.hh, InputProduction.defs.hh).     *)
(* All of them read what the last frame left and write steps, which are    *)
(* applied at the end of the frame (ProductionQueue.cc, ResourceStock.cc); *)
(* only what the frame spends is known at once (ResourceSpent).            *)
(*                                                                         *)
(* One resource stands for all: it is checked, and its steps are added,    *)
(* resource by resource.  A start timestamp is kept as the time since it.  *)
(* Undoing frames is the matter of StepHistory.                            *)
(***************************************************************************)
EXTENDS Integers, Sequences, FiniteSets, SequencesExt

CONSTANTS Producers,
          Productions, \* the templates of the library
          Makes,       \* Makes[e]: what e has the requirements to produce
          Cost,        \* Cost[p]: what is taken for p, after reductions
          Price,       \* Price[p]: resource_consumption of p
          Duration,    \* Duration[p], in frames
          Stock,       \* what the player begins with
          None,        \* nothing is added
          MaxQueue,    \* bound: productions of a queue
          MaxInputs,   \* bound: operations on a queue in one frame
          MaxStock     \* bound: the stock that cancellations may lead to

ASSUME ConstantsAssumption ==
  /\ IsFiniteSet(Producers)
  /\ Makes \in [Producers -> SUBSET Productions]
  /\ Cost \in [Productions -> Nat] /\ Price \in [Productions -> Nat]
  /\ Duration \in [Productions -> Nat]
  /\ None \notin Productions \union Producers
  /\ Stock \in Nat /\ MaxStock \in Nat /\ MaxQueue \in Nat /\ MaxInputs \in Nat

VARIABLES queue,   \* queue[e]: ProductionQueue::queue
          age,     \* age[e]: frames since start_timestamp, 0 if that is 0
          alive,   \* alive[e]: e is not disabled
          stock,   \* the ResourceStock of the player
          spent,   \* the ResourceSpent of the player
          early,   \* the time stamp is 0
          pc,      \* the phase to run next
          ops,     \* ops[e]: the ProductionQueueOperationSteps of the frame
          stamp,   \* stamp[e]: its last ProductionQueueTimestampStep
          delta,   \* its ResourceStockSteps, summed
          victim,  \* the producer whose destruction is observed, or None
          index,   \* the index the observer is to cancel
          since,   \* history: frames that the first of queue[e] could use
          made,    \* history: the cost of what was produced
          clashed  \* history: two removals from one queue in a frame, in
                   \* this one ("now") or in one before

producers == <<queue, age, alive, early>>
observer == <<victim, index>>
vars == <<producers, stock, spent, pc, ops, stamp, delta, observer, since, made,
          clashed>>

(* ProductionQueueOperationStep: at is the cancelled index counted from 1,  *)
(* 0 to cancel nothing.                                                     *)
Addition(p) == [add |-> p, at |-> 0]
Removal(i)  == [add |-> None, at |-> i]
Operation == [add : Productions \union {None}, at : Nat]

(* Its apply_step: an index beyond the end is ignored. *)
Operated(q, op) ==
  LET cut == IF op.at \in DOMAIN q THEN RemoveAt(q, op.at) ELSE q
  IN IF op.add = None THEN cut ELSE Append(cut, op.add)

HasRemoval(seq) == \E i \in DOMAIN seq : seq[i].at # 0
Worth(q) == SumFunction([i \in DOMAIN q |-> Cost[q[i]]])
Holdings == stock + SumFunction([e \in Producers |-> Worth(queue[e])])

(* A queue may be given to a producer when it is created. *)
Init ==
  /\ queue \in [Producers -> {<< >>} \union {<<p>> : p \in Productions}]
  /\ \A e \in Producers : \A i \in DOMAIN queue[e] : queue[e][i] \in Makes[e]
  /\ age = [e \in Producers |-> 0]
  /\ alive = [e \in Producers |-> TRUE]
  /\ stock = Stock /\ spent = 0 /\ early = TRUE
  /\ pc = "idle"
  /\ ops = [e \in Producers |-> << >>]
  /\ stamp = [e \in Producers |-> "none"]
  /\ delta = 0
  /\ victim = None /\ index = 1
  /\ since = [e \in Producers |-> 0]
  /\ made = Stock - Holdings
  /\ clashed = "no"

(* InitializationPhase: new layers of steps, and nothing is spent yet. *)
BeginFrame ==
  /\ pc = "idle" /\ pc' = "update"
  /\ spent' = 0 /\ delta' = 0
  /\ stamp' = [e \in Producers |-> "none"]
  /\ since' = [e \in Producers |->
       IF queue[e] # << >> /\ alive[e] /\ ~ early THEN since[e] + 1 ELSE since[e]]
  /\ UNCHANGED <<producers, stock, ops, observer, made, clashed>>

(* Altered cancel_production: the price is taken off what was spent. *)
CancelUnspends(e, i) ==
  /\ ops' = [ops EXCEPT ![e] = Append(@, Removal(i))]
  /\ stamp' = IF i = 1 THEN [stamp EXCEPT ![e] = "reset"] ELSE stamp
  /\ delta' = delta + Price[queue[e][i]]
  /\ spent' = spent - Price[queue[e][i]]
  /\ clashed' = IF HasRemoval(ops[e]) /\ clashed = "no" THEN "now" ELSE clashed

(* Altered cancel_production: the production after the one asked for goes. *)
CancelNext(e, i) ==
  /\ ops' = [ops EXCEPT ![e] = Append(@, Removal(i + 1))]
  /\ stamp' = IF i = 1 THEN [stamp EXCEPT ![e] = "reset"] ELSE stamp
  /\ delta' = delta + Price[queue[e][i]]
  /\ clashed' = IF HasRemoval(ops[e]) /\ clashed = "no" THEN "now" ELSE clashed
  /\ UNCHANGED spent

(* Altered cancel_production: the timestamp stays. *)
CancelKeepsTimestamp(e, i) ==
  /\ ops' = [ops EXCEPT ![e] = Append(@, Removal(i))]
  /\ delta' = delta + Price[queue[e][i]]
  /\ clashed' = IF HasRemoval(ops[e]) /\ clashed = "no" THEN "now" ELSE clashed
  /\ UNCHANGED <<spent, stamp>>

(* cancel_production: the index is removed, the first production gives its *)
(* timestamp back, and the price goes to the stock, all of it by steps.    *)
Cancel(e, i) ==
  /\ ops' = [ops EXCEPT ![e] = Append(@, Removal(i))]
  /\ stamp' = IF i = 1 THEN [stamp EXCEPT ![e] = "reset"] ELSE stamp
  /\ delta' = delta + Price[queue[e][i]]
  /\ clashed' = IF HasRemoval(ops[e]) /\ clashed = "no" THEN "now" ELSE clashed
  /\ UNCHANGED spent

(* UpdatePhase: a producer is disabled and the observer of Destroyed       *)
(* cancels every index of its queue.                                       *)
Destroy(e) ==
  /\ pc = "update" /\ victim = None /\ alive[e]
  /\ alive' = [alive EXCEPT ![e] = FALSE]
  /\ victim' = e /\ index' = 1
  /\ UNCHANGED <<queue, age, early, stock, spent, pc, ops, stamp, delta, since,
                 made, clashed>>

CancelOfDestroyed ==
  /\ victim # None /\ index \in DOMAIN queue[victim]
  /\ Cancel(victim, index)
  /\ index' = index + 1
  /\ UNCHANGED <<producers, stock, pc, victim, since, made>>

AllCancelled ==
  /\ victim # None /\ index \notin DOMAIN queue[victim]
  /\ victim' = None
  /\ UNCHANGED <<producers, stock, spent, pc, ops, stamp, delta, index, since, made,
                 clashed>>

Starts(e) == alive[e] /\ queue[e] # << >> /\ age[e] = 0
(* Altered end of a production: it takes a frame too many. *)
EndsLate(e) == /\ alive[e] /\ queue[e] # << >> /\ age[e] # 0
               /\ Duration[Head(queue[e])] < age[e] + 1

Ends(e) == /\ alive[e] /\ queue[e] # << >> /\ age[e] # 0
           /\ Duration[Head(queue[e])] <= age[e] + 1

(* PostUpdatePhase: the production system visits all the producers that   *)
(* are not disabled.                                                       *)
ProductionSystem ==
  /\ pc = "update" /\ victim = None /\ pc' = "adds"
  /\ ops' = [e \in Producers |-> IF Ends(e) THEN Append(ops[e], Removal(1)) ELSE ops[e]]
  /\ stamp' = [e \in Producers |-> IF Starts(e) THEN "now"
                                   ELSE IF Ends(e) THEN "reset" ELSE stamp[e]]
  /\ made' = IF clashed = "before" THEN made
             ELSE made + SumFunction([e \in Producers |->
                                    IF Ends(e) THEN Cost[Head(queue[e])] ELSE 0])
  /\ UNCHANGED <<producers, stock, spent, delta, observer, since, clashed>>

HasRoom(e) ==
  /\ Len(ops[e]) < MaxInputs
  /\ Len(queue[e]) + Len(SelectSeq(ops[e], LAMBDA op : op.add # None)) < MaxQueue

(* check_resources, then spend_resources, and the step on the queue. *)
Buy(e, p) ==
  /\ HasRoom(e) /\ p \in Makes[e]
  /\ stock - spent >= Cost[p]
  /\ ops' = [ops EXCEPT ![e] = Append(@, Addition(p))]
  /\ delta' = delta - Cost[p]
  /\ spent' = spent + Cost[p]

(* Altered handle_add_production: what is spent is not marked as such. *)
AddProductionUnmarked(e, p) ==
  /\ pc = "adds" /\ HasRoom(e) /\ p \in Makes[e]
  /\ stock - spent >= Cost[p]
  /\ ops' = [ops EXCEPT ![e] = Append(@, Addition(p))]
  /\ delta' = delta - Cost[p]
  /\ UNCHANGED <<producers, stock, spent, pc, stamp, observer, since, made, clashed>>

(* InputPhase, handle_add_production: the player names the producer. *)
AddProduction(e, p) ==
  /\ pc = "adds" /\ Buy(e, p)
  /\ UNCHANGED <<producers, stock, pc, stamp, observer, since, made, clashed>>

(* handle_cancel_production *)
CancelProduction(e, i) ==
  /\ pc = "cancels" /\ Len(ops[e]) < MaxInputs
  /\ i \in DOMAIN queue[e]
  /\ stock + delta + Price[queue[e][i]] <= MaxStock
  /\ Cancel(e, i)
  /\ UNCHANGED <<producers, stock, pc, observer, since, made>>

(* handle_new_production: the engine chooses among the producers that can. *)
NewProduction(p) ==
  /\ pc = "orders" /\ \E e \in Producers : Buy(e, p)
  /\ UNCHANGED <<producers, stock, pc, stamp, observer, since, made, clashed>>

(* unstack_input: additions, then cancellations, then orders; then the     *)
(* steps of the frame are applied.                                         *)
NextInputs ==
  /\ \/ pc = "adds" /\ pc' = "cancels"
     \/ pc = "cancels" /\ pc' = "orders"
     \/ pc = "orders" /\ pc' = "apply"
  /\ UNCHANGED <<producers, stock, spent, ops, stamp, delta, observer, since, made,
                 clashed>>

(* SteppingPhase: the operations on each queue, in order. *)
ApplyOperations ==
  /\ pc = "apply" /\ \E e \in Producers : ops[e] # << >>
  /\ queue' = [e \in Producers |->
       IF ops[e] = << >> THEN queue[e] ELSE Operated(queue[e], Head(ops[e]))]
  /\ since' = [e \in Producers |->
       IF ops[e] # << >> /\ Head(ops[e]).at = 1 THEN 0 ELSE since[e]]
  /\ ops' = [e \in Producers |-> IF ops[e] = << >> THEN << >> ELSE Tail(ops[e])]
  /\ UNCHANGED <<age, alive, early, stock, spent, pc, stamp, delta, observer, made,
                 clashed>>

(* The other steps; a production that starts at time 0 has not started.    *)
(* The age of what a dead producer has is used no more and stops.          *)
EndFrame ==
  /\ pc = "apply" /\ \A e \in Producers : ops[e] = << >>
  /\ age' = [e \in Producers |->
       CASE stamp[e] = "now"   -> IF early THEN 0 ELSE 1
         [] stamp[e] = "reset" -> 0
         [] stamp[e] = "none"  -> IF age[e] = 0 \/ ~ alive[e] THEN age[e] ELSE age[e] + 1]
  /\ stock' = stock + delta
  /\ early' = FALSE
  /\ pc' = "idle"
  /\ clashed' = IF clashed = "no" THEN "no" ELSE "before"
  /\ UNCHANGED <<queue, alive, spent, ops, stamp, delta, observer, since, made>>

Next ==
  \/ BeginFrame \/ ProductionSystem \/ NextInputs \/ ApplyOperations \/ EndFrame
  \/ (\E e \in Producers : Destroy(e)) \/ CancelOfDestroyed \/ AllCancelled
  \/ \E e \in Producers, p \in Productions : AddProduction(e, p)
  \/ \E e \in Producers : \E i \in DOMAIN queue[e] : CancelProduction(e, i)
  \/ \E p \in Productions : NewProduction(p)

Spec == Init /\ [][Next]_vars

-----------------------------------------------------------------------------
(* The data of the producers and of the frame keep their shape. *)
TypeOK ==
  /\ queue \in [Producers -> Seq(Productions)]
  /\ age \in [Producers -> Nat]
  /\ alive \in [Producers -> BOOLEAN]
  /\ stock \in Int /\ spent \in Nat /\ delta \in Int
  /\ early \in BOOLEAN
  /\ pc \in {"idle", "update", "adds", "cancels", "orders", "apply"}
  /\ ops \in [Producers -> Seq(Operation)]
  /\ stamp \in [Producers -> {"none", "now", "reset"}]
  /\ since \in [Producers -> Nat]
  /\ victim \in Producers \union {None} /\ index \in Nat \ {0}
  /\ clashed \in {"no", "now", "before"}

(* check_resources against the stock less what the frame has spent: however *)
(* many orders and cancellations come in one frame, together they never     *)
(* take more than there is.                                                 *)
NoOverspend == stock >= 0 /\ (pc # "idle" => stock + delta >= 0)

(* Nothing is paid and lost, given for nothing, or given back and still    *)
(* produced, as long as no frame removes twice from one queue and nothing  *)
(* is reduced.                                                             *)
Conserved ==
  pc = "idle" /\ clashed = "no" /\ Cost = Price => Holdings + made = Stock

(* cancel_production gives back what was paid for a production that is then *)
(* not produced, whatever else happens to the queue in that frame.          *)
GivenBackOnce ==
  [][EndFrame /\ clashed # "before" => Holdings' + made' = Stock]_vars

(* A production is produced only after all the frames of its duration at    *)
(* the head of its queue, whatever was cancelled before it.                 *)
FullDuration ==
  [][ProductionSystem => \A e \in Producers :
       Len(ops'[e]) > Len(ops[e]) => since[e] >= Duration[Head(queue[e])]]_vars

(* And it never stays there longer: two frames at least, since the first   *)
(* only writes the timestamp, else as long as it lasts.                    *)
OnTime ==
  \A e \in Producers : alive[e] /\ queue[e] # << >> =>
    since[e] <= IF Duration[Head(queue[e])] < 2 THEN 2 ELSE Duration[Head(queue[e])]
=============================================================================
