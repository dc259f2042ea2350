---------------------------- MODULE StepHistory -----------------------------
(***************************************************************************)
(* The step history of octopus: every change a frame makes to the world is *)
(* a step kept, with a memento of the value it replaced, in the layer of   *)
(* that frame (StepContext.hh, StepSystems.hh), so that frames can be      *)
(* undone by revert_n_steps and then dropped by clear_n_steps              *)
(* (StepReversal.hh).                                                      *)
(*                                                                         *)
(* A frame owns one layer in each of five lists.  The lists are pushed and *)
(* popped together, so layers[f] is the record of frame f, indexed by the  *)
(* list it belongs to; the contents of the sixth list, the mementos of the *)
(* command queues, is in CommandQueue.tla and only its length is kept.     *)
(* A slot is a field of a component of an entity, e.g. Attack::windup.     *)
(***************************************************************************)
EXTENDS Naturals, Sequences

CONSTANTS Slots,      \* the fields that steps write
          Values,     \* what a slot may hold
          WrittenBy,  \* WrittenBy[s]: the lists holding steps that write s
          Kept,       \* step_kept_p: layers retained, 0 to retain them all
          MaxSteps,   \* bound: steps of one frame
          MaxFrames,  \* bound: frames between the start and now
          MaxRevert   \* bound: frames undone by one call

(* In the order a frame applies them. *)
PreSteps   == 1   \* StepManager::presteps
StatePre   == 2   \* StateStepContainer::prelayers
Steps      == 3   \* StepManager::steps
StateSteps == 4   \* StateStepContainer::layers
CompSteps  == 5   \* StepManager::component_steps
Stores     == PreSteps..CompSteps

ASSUME ConstantsAssumption ==
  /\ WrittenBy \in [Slots -> SUBSET Stores]
  /\ Kept \in Nat
  /\ MaxSteps \in Nat
  /\ MaxFrames \in Nat
  /\ MaxRevert \in Nat

VARIABLES val,       \* the world: the value of every slot
          layers,    \* layers[f][k]: the steps of frame f in list k
          mementos,  \* the length of CommandQueueMementoManager::lMementos
          pc,        \* what the engine is doing
          store,     \* the list being applied or reverted
          layer,     \* the layer being reverted
          pos,       \* how many of its steps are still to revert
          target,    \* the layers at most target are not to be reverted
          asked,     \* steps_p of the call
          played,    \* frames played and not undone
          start      \* history: start[f], the world when layers[f] was added

vars == <<val, layers, mementos, pc, store, layer, pos, target, asked, played,
          start>>

Worlds == [Slots -> Values]
(* A StepTuple: where the step writes, and the memento taken when it did. *)
StepTuple == [slot : Slots, old : Values]
EmptyLayer == [k \in Stores |-> << >>]
AtMost(n, m) == IF n < m THEN n ELSE m
Depth == Len(layers)
DropFirst(seq) == IF Kept # 0 /\ Len(seq) > Kept THEN Tail(seq) ELSE seq
StepsOfFrame == Len(layers[Depth][PreSteps]) + Len(layers[Depth][StatePre])
                + Len(layers[Depth][Steps]) + Len(layers[Depth][StateSteps])
                + Len(layers[Depth][CompSteps])

(* set_up_step_systems adds one empty layer before any frame is played;    *)
(* the list of command mementos starts empty.                              *)
Init ==
  /\ val \in Worlds
  /\ layers = <<EmptyLayer>>
  /\ start = <<val>>
  /\ mementos = 0
  /\ pc = "idle" /\ store = CompSteps
  /\ layer = 0 /\ pos = 0 /\ target = 0 /\ asked = 0 /\ played = 0

(* Altered AddLayer: the length is tested before the new layer is pushed. *)
AddLayerTestedFirst ==
  /\ pc = "idle" /\ played < MaxFrames
  /\ layers' = Append(DropFirst(layers), EmptyLayer)
  /\ start' = Append(DropFirst(start), val)
  /\ mementos' = IF Kept # 0 /\ mementos > Kept THEN mementos ELSE mementos + 1
  /\ played' = played + 1
  /\ pc' = "apply" /\ store' = PreSteps
  /\ UNCHANGED <<val, layer, pos, target, asked>>

(* Altered AddLayer: the command mementos are never dropped. *)
AddLayerKeepsMementos ==
  /\ pc = "idle" /\ played < MaxFrames
  /\ layers' = DropFirst(Append(layers, EmptyLayer))
  /\ start' = DropFirst(Append(start, val))
  /\ mementos' = mementos + 1 /\ played' = played + 1
  /\ pc' = "apply" /\ store' = PreSteps
  /\ UNCHANGED <<val, layer, pos, target, asked>>

(* InitializationPhase: a new layer everywhere, the oldest dropped when    *)
(* more than step_kept_p would be kept.                                    *)
AddLayer ==
  /\ pc = "idle" /\ played < MaxFrames
  /\ layers' = DropFirst(Append(layers, EmptyLayer))
  /\ start' = DropFirst(Append(start, val))
  /\ mementos' = IF Kept # 0 /\ mementos + 1 > Kept THEN mementos
                                                    ELSE mementos + 1
  /\ played' = played + 1
  /\ pc' = "apply" /\ store' = PreSteps
  /\ UNCHANGED <<val, layer, pos, target, asked>>

(* A step some system queued in the list being applied: the memento takes  *)
(* the present value, then the slot takes the new one (PreUpdatePhase for  *)
(* the pre lists, SteppingPhase for the others).                           *)
ApplyStep ==
  /\ pc = "apply" /\ StepsOfFrame < MaxSteps
  /\ \E s \in Slots, v \in Values :
       /\ store \in WrittenBy[s]
       /\ layers' = [layers EXCEPT ![Depth][store] =
                       Append(@, [slot |-> s, old |-> val[s]])]
       /\ val' = [val EXCEPT ![s] = v]
  /\ UNCHANGED <<mementos, pc, store, layer, pos, target, asked, played, start>>

(* The list is applied: on to the next one, or the end of the frame. *)
NextStore ==
  /\ pc = "apply"
  /\ IF store = CompSteps THEN pc' = "idle" /\ store' = store
                          ELSE pc' = pc /\ store' = store + 1
  /\ UNCHANGED <<val, layers, mementos, layer, pos, target, asked, played, start>>

(* revert_n_steps(n), for frames that were played.  The command mementos   *)
(* are restored first; then the lists are taken last to first.             *)
RevertNSteps ==
  /\ pc = "idle"
  /\ \E n \in 1..MaxRevert :
       /\ n <= played
       /\ asked' = n
       /\ target' = Depth - AtMost(n, Depth)
  /\ IF Depth = 0
     THEN pc' = "reverted" /\ UNCHANGED <<store, layer, pos>>
     ELSE /\ pc' = "revert" /\ store' = CompSteps /\ layer' = Depth
          /\ pos' = Len(layers[Depth][CompSteps])
  /\ UNCHANGED <<val, layers, mementos, played, start>>

(* Altered UndoStep: the steps of a layer are reverted first to last. *)
UndoStepForward ==
  /\ pc = "revert" /\ pos > 0
  /\ LET steps == layers[layer][store]
         step == steps[Len(steps) + 1 - pos]
     IN val' = [val EXCEPT ![step.slot] = step.old]
  /\ pos' = pos - 1
  /\ UNCHANGED <<layers, mementos, pc, store, layer, target, asked, played, start>>

(* revert_all, revert_container, StateStepLayer::revert: the steps of a    *)
(* layer last to first, each giving back the value of its memento.         *)
UndoStep ==
  /\ pc = "revert" /\ pos > 0
  /\ LET step == layers[layer][store][pos]
     IN val' = [val EXCEPT ![step.slot] = step.old]
  /\ pos' = pos - 1
  /\ UNCHANGED <<layers, mementos, pc, store, layer, target, asked, played, start>>

(* The layer is reverted: the one before it, while fewer than n are. *)
PreviousLayer ==
  /\ pc = "revert" /\ pos = 0 /\ layer - 1 > target
  /\ layer' = layer - 1
  /\ pos' = Len(layers[layer - 1][store])
  /\ UNCHANGED <<val, layers, mementos, pc, store, target, asked, played, start>>

(* Altered PreviousStore: the presteps are forgotten. *)
PreviousStoreNoPresteps ==
  /\ pc = "revert" /\ pos = 0 /\ layer - 1 = target
  /\ IF store = StatePre
     THEN pc' = "reverted" /\ UNCHANGED <<store, layer, pos>>
     ELSE /\ pc' = pc /\ store' = store - 1 /\ layer' = Depth
          /\ pos' = Len(layers[Depth][store - 1])
  /\ UNCHANGED <<val, layers, mementos, target, asked, played, start>>

(* The list is reverted: the one applied before it, or the end. *)
PreviousStore ==
  /\ pc = "revert" /\ pos = 0 /\ layer - 1 = target
  /\ IF store = PreSteps
     THEN pc' = "reverted" /\ UNCHANGED <<store, layer, pos>>
     ELSE /\ pc' = pc /\ store' = store - 1 /\ layer' = Depth
          /\ pos' = Len(layers[Depth][store - 1])
  /\ UNCHANGED <<val, layers, mementos, target, asked, played, start>>

(* Altered ClearNSteps: the loop runs once too often. *)
ClearOneTooMany ==
  /\ pc = "reverted"
  /\ layers' = SubSeq(layers, 1, target - 1)
  /\ start' = SubSeq(start, 1, target)
  /\ mementos' = mementos - AtMost(asked + 1, mementos)
  /\ played' = played - AtMost(asked, mementos)
  /\ pc' = "idle"
  /\ UNCHANGED <<val, store, layer, pos, target, asked>>

(* clear_n_steps(n), which follows revert_n_steps(n): the last layers of   *)
(* each list are dropped, as far as there are any.                         *)
ClearNSteps ==
  /\ pc = "reverted"
  /\ layers' = SubSeq(layers, 1, target)
  /\ start' = SubSeq(start, 1, target)
  /\ mementos' = mementos - AtMost(asked, mementos)
  /\ played' = played - AtMost(asked, mementos)
  /\ pc' = "idle"
  /\ UNCHANGED <<val, store, layer, pos, target, asked>>

Next == \/ AddLayer \/ ApplyStep \/ NextStore
        \/ RevertNSteps \/ UndoStep \/ PreviousLayer \/ PreviousStore
        \/ ClearNSteps

Spec == Init /\ [][Next]_vars

-----------------------------------------------------------------------------
(* The engine's data keep their shape. *)
TypeOK ==
  /\ val \in Worlds
  /\ layers \in Seq([Stores -> Seq(StepTuple)])
  /\ start \in Seq(Worlds) /\ Len(start) = Depth
  /\ mementos \in Nat /\ played \in Nat /\ asked \in Nat
  /\ pc \in {"idle", "apply", "revert", "reverted"}
  /\ store \in Stores
  /\ layer \in Nat /\ pos \in Nat /\ target \in Nat

(* revert_n_steps: once all the lists are reverted the whole world is what *)
(* it was when the oldest of the reverted frames began.                    *)
RevertRestores == pc = "reverted" /\ target < Depth => val = start[target + 1]

(* When RevertRestores can be relied on: one frame at a time, or slots that *)
(* are each written from one list.                                         *)
LastInFirstOut ==
  MaxRevert <= 1 \/ \A s \in Slots : \A k, l \in WrittenBy[s] : k = l

(* The assertion at the end of revert_n_steps: as many layers of steps     *)
(* were reverted as layers of command mementos, whatever the retention and *)
(* however many rewinds came before.                                       *)
SanityCheck ==
  pc = "reverted" => AtMost(asked, Depth) = AtMost(asked, mementos)

(* Retention: never more than Kept frames are held once frames are played, *)
(* and a frame that was played and not dropped can always be undone.       *)
RetentionBound ==
  /\ Kept # 0 => Depth <= Kept /\ mementos <= Kept
  /\ mementos < played => mementos = Depth

(* The worlds between frames, as Timeline sees them.  A rewind counts from *)
(* the moment it is asked for; one that finds no layer changes nothing.    *)
Past == IF pc = "apply" THEN start
        ELSE IF pc = "idle" \/ target = Depth THEN Append(start, val)
        ELSE SubSeq(start, 1, target + 1)

Line == INSTANCE Timeline WITH past <- Past

(* Playing, undoing and dropping frames is a walk on a line of worlds. *)
TimelineSpec == Line!Spec
=============================================================================
