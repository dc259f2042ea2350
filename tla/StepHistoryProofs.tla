------------------------- MODULE StepHistoryProofs --------------------------
(***************************************************************************)
(* Proofs about StepHistory, for all slots, values, retention and bounds.  *)
(***************************************************************************)
EXTENDS StepHistory, SequenceTheorems, TLAPS

LayerType == [Stores -> Seq(StepTuple)]

(* Where the cursor of a running revert_n_steps may be. *)
CursorOK ==
  /\ pc = "apply" => Depth > 0
  /\ pc \in {"revert", "reverted"} =>
       target = Depth - AtMost(asked, Depth) /\ asked \in 1..MaxRevert /\ asked <= played
  /\ pc = "revert" =>
       /\ layer \in (target + 1)..Depth
       /\ pos <= Len(layers[layer][store])

(* The lengths of the two kinds of lists: the layer set up before the first *)
(* frame makes the difference until a layer is dropped.                     *)
LengthsOK ==
  /\ mementos = Depth \/ (mementos + 1 = Depth /\ mementos = played)
  /\ Kept # 0 => Depth <= Kept

TypeInv == TypeOK /\ CursorOK /\ LengthsOK

-----------------------------------------------------------------------------
(* DropFirst keeps a sequence as it is, or drops its first element. *)
LEMMA DropFirstFacts ==
  ASSUME NEW S, NEW seq \in Seq(S), Kept # 0 => Len(seq) <= Kept + 1
  PROVE  /\ DropFirst(seq) \in Seq(S)
         /\ Kept # 0 => Len(DropFirst(seq)) <= Kept
         /\ \/ DropFirst(seq) = seq /\ (Kept # 0 => Len(seq) <= Kept)
            \/ /\ DropFirst(seq) = Tail(seq)
               /\ Len(seq) = Kept + 1 /\ Kept # 0
               /\ Len(DropFirst(seq)) = Len(seq) - 1
               /\ \A i \in 1..(Len(seq) - 1) : DropFirst(seq)[i] = seq[i + 1]
BY ConstantsAssumption, SMT DEF DropFirst, ConstantsAssumption

(* The engine's data keep their shape, the cursor of a rewind stays inside *)
(* the layers there are, and the lists of layers differ by at most one.    *)
LEMMA TypeInvInit == Init => TypeInv
<1> SUFFICES ASSUME Init PROVE TypeInv
  OBVIOUS
<1>1. EmptyLayer \in LayerType
  BY DEF EmptyLayer, LayerType, StepTuple
<1> QED
  BY <1>1, ConstantsAssumption DEF Init, TypeInv, TypeOK, CursorOK, LengthsOK, LayerType, Depth, Stores, Worlds,
     PreSteps, CompSteps, ConstantsAssumption

(* Every action of the engine keeps it. *)
LEMMA TypeInvNext == TypeInv /\ [Next]_vars => TypeInv'
<1> SUFFICES ASSUME TypeInv, [Next]_vars PROVE TypeInv'
  OBVIOUS
<1> USE DEF Depth
<1>T. /\ layers \in Seq(LayerType) /\ start \in Seq(Worlds) /\ Len(start) = Len(layers)
      /\ val \in Worlds /\ mementos \in Nat /\ played \in Nat /\ asked \in Nat
      /\ layer \in Nat /\ pos \in Nat /\ target \in Nat /\ store \in Stores
      /\ pc \in {"idle", "apply", "revert", "reverted"} /\ Kept \in Nat /\ MaxRevert \in Nat
      /\ store \in Nat
  BY ConstantsAssumption DEF TypeInv, TypeOK, LayerType, ConstantsAssumption, Stores, PreSteps, CompSteps
<1>1. CASE AddLayer
  <2>1. EmptyLayer \in LayerType
    BY DEF EmptyLayer, LayerType
  <2>2. /\ Append(layers, EmptyLayer) \in Seq(LayerType)
        /\ Append(start, val) \in Seq(Worlds)
        /\ Len(Append(layers, EmptyLayer)) = Len(layers) + 1
        /\ Len(Append(start, val)) = Len(layers) + 1
    BY <1>T, <2>1
  <2>3. Kept # 0 => Len(layers) <= Kept
    BY DEF TypeInv, LengthsOK
  <2>4. /\ layers' \in Seq(LayerType) /\ start' \in Seq(Worlds)
        /\ Len(start') = Len(layers') /\ Len(layers') > 0
        /\ Kept # 0 => Len(layers') <= Kept
        /\ \/ Len(layers') = Len(layers) + 1 /\ (Kept # 0 => Len(layers) + 1 <= Kept)
           \/ Len(layers') = Len(layers) /\ Kept # 0 /\ Len(layers) = Kept
    <3>1. layers' = DropFirst(Append(layers, EmptyLayer)) /\ start' = DropFirst(Append(start, val))
      BY <1>1 DEF AddLayer
    <3> HIDE DEF LayerType, Worlds
    <3>2. QED
      BY <1>T, <2>2, <2>3, <3>1, SMTT(30), DropFirstFacts DEF DropFirst
  <2>5. TypeOK'
    BY <1>1, <1>T, <2>4 DEF AddLayer, TypeOK, LayerType, Stores, PreSteps, CompSteps
  <2>6. CursorOK'
    BY <1>1, <2>4 DEF AddLayer, CursorOK
  <2>7. LengthsOK'
    BY <1>1, <1>T, <2>4 DEF AddLayer, LengthsOK, TypeInv
  <2> QED
    BY <2>5, <2>6, <2>7 DEF TypeInv
<1>2. CASE ApplyStep
  <2>1. PICK s \in Slots, v \in Values :
          /\ layers' = [layers EXCEPT ![Depth][store] =
                          Append(@, [slot |-> s, old |-> val[s]])]
          /\ val' = [val EXCEPT ![s] = v]
    BY <1>2 DEF ApplyStep
  <2>2. Len(layers) > 0 /\ pc = "apply"
    BY <1>2, <1>T DEF ApplyStep, TypeInv, CursorOK
  <2>3. [slot |-> s, old |-> val[s]] \in StepTuple
    BY <1>T DEF StepTuple, Worlds
  <2>4. layers[Depth] \in LayerType
    BY <1>T, <2>2
  <2>5. [layers[Depth] EXCEPT ![store] = Append(@, [slot |-> s, old |-> val[s]])] \in LayerType
    BY <1>T, <2>3, <2>4 DEF LayerType
  <2>6. layers' \in Seq(LayerType) /\ Len(layers') = Len(layers)
    BY <1>T, <2>1, <2>2, <2>5
  <2>7. val' \in Worlds
    BY <1>T, <2>1 DEF Worlds
  <2> QED
    BY <1>2, <1>T, <2>2, <2>6, <2>7
    DEF ApplyStep, TypeInv, TypeOK, CursorOK, LengthsOK, LayerType
<1>3. CASE NextStore
  <2>1. store' \in Stores
    BY <1>3, <1>T DEF NextStore, Stores, PreSteps, CompSteps
  <2> QED
    BY <1>3, <1>T, <2>1 DEF NextStore, TypeInv, TypeOK, CursorOK, LengthsOK, LayerType
<1>4. CASE RevertNSteps
  <2>1. PICK n \in 1..MaxRevert : n <= played /\ asked' = n /\ target' = Depth - AtMost(n, Depth)
    BY <1>4 DEF RevertNSteps
  <2>2. CompSteps \in Stores
    BY DEF Stores, PreSteps, CompSteps
  <2>3. Depth > 0 => layers[Depth] \in LayerType
    BY <1>T
  <2>4. Depth > 0 => layers[Depth][CompSteps] \in Seq(StepTuple)
    BY <2>2, <2>3 DEF LayerType
  <2>5. target' \in Nat /\ target' <= Depth /\ (Depth > 0 => target' < Depth)
    BY <1>T, <2>1 DEF AtMost
  <2>6. TypeOK'
    BY <1>4, <1>T, <2>1, <2>2, <2>4, <2>5 DEF RevertNSteps, TypeOK, LayerType
  <2>7. CursorOK'
    BY <1>4, <1>T, <2>1, <2>4, <2>5 DEF RevertNSteps, CursorOK
  <2>8. LengthsOK'
    BY <1>4, <1>T DEF RevertNSteps, LengthsOK, TypeInv
  <2> QED
    BY <2>6, <2>7, <2>8 DEF TypeInv
<1>5. CASE UndoStep
  <2>1. layer \in 1..Depth /\ pos \in 1..Len(layers[layer][store])
    BY <1>5, <1>T DEF UndoStep, TypeInv, CursorOK
  <2>2. layers[layer][store] \in Seq(StepTuple)
    BY <1>T, <2>1 DEF LayerType
  <2>3. layers[layer][store][pos] \in StepTuple
    BY <2>1, <2>2
  <2>4. val' \in Worlds
    BY <1>5, <1>T, <2>3 DEF UndoStep, StepTuple, Worlds
  <2> QED
    BY <1>5, <1>T, <2>1, <2>4 DEF UndoStep, TypeInv, TypeOK, CursorOK, LengthsOK, LayerType
<1>6. CASE PreviousLayer
  <2>1. layer - 1 \in (target + 1)..Depth
    BY <1>6, <1>T DEF PreviousLayer, TypeInv, CursorOK
  <2>2. layers[layer - 1][store] \in Seq(StepTuple)
    BY <1>T, <2>1 DEF LayerType
  <2> QED
    BY <1>6, <1>T, <2>1, <2>2 DEF PreviousLayer, TypeInv, TypeOK, CursorOK, LengthsOK, LayerType
<1>7. CASE PreviousStore
  <2>1. layer \in (target + 1)..Depth
    BY <1>7, <1>T DEF PreviousStore, TypeInv, CursorOK
  <2>2. store # PreSteps => store - 1 \in Stores
    BY <1>T DEF Stores, PreSteps, CompSteps
  <2>3. layers[Depth] \in LayerType
    BY <1>T, <2>1
  <2>4. store # PreSteps => layers[Depth][store - 1] \in Seq(StepTuple)
    BY <2>2, <2>3 DEF LayerType
  <2> QED
    BY <1>7, <1>T, <2>1, <2>2, <2>4 DEF PreviousStore, TypeInv, TypeOK, CursorOK, LengthsOK, LayerType
<1>8. CASE ClearNSteps
  <2>1. target = Depth - AtMost(asked, Depth) /\ asked \in 1..MaxRevert /\ asked <= played
    BY <1>8 DEF ClearNSteps, TypeInv, CursorOK
  <2>2. target \in 0..Len(layers)
    BY <1>T, <2>1 DEF AtMost
  <2>3. /\ layers' \in Seq(LayerType) /\ start' \in Seq(Worlds)
        /\ Len(layers') = target /\ Len(start') = target
    BY <1>8, <1>T, <2>2 DEF ClearNSteps
  <2>4. mementos' \in Nat /\ played' \in Nat
    BY <1>8, <1>T, <2>1 DEF ClearNSteps, AtMost
  <2>5. mementos' = target \/ (mementos' + 1 = target /\ mementos' = played')
    <3>1. CASE mementos = Depth
      BY <3>1, <1>8, <1>T, <2>1 DEF ClearNSteps, AtMost
    <3>2. CASE mementos + 1 = Depth /\ mementos = played
      <4>1. AtMost(asked, mementos) = asked /\ AtMost(asked, Depth) = asked
        BY <3>2, <1>T, <2>1 DEF AtMost
      <4> QED
        BY <3>2, <4>1, <1>8, <1>T, <2>1 DEF ClearNSteps
    <3> QED
      BY <3>1, <3>2 DEF TypeInv, LengthsOK
  <2>6. Kept # 0 => target <= Kept
    BY <1>T, <2>2 DEF TypeInv, LengthsOK
  <2> QED
    BY <1>8, <1>T, <2>3, <2>4, <2>5, <2>6 DEF ClearNSteps, TypeInv, TypeOK, CursorOK,
       LengthsOK, LayerType
<1>9. CASE UNCHANGED vars
  BY <1>9 DEF vars, TypeInv, TypeOK, CursorOK, LengthsOK
<1> QED
  BY <1>1, <1>2, <1>3, <1>4, <1>5, <1>6, <1>7, <1>8, <1>9 DEF Next

(* StepHistory!TypeOK: at every moment of playing and rewinding, the       *)
(* layers hold steps of the right shape, one starting world per layer.     *)
THEOREM TypeCorrect == Spec => []TypeOK
<1>1. TypeInv => TypeOK
  BY DEF TypeInv
<1> QED
  BY <1>1, TypeInvInit, TypeInvNext, PTL DEF Spec

(* The assertion that ends revert_n_steps never fails, for any retention   *)
(* and any sequence of frames and rewinds: the layer that exists before    *)
(* the first frame is only ever one a legal call cannot reach.             *)
THEOREM SanityCheckHolds == Spec => []SanityCheck
<1>1. TypeInv => SanityCheck
  <2> SUFFICES ASSUME TypeInv, pc = "reverted" PROVE AtMost(asked, Depth) = AtMost(asked, mementos)
    BY DEF SanityCheck
  <2>1. /\ asked \in Nat /\ asked <= played /\ mementos \in Nat /\ played \in Nat
        /\ mementos = Depth \/ (mementos + 1 = Depth /\ mementos = played)
    BY DEF TypeInv, TypeOK, CursorOK, LengthsOK
  <2>2. Depth \in Nat
    BY DEF TypeInv, TypeOK, Depth
  <2> QED
    BY <2>1, <2>2 DEF AtMost
<1> QED
  BY <1>1, TypeInvInit, TypeInvNext, PTL DEF Spec

(* set_up_step_systems and CommandQueueMementoSetup drop layers separately,*)
(* yet never keep more than step_kept_p nor lose a frame they should keep. *)
THEOREM RetentionBoundHolds == Spec => []RetentionBound
<1>1. TypeInv => RetentionBound
  <2> SUFFICES ASSUME TypeInv PROVE RetentionBound
    OBVIOUS
  <2>1. /\ mementos \in Nat /\ played \in Nat
        /\ mementos = Depth \/ (mementos + 1 = Depth /\ mementos = played)
        /\ Kept # 0 => Depth <= Kept
    BY DEF TypeInv, TypeOK, LengthsOK
  <2> QED
    BY <2>1, ConstantsAssumption DEF RetentionBound, ConstantsAssumption
<1> QED
  BY <1>1, TypeInvInit, TypeInvNext, PTL DEF Spec

-----------------------------------------------------------------------------
(***************************************************************************)
(* A rewind restores the world.  A step is live while it is applied and    *)
(* not undone.  What makes the mementos enough: counting from the start of *)
(* any frame that a rewind leaves or reaches, the first live step on a     *)
(* slot remembers the value the slot had at that start, and a slot with no *)
(* live step still has it.                                                 *)
(***************************************************************************)
Live(f, k, i) ==
  /\ f \in 1..Depth /\ k \in Stores /\ i \in 1..Len(layers[f][k])
  /\ pc = "revert" => \/ f <= target \/ k < store
                      \/ k = store /\ (f < layer \/ (f = layer /\ i <= pos))
  /\ pc = "reverted" => f <= target

On(s, f, k, i) == Live(f, k, i) /\ layers[f][k][i].slot = s

Earlier(f, k, i, g, l, j) == f < g \/ (f = g /\ (k < l \/ (k = l /\ i < j)))

(* The boundaries a rewind in progress still has to restore. *)
Boundaries == {b \in 1..Depth : pc \in {"revert", "reverted"} => b <= target + 1}

Untouched(b, s) == \A f \in b..Depth, k \in Stores, i \in Nat : ~ On(s, f, k, i)

First(s, b, f, k, i) ==
  /\ On(s, f, k, i) /\ f >= b
  /\ \A g \in b..Depth, l \in Stores, j \in Nat :
       On(s, g, l, j) => ~ Earlier(g, l, j, f, k, i)

Unmoved == \A b \in Boundaries, s \in Slots : Untouched(b, s) => val[s] = start[b][s]

Remembered == \A b \in Boundaries, s \in Slots :
  \A f \in 1..Depth, k \in Stores, i \in Nat :
    First(s, b, f, k, i) => layers[f][k][i].old = start[b][s]

(* A step sits in a list its slot is written from, and a frame has no step *)
(* yet in the lists it has not reached.                                    *)
InItsList ==
  \A f \in 1..Depth, k \in Stores : \A i \in 1..Len(layers[f][k]) :
    k \in WrittenBy[layers[f][k][i].slot]
NoneAhead == pc = "apply" => \A k \in Stores : k > store => layers[Depth][k] = << >>

HistoryInv == Unmoved /\ Remembered /\ InItsList /\ NoneAhead

LEMMA HistoryInvInit == Init => HistoryInv
<1> SUFFICES ASSUME Init PROVE HistoryInv
  OBVIOUS
<1>1. Depth = 1 /\ layers[1] = EmptyLayer /\ start[1] = val
  BY DEF Init, Depth
<1>2. \A k \in Stores : Len(layers[1][k]) = 0
  BY <1>1 DEF EmptyLayer
<1>3. \A f, k, i : ~ Live(f, k, i)
  BY <1>1, <1>2 DEF Live
<1> QED
  BY <1>1, <1>2, <1>3 DEF Init, HistoryInv, Unmoved, Remembered, InItsList, NoneAhead,
     First, On, Boundaries

(* A step that changes neither the world nor the layers nor what is live   *)
(* keeps the mementos good.                                                *)
LEMMA SameLive ==
  ASSUME HistoryInv, UNCHANGED <<val, layers, start>>,
         \A f, k, i : Live(f, k, i)' <=> Live(f, k, i),
         Boundaries' \subseteq Boundaries, NoneAhead'
  PROVE  HistoryInv'
<1>1. Depth' = Depth
  BY DEF Depth
<1>2. \A s, f, k, i : On(s, f, k, i)' <=> On(s, f, k, i)
  BY DEF On
<1>3. Unmoved'
  BY <1>1, <1>2 DEF HistoryInv, Unmoved, Untouched
<1>4. \A s, b, f, k, i : First(s, b, f, k, i)' <=> First(s, b, f, k, i)
  BY <1>1, <1>2 DEF First, Earlier
<1>5. Remembered'
  BY <1>1, <1>4 DEF HistoryInv, Remembered
<1>6. InItsList'
  BY <1>1 DEF HistoryInv, InItsList
<1> QED
  BY <1>3, <1>5, <1>6 DEF HistoryInv

(* A new layer: what was live stays so, one place earlier if the oldest    *)
(* layer was dropped, and the new boundary has no step after it.           *)
LEMMA HistoryAddLayer == TypeInv /\ HistoryInv /\ AddLayer => HistoryInv'
<1> SUFFICES ASSUME TypeInv, HistoryInv, AddLayer PROVE HistoryInv'
  OBVIOUS
<1>T. /\ layers \in Seq(LayerType) /\ start \in Seq(Worlds) /\ Len(start) = Len(layers)
      /\ Kept \in Nat /\ (Kept # 0 => Len(layers) <= Kept) /\ pc = "idle" /\ pc' = "apply"
  BY ConstantsAssumption DEF TypeInv, TypeOK, LengthsOK, LayerType, ConstantsAssumption,
     AddLayer, Depth
<1>E. EmptyLayer \in LayerType /\ \A k \in Stores : EmptyLayer[k] = << >> /\ Len(EmptyLayer[k]) = 0
  BY DEF EmptyLayer, LayerType
<1>1. PICK d \in {0, 1} :
        /\ Len(layers') = Len(layers) + 1 - d
        /\ \A f \in 1..(Len(layers') - 1) : layers'[f] = layers[f + d] /\ start'[f] = start[f + d]
        /\ layers'[Len(layers')] = EmptyLayer /\ start'[Len(layers')] = val
        /\ Len(layers') > 0
  <2> DEFINE ls == Append(layers, EmptyLayer)
             ss == Append(start, val)
  <2>1. layers' = DropFirst(ls) /\ start' = DropFirst(ss)
    BY DEF AddLayer
  <2>2. /\ ls \in Seq(LayerType) /\ Len(ls) = Len(layers) + 1 /\ Len(ss) = Len(layers) + 1
        /\ ss \in Seq(Worlds)
        /\ \A f \in 1..Len(layers) : ls[f] = layers[f] /\ ss[f] = start[f]
        /\ ls[Len(layers) + 1] = EmptyLayer /\ ss[Len(layers) + 1] = val
    <3>1. val \in Worlds
      BY DEF TypeInv, TypeOK
    <3> HIDE DEF Worlds, LayerType
    <3> QED
      BY <1>T, <1>E, <3>1
  <2> HIDE DEF ls, ss
  <2>3. CASE Kept # 0 /\ Len(layers) + 1 > Kept
    <3>1. layers' = Tail(ls) /\ start' = Tail(ss) /\ Len(layers) > 0
      BY <1>T, <2>1, <2>2, <2>3 DEF DropFirst
    <3>2. \A f \in 1..Len(layers) : Tail(ls)[f] = ls[f + 1] /\ Tail(ss)[f] = ss[f + 1]
      BY <1>T, <2>2
    <3>3. Len(layers') = Len(layers)
      BY <1>T, <2>2, <3>1
    <3> QED
      BY <1>T, <2>2, <3>1, <3>2, <3>3
  <2>4. CASE ~ (Kept # 0 /\ Len(layers) + 1 > Kept)
    <3>1. layers' = ls /\ start' = ss
      BY <1>T, <2>1, <2>2, <2>4 DEF DropFirst
    <3> QED
      BY <1>T, <2>2, <3>1
  <2> QED
    BY <2>3, <2>4
<1>2. Depth \in Nat /\ Depth' = Depth + 1 - d /\ Depth' \in Nat /\ Depth' > 0
  BY <1>T, <1>1 DEF Depth
<1>3. \A s, f, k, i : On(s, f, k, i)' <=> f \in 1..(Depth' - 1) /\ On(s, f + d, k, i)
  <2> TAKE s, f, k, i
  <2>1. Live(f, k, i)' <=> f \in 1..Depth' /\ k \in Stores /\ i \in 1..Len(layers'[f][k])
    BY <1>T DEF Live
  <2>2. f \in 1..(Depth' - 1) => f + d \in 1..Depth /\ layers'[f] = layers[f + d]
    BY <1>1, <1>2 DEF Depth
  <2>3. Live(f + d, k, i) <=> f + d \in 1..Depth /\ k \in Stores /\ i \in 1..Len(layers[f + d][k])
    BY <1>T DEF Live
  <2>4. k \in Stores => ~ (i \in 1..Len(layers'[Depth'][k]))
    BY <1>1, <1>E DEF Depth
  <2>5. f \in 1..Depth' => f = Depth' \/ f \in 1..(Depth' - 1)
    BY <1>2
  <2>6. ASSUME f \in 1..(Depth' - 1) PROVE On(s, f, k, i)' <=> On(s, f + d, k, i)
    <3>1. f \in 1..Depth'
      BY <1>2, <2>6
    <3>2. Live(f, k, i)' <=> Live(f + d, k, i)
      BY <2>1, <2>2, <2>3, <2>6, <3>1
    <3> QED
      BY <2>2, <2>6, <3>2 DEF On
  <2>7. ASSUME f \notin 1..(Depth' - 1) PROVE ~ On(s, f, k, i)'
    BY <2>1, <2>4, <2>5, <2>7 DEF On
  <2> QED
    BY <2>6, <2>7
<1>4. Unmoved'
  <2> SUFFICES ASSUME NEW b \in 1..Depth', NEW s \in Slots, Untouched(b, s)'
               PROVE  val'[s] = start'[b][s]
    BY DEF Unmoved, Boundaries
  <2>1. CASE b = Depth'
    BY <2>1, <1>1 DEF AddLayer, Depth
  <2>2. CASE b < Depth'
    <3>1. b + d \in 1..Depth /\ start'[b] = start[b + d]
      BY <2>2, <1>1, <1>2 DEF Depth
    <3>2. ASSUME NEW f \in (b + d)..Depth, NEW k \in Stores, NEW i \in Nat PROVE ~ On(s, f, k, i)
      <4>1. f - d \in b..Depth' /\ f - d \in 1..(Depth' - 1) /\ (f - d) + d = f
        BY <3>1, <1>2
      <4>2. ~ On(s, f - d, k, i)'
        BY <4>1 DEF Untouched
      <4> QED
        BY <4>1, <4>2, <1>3
    <3>3. Untouched(b + d, s)
      BY <3>2 DEF Untouched
    <3> QED
      BY <3>1, <3>3, <1>T DEF HistoryInv, Unmoved, Boundaries, AddLayer
  <2> QED
    BY <2>1, <2>2, <1>2
<1>5. Remembered'
  <2> SUFFICES ASSUME NEW b \in 1..Depth', NEW s \in Slots, NEW f \in 1..Depth',
                      NEW k \in Stores, NEW i \in Nat, First(s, b, f, k, i)'
               PROVE  layers'[f][k][i].old = start'[b][s]
    BY DEF Remembered, Boundaries
  <2>1. f \in 1..(Depth' - 1) /\ f >= b /\ On(s, f + d, k, i)
    BY <1>3 DEF First
  <2>2. b + d \in 1..Depth /\ start'[b] = start[b + d] /\ layers'[f] = layers[f + d]
        /\ f + d \in 1..Depth /\ f + d >= b + d
    BY <2>1, <1>1, <1>2 DEF Depth
  <2>3. ASSUME NEW g \in (b + d)..Depth, NEW l \in Stores, NEW j \in Nat, On(s, g, l, j)
        PROVE  ~ Earlier(g, l, j, f + d, k, i)
    <3>1. g - d \in b..Depth' /\ g - d \in 1..(Depth' - 1) /\ (g - d) + d = g
      BY <2>2, <1>2
    <3>2. On(s, g - d, l, j)'
      BY <2>3, <3>1, <1>3
    <3>3. ~ Earlier(g - d, l, j, f, k, i)
      BY <3>1, <3>2 DEF First, Earlier
    <3> QED
      BY <3>1, <3>3, <2>1 DEF Earlier
  <2>4. First(s, b + d, f + d, k, i)
    BY <2>1, <2>2, <2>3 DEF First
  <2> QED
    BY <2>2, <2>4, <1>T DEF HistoryInv, Remembered, Boundaries
<1>6. InItsList'
  <2> SUFFICES ASSUME NEW f \in 1..Depth', NEW k \in Stores, NEW i \in 1..Len(layers'[f][k])
               PROVE  k \in WrittenBy[layers'[f][k][i].slot]
    BY DEF InItsList
  <2>1. f < Depth'
    BY <1>1, <1>2, <1>E DEF Depth
  <2>2. f + d \in 1..Depth /\ layers'[f] = layers[f + d]
    BY <2>1, <1>1, <1>2 DEF Depth
  <2> QED
    BY <2>2 DEF HistoryInv, InItsList
<1>7. NoneAhead'
  BY <1>1, <1>E DEF NoneAhead, Depth
<1> QED
  BY <1>4, <1>5, <1>6, <1>7 DEF HistoryInv

(* A step is applied: it is the last live step of all, and it is the first *)
(* on its slot only if the slot was untouched, so held the value the       *)
(* memento takes.                                                          *)
LEMMA HistoryApplyStep == TypeInv /\ HistoryInv /\ ApplyStep => HistoryInv'
<1> SUFFICES ASSUME TypeInv, HistoryInv, ApplyStep PROVE HistoryInv'
  OBVIOUS
<1>T. /\ layers \in Seq(LayerType) /\ val \in Worlds /\ pc = "apply" /\ pc' = "apply"
      /\ store \in Stores /\ store' = store /\ start' = start
      /\ Depth = Len(layers) /\ Depth \in Nat /\ Depth > 0
  BY DEF TypeInv, TypeOK, CursorOK, LayerType, ApplyStep, Depth
<1>1. PICK w \in Slots, v \in Values :
        /\ store \in WrittenBy[w]
        /\ layers' = [layers EXCEPT ![Depth][store] = Append(@, [slot |-> w, old |-> val[w]])]
        /\ val' = [val EXCEPT ![w] = v]
  BY DEF ApplyStep
<1> DEFINE new == [slot |-> w, old |-> val[w]]
           n == Len(layers[Depth][store]) + 1
<1>2. /\ layers[Depth] \in LayerType /\ layers[Depth][store] \in Seq(StepTuple)
      /\ new \in StepTuple /\ n \in Nat
  <2>1. layers[Depth] \in LayerType
    BY <1>T
  <2>2. layers[Depth][store] \in Seq(StepTuple)
    BY <1>T, <2>1 DEF LayerType
  <2> QED
    BY <1>T, <2>1, <2>2 DEF StepTuple, Worlds
<1>3. Depth' = Depth
  BY <1>T, <1>1 DEF Depth
<1>4. \A f \in 1..Depth, k \in Stores :
        IF f = Depth /\ k = store THEN layers'[f][k] = Append(layers[f][k], new)
                                  ELSE layers'[f][k] = layers[f][k]
  BY <1>T, <1>1, <1>2 DEF LayerType
<1>5. \A f, k, i : Live(f, k, i)' <=> Live(f, k, i) \/ (f = Depth /\ k = store /\ i = n)
  <2> TAKE f, k, i
  <2>1. /\ Live(f, k, i)' <=> f \in 1..Depth /\ k \in Stores /\ i \in 1..Len(layers'[f][k])
        /\ Live(f, k, i) <=> f \in 1..Depth /\ k \in Stores /\ i \in 1..Len(layers[f][k])
    BY <1>T, <1>3 DEF Live
  <2>2. CASE f = Depth /\ k = store
    <3>1. Len(layers'[f][k]) = n
      BY <1>T, <1>2, <1>4, <2>2
    <3> QED
      BY <1>T, <1>2, <2>1, <2>2, <3>1
  <2>3. CASE ~ (f = Depth /\ k = store)
    BY <1>4, <2>1, <2>3
  <2> QED
    BY <2>2, <2>3
<1>6. /\ \A f, k, i : Live(f, k, i) => layers'[f][k][i] = layers[f][k][i]
      /\ layers'[Depth][store][n] = new
  <2>1. ASSUME NEW f, NEW k, NEW i, Live(f, k, i) PROVE layers'[f][k][i] = layers[f][k][i]
    <3>1. f \in 1..Depth /\ k \in Stores /\ i \in 1..Len(layers[f][k])
      BY <2>1 DEF Live
    <3>2. CASE f = Depth /\ k = store
      BY <1>2, <1>4, <3>1, <3>2
    <3>3. CASE ~ (f = Depth /\ k = store)
      BY <1>4, <3>1, <3>3
    <3> QED
      BY <3>2, <3>3
  <2>2. layers'[Depth][store][n] = new
    BY <1>T, <1>2, <1>4
  <2> QED
    BY <2>1, <2>2
<1> HIDE DEF n
<1>7. /\ \A s, f, k, i : On(s, f, k, i) => On(s, f, k, i)'
      /\ \A f, k, i : f = Depth /\ k = store /\ i = n => On(w, f, k, i)'
      /\ \A s, f, k, i : On(s, f, k, i)' =>
           On(s, f, k, i) \/ (s = w /\ f = Depth /\ k = store /\ i = n)
  <2>1. ASSUME NEW s, NEW f, NEW k, NEW i, On(s, f, k, i) PROVE On(s, f, k, i)'
    BY <1>5, <1>6, <2>1 DEF On
  <2>2. ASSUME NEW f, NEW k, NEW i, f = Depth, k = store, i = n PROVE On(w, f, k, i)'
    BY <1>5, <1>6, <2>2 DEF On
  <2>3. ASSUME NEW s, NEW f, NEW k, NEW i, On(s, f, k, i)'
        PROVE  On(s, f, k, i) \/ (s = w /\ f = Depth /\ k = store /\ i = n)
    BY <1>5, <1>6, <2>3 DEF On
  <2> QED
    BY <2>1, <2>2, <2>3
<1>8. \A f, k, i : Live(f, k, i) => Earlier(f, k, i, Depth, store, n)
  <2> SUFFICES ASSUME NEW f, NEW k, NEW i, Live(f, k, i)
               PROVE  Earlier(f, k, i, Depth, store, n)
    OBVIOUS
  <2>1. f \in 1..Depth /\ k \in Stores /\ i \in 1..Len(layers[f][k])
    BY DEF Live
  <2>2. f = Depth => ~ (k > store)
    <3> SUFFICES ASSUME f = Depth, k > store PROVE FALSE
      OBVIOUS
    <3>1. layers[Depth][k] = << >>
      BY <1>T, <2>1 DEF HistoryInv, NoneAhead
    <3> QED
      BY <2>1, <3>1
  <2>3. k \in Nat /\ store \in Nat
    BY <1>T, <2>1 DEF Stores, PreSteps, CompSteps
  <2>4. f = Depth /\ k = store => i < n
    BY <1>2, <2>1 DEF n
  <2> QED
    BY <1>T, <2>1, <2>2, <2>3, <2>4 DEF Earlier
<1>9. Unmoved'
  <2> SUFFICES ASSUME NEW b \in 1..Depth, NEW s \in Slots, Untouched(b, s)'
               PROVE  val'[s] = start[b][s]
    BY <1>T, <1>3 DEF Unmoved, Boundaries
  <2>1. s # w
    BY <1>T, <1>2, <1>3, <1>7 DEF Untouched, n
  <2>2. Untouched(b, s)
    BY <1>3, <1>7 DEF Untouched
  <2> QED
    BY <1>T, <1>1, <2>1, <2>2 DEF HistoryInv, Unmoved, Boundaries, Worlds
<1>10. Remembered'
  <2> SUFFICES ASSUME NEW b \in 1..Depth, NEW s \in Slots, NEW f \in 1..Depth,
                      NEW k \in Stores, NEW i \in Nat, First(s, b, f, k, i)'
               PROVE  layers'[f][k][i].old = start[b][s]
    BY <1>T, <1>3 DEF Remembered, Boundaries
  <2>1. On(s, f, k, i)' /\ f >= b
    BY DEF First
  <2>2. CASE On(s, f, k, i)
    <3>1. First(s, b, f, k, i)
      BY <1>3, <1>7, <2>1, <2>2 DEF First, Earlier
    <3> QED
      BY <1>T, <1>6, <2>2, <3>1 DEF HistoryInv, Remembered, Boundaries, On
  <2>3. CASE s = w /\ f = Depth /\ k = store /\ i = n
    <3>1. Untouched(b, s)
      BY <1>3, <1>7, <1>8, <2>3 DEF Untouched, First, On, Earlier
    <3> QED
      BY <1>T, <1>6, <2>3, <3>1 DEF HistoryInv, Unmoved, Boundaries
  <2> QED
    BY <1>7, <2>1, <2>2, <2>3
<1>11. InItsList'
  <2> SUFFICES ASSUME NEW f \in 1..Depth, NEW k \in Stores, NEW i \in 1..Len(layers'[f][k])
               PROVE  k \in WrittenBy[layers'[f][k][i].slot]
    BY <1>3 DEF InItsList
  <2>1. Live(f, k, i)'
    BY <1>T, <1>3 DEF Live
  <2>2. CASE Live(f, k, i)
    BY <1>6, <2>2 DEF HistoryInv, InItsList, Live
  <2>3. CASE f = Depth /\ k = store /\ i = n
    BY <1>1, <1>6, <2>3
  <2> QED
    BY <1>5, <2>1, <2>2, <2>3
<1>12. NoneAhead'
  <2> SUFFICES ASSUME NEW k \in Stores, k > store PROVE layers'[Depth][k] = << >>
    BY <1>T, <1>3 DEF NoneAhead
  <2>1. k # store
    BY <1>T DEF Stores, PreSteps, CompSteps
  <2> QED
    BY <1>T, <1>4, <2>1 DEF HistoryInv, NoneAhead
<1> QED
  BY <1>9, <1>10, <1>11, <1>12 DEF HistoryInv

(* The steps of the engine that only move its cursor leave the same steps  *)
(* live.                                                                   *)
LEMMA HistoryCursor ==
  TypeInv /\ HistoryInv /\ (NextStore \/ RevertNSteps \/ PreviousLayer \/ PreviousStore)
    => HistoryInv'
<1> SUFFICES ASSUME TypeInv, HistoryInv, NextStore \/ RevertNSteps \/ PreviousLayer \/ PreviousStore
             PROVE  HistoryInv'
  OBVIOUS
<1>T. /\ layers \in Seq(LayerType) /\ Depth \in Nat /\ Depth = Len(layers) /\ store \in Stores
      /\ pos \in Nat /\ layer \in Nat /\ target \in Nat
      /\ UNCHANGED <<val, layers, start>> /\ Depth' = Depth
      /\ \A k \in Stores : k \in Nat
      /\ \A f \in 1..Depth, k \in Stores : Len(layers[f][k]) \in Nat
  <2>1. /\ layers \in Seq(LayerType) /\ Depth \in Nat /\ Depth = Len(layers) /\ store \in Stores
        /\ pos \in Nat /\ layer \in Nat /\ target \in Nat
    BY DEF TypeInv, TypeOK, LayerType, Depth
  <2>2. UNCHANGED <<val, layers, start>>
    BY DEF NextStore, RevertNSteps, PreviousLayer, PreviousStore
  <2>3. \A f \in 1..Depth : layers[f] \in LayerType
    BY <2>1
  <2>4. \A f \in 1..Depth, k \in Stores : layers[f][k] \in Seq(StepTuple)
    BY <2>3 DEF LayerType
  <2>5. \A f \in 1..Depth, k \in Stores : Len(layers[f][k]) \in Nat
    BY <2>4
  <2>6. \A k \in Stores : k \in Nat
    BY DEF Stores, PreSteps, CompSteps
  <2>7. Depth' = Depth
    BY <2>2 DEF Depth
  <2> QED
    BY <2>1, <2>2, <2>5, <2>6, <2>7
<1>1. CASE NextStore
  <2>1. \A f, k, i : Live(f, k, i)' <=> Live(f, k, i)
    BY <1>1, <1>T DEF NextStore, Live
  <2>2. NoneAhead'
    <3> SUFFICES ASSUME pc' = "apply", NEW k \in Stores, k > store' PROVE layers[Depth][k] = << >>
      BY <1>T DEF NoneAhead
    <3>1. pc = "apply" /\ store' = store + 1 /\ k > store
      BY <1>1, <1>T DEF NextStore
    <3> QED
      BY <3>1 DEF HistoryInv, NoneAhead
  <2> QED
    BY <1>1, <1>T, <2>1, <2>2, SameLive DEF NextStore, Boundaries
<1>2. CASE RevertNSteps
  <2>1. PICK n \in 1..MaxRevert : target' = Depth - AtMost(n, Depth)
    BY <1>2 DEF RevertNSteps
  <2>2. target' \in Nat /\ target' <= Depth /\ pc = "idle"
    BY <1>2, <1>T, <2>1, ConstantsAssumption DEF AtMost, RevertNSteps, ConstantsAssumption
  <2>3. \A f, k, i : Live(f, k, i)' <=> Live(f, k, i)
    <3>1. CASE Depth = 0
      BY <1>T, <3>1 DEF Live
    <3>2. CASE Depth > 0
      <4>1. /\ pc' = "revert" /\ store' = CompSteps /\ layer' = Depth
            /\ pos' = Len(layers[Depth][CompSteps])
        BY <1>2, <1>T, <3>2 DEF RevertNSteps
      <4> QED
        BY <1>T, <2>2, <4>1 DEF Live, Stores, CompSteps
    <3> QED
      BY <1>T, <3>1, <3>2
  <2>4. NoneAhead'
    BY <1>2 DEF RevertNSteps, NoneAhead
  <2> QED
    BY <1>T, <2>2, <2>3, <2>4, SameLive DEF Boundaries
<1>3. CASE PreviousLayer
  <2>1. /\ pc = "revert" /\ pc' = "revert" /\ pos = 0 /\ layer' = layer - 1 /\ target' = target
        /\ pos' = Len(layers[layer - 1][store]) /\ store' = store /\ layer \in (target + 1)..Depth
        /\ layer - 1 > target
    BY <1>3 DEF PreviousLayer, TypeInv, CursorOK
  <2>2. \A f, k, i : Live(f, k, i)' <=> Live(f, k, i)
    BY <1>T, <2>1 DEF Live
  <2> QED
    BY <1>T, <2>1, <2>2, SameLive DEF Boundaries, NoneAhead
<1>4. CASE PreviousStore
  <2>1. /\ pc = "revert" /\ pos = 0 /\ layer - 1 = target /\ target' = target
        /\ layer \in (target + 1)..Depth
    BY <1>4 DEF PreviousStore, TypeInv, CursorOK
  <2>2. \A f, k, i : Live(f, k, i)' <=> Live(f, k, i)
    <3>1. CASE store = PreSteps
      <4>1. pc' = "reverted"
        BY <1>4, <3>1 DEF PreviousStore
      <4> QED
        BY <1>T, <2>1, <3>1, <4>1 DEF Live, Stores, PreSteps
    <3>2. CASE store # PreSteps
      <4>1. /\ pc' = "revert" /\ store' = store - 1 /\ layer' = Depth
            /\ pos' = Len(layers[Depth][store - 1])
        BY <1>4, <3>2 DEF PreviousStore
      <4> QED
        BY <1>T, <2>1, <4>1 DEF Live
    <3> QED
      BY <3>1, <3>2
  <2>3. pc' \in {"revert", "reverted"}
    BY <1>4, <2>1 DEF PreviousStore
  <2> QED
    BY <1>T, <2>1, <2>2, <2>3, SameLive DEF Boundaries, NoneAhead
<1> QED
  BY <1>1, <1>2, <1>3, <1>4

(* The step a rewind undoes is the last live one on its slot: either only  *)
(* the last frame is being undone, or all the steps on the slot are in the *)
(* list being reverted.                                                    *)
LEMMA UndoneIsLast ==
  ASSUME TypeInv, HistoryInv, LastInFirstOut, pc = "revert", pos > 0,
         NEW f, NEW k, NEW i, On(layers[layer][store][pos].slot, f, k, i)
  PROVE  (f = layer /\ k = store /\ i = pos) \/ Earlier(f, k, i, layer, store, pos)
<1>T. /\ Depth \in Nat /\ pos \in Nat /\ target \in Nat /\ layer \in (target + 1)..Depth
      /\ layer \in Nat /\ store \in Stores
      /\ target = Depth - AtMost(asked, Depth) /\ asked \in 1..MaxRevert
      /\ pos \in 1..Len(layers[layer][store])
  BY DEF TypeInv, TypeOK, CursorOK, Depth
<1>1. /\ f \in 1..Depth /\ k \in Stores /\ i \in 1..Len(layers[f][k])
      /\ f <= target \/ k < store \/ (k = store /\ (f < layer \/ (f = layer /\ i <= pos)))
  BY DEF On, Live
<1>2. k \in Nat /\ store \in Nat
  BY <1>T, <1>1 DEF Stores, PreSteps, CompSteps
<1>3. CASE MaxRevert <= 1
  <2>1. asked = 1
    BY <1>T, <1>3, ConstantsAssumption DEF ConstantsAssumption
  <2>2. target = Depth - 1
    BY <1>T, <2>1 DEF AtMost
  <2> QED
    BY <1>T, <1>1, <1>2, <2>2 DEF Earlier
<1>4. CASE \A s \in Slots : \A m, l \in WrittenBy[s] : m = l
  <2>1. layers[f][k][i].slot \in Slots
    <3>1. layers \in Seq(LayerType)
      BY DEF TypeInv, TypeOK, LayerType
    <3>2. layers[f] \in LayerType
      BY <1>1, <3>1 DEF Depth
    <3>3. layers[f][k] \in Seq(StepTuple)
      BY <1>1, <3>2 DEF LayerType
    <3>4. layers[f][k][i] \in StepTuple
      BY <1>1, <3>3
    <3> QED
      BY <3>4 DEF StepTuple
  <2>2. k \in WrittenBy[layers[f][k][i].slot] /\ store \in WrittenBy[layers[layer][store][pos].slot]
    BY <1>T, <1>1 DEF HistoryInv, InItsList
  <2>3. k = store
    BY <1>4, <2>1, <2>2 DEF On
  <2> QED
    BY <1>T, <1>1, <1>2, <2>3 DEF Earlier
<1> QED
  BY <1>3, <1>4 DEF LastInFirstOut

LEMMA HistoryUndoStep == LastInFirstOut /\ TypeInv /\ HistoryInv /\ UndoStep => HistoryInv'
<1> SUFFICES ASSUME LastInFirstOut, TypeInv, HistoryInv, UndoStep PROVE HistoryInv'
  OBVIOUS
<1> DEFINE p == layers[layer][store][pos]
<1>T. /\ Depth \in Nat /\ pos \in Nat /\ pos > 0 /\ target \in Nat /\ pc = "revert" /\ pc' = "revert"
      /\ layer \in (target + 1)..Depth /\ layer \in Nat /\ store \in Stores /\ store \in Nat
      /\ pos \in 1..Len(layers[layer][store]) /\ val \in Worlds
      /\ UNCHANGED <<layers, start, store, layer, target>> /\ pos' = pos - 1 /\ Depth' = Depth
      /\ val' = [val EXCEPT ![p.slot] = p.old]
  BY DEF TypeInv, TypeOK, CursorOK, UndoStep, Depth, Stores, PreSteps, CompSteps
<1>1. /\ On(p.slot, layer, store, pos) /\ Live(layer, store, pos)
  BY <1>T DEF On, Live
<1>2. \A f, k, i : Live(f, k, i)' <=> Live(f, k, i) /\ ~ (f = layer /\ k = store /\ i = pos)
  BY <1>T DEF Live
<1>3. \A s, f, k, i : On(s, f, k, i)' <=> On(s, f, k, i) /\ ~ (f = layer /\ k = store /\ i = pos)
  BY <1>T, <1>2 DEF On
<1> HIDE DEF p
<1>4. \A s, f, k, i : On(s, f, k, i) => f \in 1..Depth /\ k \in Stores /\ i \in Nat /\ i > 0
  BY DEF On, Live
<1>5. \A f, k, i : On(p.slot, f, k, i) =>
        (f = layer /\ k = store /\ i = pos) \/ Earlier(f, k, i, layer, store, pos)
  BY <1>T, UndoneIsLast DEF p
<1>6. Boundaries' = Boundaries /\ \A b \in Boundaries : b \in 1..Depth /\ b <= layer
  BY <1>T DEF Boundaries
<1>7. Unmoved'
  <2> SUFFICES ASSUME NEW b \in Boundaries, NEW s \in Slots, Untouched(b, s)'
               PROVE  val'[s] = start[b][s]
    BY <1>T, <1>6 DEF Unmoved
  <2>1. CASE s = p.slot
    <3>1. First(s, b, layer, store, pos)
      <4>1. ASSUME NEW g \in b..Depth, NEW l \in Stores, NEW j \in Nat, On(s, g, l, j)
            PROVE  g = layer /\ l = store /\ j = pos
        BY <1>3, <1>T, <4>1 DEF Untouched
      <4> QED
        BY <1>1, <1>6, <1>T, <2>1, <4>1 DEF First, Earlier
    <3>2. p.old = start[b][s]
      BY <1>T, <1>6, <3>1 DEF HistoryInv, Remembered, p
    <3> QED
      BY <1>T, <2>1, <3>2 DEF Worlds
  <2>2. CASE s # p.slot
    <3>1. Untouched(b, s)
      <4>1. ASSUME NEW f \in b..Depth, NEW k \in Stores, NEW i \in Nat, On(s, f, k, i) PROVE FALSE
        <5>1. ~ (f = layer /\ k = store /\ i = pos)
          BY <2>2, <4>1 DEF On, p
        <5> QED
          BY <1>3, <1>T, <4>1, <5>1 DEF Untouched
      <4> QED
        BY <4>1 DEF Untouched
    <3> QED
      BY <1>T, <2>2, <3>1 DEF HistoryInv, Unmoved, Worlds
  <2> QED
    BY <2>1, <2>2
<1>8. Remembered'
  <2> SUFFICES ASSUME NEW b \in Boundaries, NEW s \in Slots, NEW f \in 1..Depth,
                      NEW k \in Stores, NEW i \in Nat, First(s, b, f, k, i)'
               PROVE  layers[f][k][i].old = start[b][s]
    BY <1>T, <1>6 DEF Remembered
  <2>1. On(s, f, k, i) /\ f >= b /\ ~ (f = layer /\ k = store /\ i = pos)
    BY <1>3 DEF First
  <2>2. ASSUME NEW g \in b..Depth, NEW l \in Stores, NEW j \in Nat, On(s, g, l, j),
               Earlier(g, l, j, f, k, i)
        PROVE  FALSE
    <3>1. CASE g = layer /\ l = store /\ j = pos
      <4>1. s = p.slot
        BY <2>2, <3>1 DEF On, p
      <4>2. Earlier(f, k, i, layer, store, pos)
        BY <1>5, <2>1, <4>1
      <4> QED
        BY <1>T, <2>2, <3>1, <4>2 DEF Earlier, Stores, PreSteps, CompSteps
    <3>2. CASE ~ (g = layer /\ l = store /\ j = pos)
      BY <1>3, <1>T, <2>2, <3>2 DEF First, Earlier
    <3> QED
      BY <3>1, <3>2
  <2>3. First(s, b, f, k, i)
    BY <2>1, <2>2 DEF First
  <2> QED
    BY <2>3 DEF HistoryInv, Remembered
<1>9. InItsList' /\ NoneAhead'
  BY <1>T DEF HistoryInv, InItsList, NoneAhead
<1> QED
  BY <1>7, <1>8, <1>9 DEF HistoryInv

(* What is dropped after a rewind was undone. *)
LEMMA HistoryClear == TypeInv /\ HistoryInv /\ ClearNSteps => HistoryInv'
<1> SUFFICES ASSUME TypeInv, HistoryInv, ClearNSteps PROVE HistoryInv'
  OBVIOUS
<1>T. /\ layers \in Seq(LayerType) /\ start \in Seq(Worlds) /\ Len(start) = Len(layers)
      /\ Depth = Len(layers) /\ Depth \in Nat /\ target \in 0..Depth
      /\ pc = "reverted" /\ pc' = "idle" /\ val' = val
  <2>1. target \in Nat /\ target = Depth - AtMost(asked, Depth) /\ asked \in 1..MaxRevert
    BY DEF TypeInv, TypeOK, CursorOK, ClearNSteps
  <2>2. layers \in Seq(LayerType) /\ start \in Seq(Worlds) /\ Len(start) = Len(layers)
    BY DEF TypeInv, TypeOK, LayerType, Depth
  <2> QED
    BY <2>1, <2>2 DEF AtMost, Depth, ClearNSteps
<1>1. /\ Depth' = target
      /\ \A f \in 1..target : layers'[f] = layers[f] /\ start'[f] = start[f]
  BY <1>T DEF ClearNSteps, Depth
<1>2. \A f, k, i : Live(f, k, i)' <=> Live(f, k, i)
  BY <1>T, <1>1 DEF Live
<1>3. \A s, f, k, i : On(s, f, k, i)' <=> On(s, f, k, i)
  BY <1>T, <1>1, <1>2 DEF On, Live
<1>4. \A s, f, k, i : On(s, f, k, i) => f \in 1..target /\ k \in Stores /\ i \in 1..Len(layers[f][k])
  BY <1>T, <1>1 DEF On, Live
<1>5. \A b \in 1..target : b \in Boundaries
  BY <1>T DEF Boundaries
<1>6. Unmoved'
  <2> SUFFICES ASSUME NEW b \in 1..target, NEW s \in Slots, Untouched(b, s)'
               PROVE  val[s] = start[b][s]
    BY <1>T, <1>1 DEF Unmoved, Boundaries
  <2>1. Untouched(b, s)
    BY <1>T, <1>1, <1>3, <1>4 DEF Untouched
  <2> QED
    BY <1>5, <2>1 DEF HistoryInv, Unmoved
<1>7. Remembered'
  <2> SUFFICES ASSUME NEW b \in 1..target, NEW s \in Slots, NEW f \in 1..target,
                      NEW k \in Stores, NEW i \in Nat, First(s, b, f, k, i)'
               PROVE  layers[f][k][i].old = start[b][s]
    BY <1>T, <1>1 DEF Remembered, Boundaries
  <2>1. First(s, b, f, k, i)
    BY <1>T, <1>1, <1>3, <1>4 DEF First, Earlier
  <2> QED
    BY <1>T, <1>5, <2>1 DEF HistoryInv, Remembered
<1>8. InItsList' /\ NoneAhead'
  BY <1>T, <1>1 DEF HistoryInv, InItsList, NoneAhead
<1> QED
  BY <1>6, <1>7, <1>8 DEF HistoryInv

LEMMA HistoryInvNext ==
  LastInFirstOut /\ TypeInv /\ HistoryInv /\ [Next]_vars => HistoryInv'
<1> SUFFICES ASSUME LastInFirstOut, TypeInv, HistoryInv, [Next]_vars PROVE HistoryInv'
  OBVIOUS
<1>1. CASE UNCHANGED vars
  BY <1>1 DEF vars, HistoryInv, Unmoved, Remembered, InItsList, NoneAhead, Untouched, First,
     On, Live, Boundaries, Earlier, Depth
<1> QED
  BY <1>1, HistoryAddLayer, HistoryApplyStep, HistoryCursor, HistoryUndoStep, HistoryClear
  DEF Next

(* revert_n_steps: the world is what it was when the oldest reverted frame *)
(* began, if frames are undone one at a time or every slot is written from *)
(* one list only; for all slots, values, retentions and histories.         *)
THEOREM RewindRestores == LastInFirstOut => (Spec => []RevertRestores)
<1>1. TypeInv /\ HistoryInv => RevertRestores
  <2> SUFFICES ASSUME TypeInv, HistoryInv, pc = "reverted", target < Depth
               PROVE  val = start[target + 1]
    BY DEF RevertRestores
  <2>T. /\ val \in Worlds /\ start \in Seq(Worlds) /\ Len(start) = Depth
        /\ Depth \in Nat /\ target \in Nat
    BY DEF TypeInv, TypeOK, Depth
  <2>1. target + 1 \in Boundaries /\ start[target + 1] \in Worlds
    BY <2>T DEF Boundaries
  <2>2. ASSUME NEW s \in Slots PROVE val[s] = start[target + 1][s]
    <3>1. Untouched(target + 1, s)
      BY <2>T DEF Untouched, On, Live
    <3> QED
      BY <2>1, <3>1 DEF HistoryInv, Unmoved
  <2> QED
    BY <2>T, <2>1, <2>2 DEF Worlds
<1> SUFFICES ASSUME LastInFirstOut PROVE Spec => []RevertRestores
  OBVIOUS
<1>2. HistoryInv /\ TypeInv /\ [Next]_vars => HistoryInv'
  BY HistoryInvNext
<1> QED
  BY <1>1, <1>2, TypeInvInit, TypeInvNext, HistoryInvInit, PTL DEF Spec

-----------------------------------------------------------------------------
(* Prefixes of the line of worlds. *)
LEMMA PrefixOfAppend ==
  ASSUME NEW S, NEW seq \in Seq(S), NEW e \in S, NEW n \in 0..Len(seq)
  PROVE  SubSeq(Append(seq, e), 1, n) = SubSeq(seq, 1, n)
OBVIOUS

LEMMA PairOfAppend == ASSUME NEW S, NEW e \in S PROVE Append(<<e>>, e) = <<e, e>>
<1>1. <<e>> \in Seq(S) /\ Len(<<e>>) = 1 /\ <<e>>[1] = e
  OBVIOUS
<1>2. <<e, e>> \in Seq(S) /\ Len(<<e, e>>) = 2 /\ <<e, e>>[1] = e /\ <<e, e>>[2] = e
  OBVIOUS
<1>3. /\ Append(<<e>>, e) \in Seq(S) /\ Len(Append(<<e>>, e)) = 2
      /\ Append(<<e>>, e)[1] = e /\ Append(<<e>>, e)[2] = e
  BY <1>1
<1>4. \A i \in 1..2 : Append(<<e>>, e)[i] = <<e, e>>[i]
  BY <1>2, <1>3
<1> QED
  BY <1>2, <1>3, <1>4, SeqEqual

LEMMA PrefixPlusOne ==
  ASSUME NEW S, NEW seq \in Seq(S), NEW n \in Nat, n < Len(seq)
  PROVE  SubSeq(seq, 1, n + 1) = Append(SubSeq(seq, 1, n), seq[n + 1])
OBVIOUS

(* Playing, rewinding and dropping frames is a walk on the line of worlds: *)
(* under the conditions of RewindRestores every step of the engine is a    *)
(* step of Timeline or leaves the line alone.                              *)
LEMMA TimelineStep ==
  TypeInv /\ TypeInv' /\ RevertRestores /\ [Next]_vars => [Line!Next]_Past
<1> SUFFICES ASSUME TypeInv, TypeInv', RevertRestores, [Next]_vars, Past' # Past
             PROVE  Line!Next
  OBVIOUS
<1>T. /\ start \in Seq(Worlds) /\ val \in Worlds /\ val' \in Worlds /\ Len(start) = Depth
      /\ Depth \in Nat /\ target \in Nat /\ asked \in Nat
      /\ Append(start, val) \in Seq(Worlds) /\ Len(Append(start, val)) = Depth + 1
      /\ pc = "revert" => target < Depth
      /\ pc \in {"revert", "reverted"} =>
           target = Depth - AtMost(asked, Depth) /\ asked \in 1..MaxRevert
  <2>1. /\ start \in Seq(Worlds) /\ val \in Worlds /\ val' \in Worlds /\ Len(start) = Depth
        /\ Depth \in Nat /\ target \in Nat /\ asked \in Nat
    BY DEF TypeInv, TypeOK, Depth
  <2>2. pc = "revert" => layer \in (target + 1)..Depth
    BY DEF TypeInv, CursorOK
  <2>3. pc \in {"revert", "reverted"} =>
          target = Depth - AtMost(asked, Depth) /\ asked \in 1..MaxRevert
    BY DEF TypeInv, CursorOK
  <2> HIDE DEF Worlds
  <2>4. Append(start, val) \in Seq(Worlds) /\ Len(Append(start, val)) = Depth + 1
    BY <2>1
  <2> QED
    BY <2>1, <2>2, <2>3, <2>4
<1>1. CASE AddLayer
  <2>1. Past = Append(start, val) /\ Past' = DropFirst(Append(start, val))
    BY <1>1 DEF AddLayer, Past
  <2>2. Past' = Tail(Past) /\ Past # << >>
    BY <1>T, <2>1 DEF DropFirst
  <2> QED
    BY <2>2 DEF Line!Next, Line!Forget
<1>2. CASE ApplyStep
  BY <1>2 DEF ApplyStep, Past
<1>3. CASE NextStore
  <2>1. Past = start /\ Past' = Append(start, val)
    BY <1>3 DEF NextStore, Past
  <2> QED
    BY <1>T, <2>1 DEF Line!Next, Line!Tick
<1>4. CASE RevertNSteps
  <2>1. PICK n \in 1..MaxRevert : target' = Depth - AtMost(n, Depth)
    BY <1>4 DEF RevertNSteps
  <2>2. Past = Append(start, val) /\ Depth' = Depth /\ start' = start /\ val' = val
    BY <1>4 DEF RevertNSteps, Past, Depth
  <2>3. target' # Depth /\ Past' = SubSeq(start, 1, target' + 1)
    <3>1. pc' \notin {"idle", "apply"}
      BY <1>4 DEF RevertNSteps
    <3> QED
      BY <2>2, <3>1 DEF Past
  <2>4. target' \in Nat /\ target' + 1 \in 0..Depth
        /\ target' + 1 = (IF Len(Past) > n THEN Len(Past) - n ELSE 1)
    <3>1. n \in Nat /\ n > 0 /\ Len(Past) = Depth + 1
      BY <1>T, <2>1, <2>2, ConstantsAssumption DEF ConstantsAssumption
    <3>2. Depth > 0
      BY <1>T, <2>1, <2>3, <3>1 DEF AtMost
    <3>3. CASE n < Depth
      BY <1>T, <2>1, <3>1, <3>3 DEF AtMost
    <3>4. CASE ~ (n < Depth)
      BY <1>T, <2>1, <3>1, <3>2, <3>4 DEF AtMost
    <3> QED
      BY <3>3, <3>4
  <2>5. Past' = SubSeq(Past, 1, target' + 1)
    <3> HIDE DEF Worlds
    <3> QED
      BY <1>T, <2>2, <2>3, <2>4, PrefixOfAppend
  <2> QED
    BY <2>4, <2>5 DEF Line!Next, Line!Rewind
<1>5. CASE UndoStep
  BY <1>5, <1>T DEF UndoStep, Past, Depth
<1>6. CASE PreviousLayer
  BY <1>6, <1>T DEF PreviousLayer, Past, Depth
<1>7. CASE PreviousStore
  <2>1. pc = "revert" /\ pc' \in {"revert", "reverted"} /\ UNCHANGED <<start, target, layers>>
    BY <1>7 DEF PreviousStore
  <2> QED
    BY <1>T, <2>1 DEF Past, Depth
<1>8. CASE ClearNSteps
  <2>1. /\ pc = "reverted" /\ pc' = "idle" /\ start' = SubSeq(start, 1, target) /\ val' = val
        /\ Past' = Append(start', val)
    BY <1>8 DEF ClearNSteps, Past
  <2>2. CASE target = Depth
    <3>1. start' = start
      BY <1>T, <2>1, <2>2 DEF AtMost
    <3> QED
      BY <2>1, <2>2, <3>1 DEF Past
  <2>3. CASE target # Depth
    <3>1. target < Depth
      BY <1>T, <2>1, <2>3 DEF AtMost
    <3>2. val = start[target + 1] /\ Past = SubSeq(start, 1, target + 1)
      BY <2>1, <2>3, <3>1 DEF RevertRestores, Past
    <3> HIDE DEF Worlds
    <3> QED
      BY <1>T, <2>1, <3>1, <3>2, PrefixPlusOne
  <2> QED
    BY <2>2, <2>3
<1>9. CASE UNCHANGED vars
  BY <1>9 DEF vars, Past, Depth
<1> QED
  BY <1>1, <1>2, <1>3, <1>4, <1>5, <1>6, <1>7, <1>8, <1>9 DEF Next

THEOREM RefinesTimeline == LastInFirstOut => (Spec => TimelineSpec)
<1> SUFFICES ASSUME LastInFirstOut PROVE Spec => TimelineSpec
  OBVIOUS
<1>1. Init => Line!Init
  <2> SUFFICES ASSUME Init PROVE Line!Init
    OBVIOUS
  <2>1. Past = Append(<<val>>, val) /\ val \in Worlds
    BY DEF Init, Past
  <2> QED
    BY <2>1, PairOfAppend DEF Line!Init
<1>2. Spec => []TypeInv
  BY TypeInvInit, TypeInvNext, PTL DEF Spec
<1>3. Spec => []RevertRestores
  BY RewindRestores
<1> QED
  BY <1>1, <1>2, <1>3, TimelineStep, PTL DEF Spec, TimelineSpec, Line!Spec
=============================================================================
