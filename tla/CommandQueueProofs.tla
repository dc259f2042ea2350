------------------------- MODULE CommandQueueProofs -------------------------
(***************************************************************************)
(* Proofs about CommandQueue, for all units, commands, kinds and retention *)
(* lengths: queue and entity agree, commands are cleaned up before the     *)
(* next, queued actions are obeyed as a whole, and a rewind gives back     *)
(* what was.                                                               *)
(***************************************************************************)
EXTENDS CommandQueue, Sums, SequenceTheorems, TLAPS

Depth == Len(starts)

PairType == Kinds \union {NoOp, None}
CompType == [Kinds \union {NoOp} -> Variant \union {None}]
SavedType == QueueType \union {None}
StepsType == [remove : Kinds \union {None}, add : PairType,
              new : Variant \union {None}, old : Variant \union {None}]
StartType == [world : [Units -> QueueType] \X [Units -> PairType]
                      \X [Units -> Kinds \union {None}] \X [Units -> CompType],
              open : [Units -> Variant]]

-----------------------------------------------------------------------------
(* A new layer: the last one is new, the others stay, but for the first if *)
(* there are too many.                                                     *)
Dropped(n) == IF Kept # 0 /\ n + 1 > Kept THEN 1 ELSE 0

LEMMA PushedType ==
  ASSUME NEW S, NEW seq \in Seq(S), NEW e \in S
  PROVE  DropFirst(Append(seq, e)) \in Seq(S)
<1>1. Append(seq, e) \in Seq(S) /\ Len(Append(seq, e)) > 0
  OBVIOUS
<1>2. \A longer \in Seq(S) : Len(longer) > 0 => Tail(longer) \in Seq(S)
  OBVIOUS
<1> QED BY <1>1, <1>2 DEF DropFirst

LEMMA Pushed ==
  ASSUME NEW S, NEW seq \in Seq(S), NEW e \in S, NEW new \in Seq(S), new = DropFirst(Append(seq, e))
  PROVE  /\ Len(new) = Len(seq) + 1 - Dropped(Len(seq)) /\ Len(new) > 0
         /\ new[Len(new)] = e
         /\ \A i \in 1..(Len(new) - 1) : new[i] = seq[i + Dropped(Len(seq))]
<1> DEFINE longer == Append(seq, e)
<1>1. /\ longer \in Seq(S) /\ Len(longer) = Len(seq) + 1 /\ longer[Len(longer)] = e
      /\ \A i \in 1..Len(seq) : longer[i] = seq[i]
      /\ Len(seq) \in Nat /\ Kept \in Nat
  BY ConstantsAssumption DEF ConstantsAssumption
<1> HIDE DEF longer
<1>2. CASE Dropped(Len(seq)) = 0
  <2>1. DropFirst(longer) = longer
    BY <1>1, <1>2 DEF DropFirst, Dropped
  <2> QED BY <1>1, <1>2, <2>1 DEF longer
<1>3. CASE Dropped(Len(seq)) = 1
  <2>1. DropFirst(longer) = Tail(longer) /\ Len(seq) >= 1
    BY <1>1, <1>3 DEF DropFirst, Dropped
  <2>2. /\ Tail(longer) \in Seq(S) /\ Len(Tail(longer)) = Len(seq)
        /\ \A i \in 1..Len(seq) : Tail(longer)[i] = longer[i + 1]
    BY <1>1, <2>1
  <2> QED BY <1>1, <1>3, <2>1, <2>2 DEF longer
<1> QED BY <1>2, <1>3 DEF Dropped

(* A rewind takes the last layer away. *)
LEMMA Popped ==
  ASSUME NEW S, NEW seq \in Seq(S), seq # << >>
  PROVE  LET rest == SubSeq(seq, 1, Len(seq) - 1)
         IN /\ rest \in Seq(S) /\ Len(rest) = Len(seq) - 1
            /\ \A i \in 1..(Len(seq) - 1) : rest[i] = seq[i]
<1> DEFINE n == Len(seq) - 1
           rest == SubSeq(seq, 1, n)
<1>1. n \in Nat /\ \A i \in 1..n : seq[i] \in S
  OBVIOUS
<1> HIDE DEF n
<1>2. /\ rest \in Seq(S) /\ Len(rest) = (IF 1 <= n THEN n - 1 + 1 ELSE 0)
      /\ \A i \in 1..(n - 1 + 1) : rest[i] = seq[1 + i - 1]
  <2>1. 1 \in Int /\ n \in Int
    BY <1>1
  <2> QED BY <1>1, <2>1, SubSeqProperties
<1> HIDE DEF rest
<1>3. Len(rest) = n
  BY <1>1, <1>2
<1>4. ASSUME NEW i \in 1..n PROVE rest[i] = seq[i]
  <2>1. i \in 1..(n - 1 + 1) /\ 1 + i - 1 = i
    BY <1>1
  <2> QED BY <1>2, <2>1
<1> QED BY <1>2, <1>3, <1>4 DEF rest, n

(* Queued actions change neither the current command nor what is still to  *)
(* handle.                                                                 *)
LEMMA HandledType ==
  ASSUME NEW r \in QueueType, NEW a \in QueueAction
  PROVE  /\ Handled(r, a) \in QueueType
         /\ Handled(r, a).current = r.current
<1>1. /\ r.queued \in Seq(Commands) /\ a.cmds \in Seq(Commands)
      /\ a.do \in {"done", "replace", "front", "back"}
  BY DEF QueueType, QueueAction
<1>2. a.cmds \o r.queued \in Seq(Commands) /\ r.queued \o a.cmds \in Seq(Commands)
  BY <1>1
<1>3. \/ Handled(r, a) = [r EXCEPT !.done = TRUE]
      \/ \E s \in Seq(Commands) : Handled(r, a) = [r EXCEPT !.queued = s]
  BY <1>1, <1>2 DEF Handled, QueueType
<1> QED BY <1>3 DEF QueueType

LEMMA ActionsHandled ==
  ASSUME NEW r \in QueueType, r.actions # << >>
  PROVE  LET new == [Handled(r, Head(r.actions)) EXCEPT !.actions = Tail(r.actions)]
         IN new \in QueueType /\ new.current = r.current
<1> DEFINE h == Handled(r, Head(r.actions))
<1>1. r.actions \in Seq(QueueAction)
  BY DEF QueueType
<1>2. Head(r.actions) \in QueueAction /\ Tail(r.actions) \in Seq(QueueAction)
  BY <1>1
<1>3. h \in QueueType /\ h.current = r.current
  BY <1>2, HandledType
<1> HIDE DEF h
<1>4. [h EXCEPT !.actions = Tail(r.actions)] \in QueueType
  BY <1>2, <1>3 DEF QueueType
<1>5. [h EXCEPT !.actions = Tail(r.actions)].current = r.current
  BY <1>3 DEF QueueType
<1> QED BY <1>4, <1>5 DEF h

(* Queueing actions changes nothing else of a queue. *)
LEMMA ActionsQueued ==
  ASSUME NEW r \in QueueType, NEW acts \in Seq(QueueAction)
  PROVE  LET new == [r EXCEPT !.actions = @ \o acts]
         IN /\ new \in QueueType
            /\ new.current = r.current /\ new.queued = r.queued /\ new.done = r.done
            /\ [new EXCEPT !.actions = << >>] = [r EXCEPT !.actions = << >>]
<1> DEFINE more == r.actions \o acts
<1>1. more \in Seq(QueueAction) /\ r.actions \in Seq(QueueAction)
  <2>1. r.actions \in Seq(QueueAction)
    BY DEF QueueType
  <2> QED BY <2>1
<1> HIDE DEF more
<1>2. LET new == [r EXCEPT !.actions = more]
      IN /\ new \in QueueType
         /\ new.current = r.current /\ new.queued = r.queued /\ new.done = r.done
         /\ [new EXCEPT !.actions = << >>] = [r EXCEPT !.actions = << >>]
  BY <1>1 DEF QueueType
<1> QED BY <1>2 DEF more

(* The actions that command systems and players queue. *)
LEMMA ActionTypes ==
  /\ Done \in QueueAction /\ Replace(<< >>) \in QueueAction
  /\ \A c \in Commands :
       Replace(<<c>>) \in QueueAction /\ Front(c) \in QueueAction /\ Back(c) \in QueueAction
<1>1. << >> \in Seq(Commands)
  OBVIOUS
<1>2. Done \in QueueAction /\ Replace(<< >>) \in QueueAction
  BY <1>1 DEF Done, Replace, QueueAction
<1>3. ASSUME NEW c \in Commands
      PROVE  Replace(<<c>>) \in QueueAction /\ Front(c) \in QueueAction /\ Back(c) \in QueueAction
  <2>1. <<c>> \in Seq(Commands)
    OBVIOUS
  <2> QED BY <2>1 DEF Replace, Front, Back, QueueAction
<1> QED BY <1>2, <1>3

(* Who queues actions, queues some of these. *)
LEMMA ActsQueued ==
  ASSUME NEW u \in Units, Finish(u) \/ AutoOrder(u) \/ Order(u)
  PROVE  /\ \E acts \in Seq(QueueAction) : Queue(u, acts)
         /\ pc \in {"update", "input"}
         /\ UNCHANGED <<state, cleanup, comp, mementos, prelayers, pc, open, starts>>
<1>0. \A a, b \in QueueAction : <<a>> \in Seq(QueueAction) /\ <<a, b>> \in Seq(QueueAction)
  OBVIOUS
<1>1. <<Done>> \in Seq(QueueAction) /\ <<Replace(<< >>), Done>> \in Seq(QueueAction)
  BY <1>0, ActionTypes
<1>2. \A c \in Commands : /\ <<Front(c)>> \in Seq(QueueAction) /\ <<Back(c)>> \in Seq(QueueAction)
                          /\ <<Replace(<<c>>), Done>> \in Seq(QueueAction)
  BY <1>0, ActionTypes, Zenon
<1>3. CASE Finish(u)
  BY <1>1, <1>3 DEF Finish
<1>4. CASE AutoOrder(u)
  BY <1>2, <1>4, ConstantsAssumption DEF AutoOrder, ConstantsAssumption
<1>5. CASE Order(u)
  BY <1>1, <1>2, <1>5 DEF Order
<1> QED BY <1>3, <1>4, <1>5

-----------------------------------------------------------------------------
(* The shape of the data. *)
Shape ==
  /\ queue \in [Units -> QueueType] /\ state \in [Units -> PairType]
  /\ cleanup \in [Units -> Kinds \union {None}] /\ comp \in [Units -> CompType]
  /\ mementos \in Seq([Units -> SavedType]) /\ prelayers \in Seq([Units -> StepsType])
  /\ starts \in Seq(StartType) /\ open \in [Units -> Variant]
  /\ pc \in {"idle", "actions", "cleanup", "postcleanup", "preupdate", "update", "input"}
  /\ Len(prelayers) = Depth /\ Len(mementos) = Depth
  /\ pc # "idle" => Depth > 0

LEMMA ShapeType == Shape => TypeOK
BY DEF Shape, TypeOK, Depth, PairType, CompType, SavedType, StepsType

LEMMA KindTypes ==
  /\ \A c \in Variant : KindOf[c] \in Kinds \union {NoOp} /\ KindOf[c] \in PairType
  /\ \A c \in Variant : c # NoOp => KindOf[c] \in Kinds
  /\ NoOp \in Variant /\ KindOf[NoOp] = NoOp /\ Commands \subseteq Variant
BY ConstantsAssumption DEF ConstantsAssumption, Variant, PairType

LEMMA ShapeInit == Init => Shape
<1> SUFFICES ASSUME Init PROVE Shape
  OBVIOUS
<1>1. queue \in [Units -> QueueType]
  <2>1. [current |-> NoOp, queued |-> << >>, done |-> FALSE, actions |-> << >>] \in QueueType
    BY KindTypes DEF QueueType
  <2> QED BY <2>1 DEF Init
<1>2. state \in [Units -> PairType] /\ cleanup \in [Units -> Kinds \union {None}]
      /\ open \in [Units -> Variant]
  BY KindTypes DEF Init, PairType
<1>3. comp \in [Units -> CompType]
  <2> DEFINE none == [k \in Kinds \union {NoOp} |-> None]
             some(c) == [k \in Kinds \union {NoOp} |-> IF k = KindOf[c] THEN c ELSE None]
  <2>1. none \in CompType
    BY DEF CompType
  <2>2. \A c \in AutoCommands : some(c) \in CompType
    BY KindTypes, ConstantsAssumption DEF CompType, ConstantsAssumption
  <2>3. comp \in [Units -> {none} \union {some(c) : c \in AutoCommands}]
    BY DEF Init
  <2> QED BY <2>1, <2>2, <2>3
<1>4. /\ mementos \in Seq([Units -> SavedType]) /\ prelayers \in Seq([Units -> StepsType])
      /\ starts \in Seq(StartType) /\ Len(prelayers) = 0 /\ Len(mementos) = 0 /\ Len(starts) = 0
  BY DEF Init
<1> QED BY <1>1, <1>2, <1>3, <1>4 DEF Shape, Init, Depth

(* Actions that leave the layers and what they hold alone. *)
Layers == <<mementos, prelayers, starts>>

LEMMA ShapeNext == Shape /\ [Next]_vars => Shape'
<1> SUFFICES ASSUME Shape, [Next]_vars PROVE Shape'
  OBVIOUS
<1> USE DEF Depth
<1>T. Depth \in Nat
  BY DEF Shape
<1>L. pc # "idle" => prelayers[Len(prelayers)] \in [Units -> StepsType]
  BY <1>T DEF Shape
<1>1. CASE BeginFrame
  <2> DEFINE unsaved == [u \in Units |-> None]
             blank == [u \in Units |-> NoSteps]
             now == [world |-> world, open |-> open]
  <2>1. unsaved \in [Units -> SavedType] /\ blank \in [Units -> StepsType]
    BY DEF SavedType, StepsType, NoSteps, PairType
  <2>2. now \in StartType
    BY DEF StartType, Shape, world
  <2>3. /\ mementos' = DropFirst(Append(mementos, unsaved))
        /\ prelayers' = DropFirst(Append(prelayers, blank))
        /\ starts' = DropFirst(Append(starts, now))
        /\ pc' = "actions" /\ UNCHANGED <<queue, state, cleanup, comp, open>>
    BY <1>1 DEF BeginFrame
  <2> HIDE DEF unsaved, blank, now
  <2>4. /\ mementos' \in Seq([Units -> SavedType]) /\ Len(mementos') = Depth + 1 - Dropped(Depth)
        /\ Len(mementos') > 0
    BY <2>1, <2>3, Pushed, PushedType DEF Shape
  <2>5. prelayers' \in Seq([Units -> StepsType]) /\ Len(prelayers') = Depth + 1 - Dropped(Depth)
    <3> DEFINE S == [Units -> StepsType]
    <3>1. prelayers \in Seq(S) /\ blank \in S /\ Len(prelayers) = Depth
      BY <2>1 DEF Shape
    <3> HIDE DEF S
    <3>2. prelayers' \in Seq(S)
      BY <2>3, <3>1, PushedType
    <3>3. Len(prelayers') = Depth + 1 - Dropped(Depth)
      BY <2>3, <3>1, <3>2, Pushed
    <3> QED BY <3>2, <3>3 DEF S
  <2>6. starts' \in Seq(StartType) /\ Len(starts') = Depth + 1 - Dropped(Depth)
    BY <2>2, <2>3, Pushed, PushedType DEF Shape
  <2> QED BY <2>3, <2>4, <2>5, <2>6 DEF Shape
<1>2. ASSUME NEW u \in Units, HandleAction(u) PROVE Shape'
  <2>1. /\ queue[u] \in QueueType /\ queue[u].actions # << >> /\ queue[u] \in SavedType
        /\ Len(mementos) > 0 /\ pc = "actions"
    BY <1>2 DEF HandleAction, Shape, SavedType
  <2> DEFINE new == [Handled(queue[u], Head(queue[u].actions)) EXCEPT !.actions = Tail(queue[u].actions)]
  <2>2. new \in QueueType
    BY <2>1, ActionsHandled
  <2>3. queue' = [queue EXCEPT ![u] = new]
    BY <1>2 DEF HandleAction
  <2> HIDE DEF new
  <2>4. queue' \in [Units -> QueueType]
    BY <2>2, <2>3 DEF Shape
  <2>5. mementos' \in Seq([Units -> SavedType]) /\ Len(mementos') = Len(mementos)
    <3>1. mementos' = mementos \/ mementos' = SetLast(mementos, u, queue[u])
      BY <1>2 DEF HandleAction
    <3>2. mementos \in Seq([Units -> SavedType])
      BY DEF Shape
    <3>3. LET set == SetLast(mementos, u, queue[u])
          IN set \in Seq([Units -> SavedType]) /\ Len(set) = Len(mementos)
      <4>1. u \in Units /\ queue[u] \in SavedType /\ Len(mementos) > 0
        BY <1>2, <2>1
      <4>2. /\ Len(mementos) \in 1..Len(mementos) /\ mementos[Len(mementos)] \in [Units -> SavedType]
            /\ [mementos[Len(mementos)] EXCEPT ![u] = queue[u]] \in [Units -> SavedType]
        BY <3>2, <4>1
      <4> QED BY <3>2, <4>2 DEF SetLast
    <3> QED BY <3>1, <3>2, <3>3
  <2> QED BY <1>2, <2>4, <2>5 DEF HandleAction, Shape
<1>3. CASE CleanUpCurrent
  <2> DEFINE last == prelayers[Len(prelayers)]
             ends(u) == IF Ends(u) THEN [last[u] EXCEPT !.remove = KindOf[queue[u].current]] ELSE last[u]
             new(u) == [queue[u] EXCEPT !.current = IF Ends(u) THEN NoOp ELSE @, !.done = FALSE]
  <2>1. /\ prelayers' = [prelayers EXCEPT ![Len(prelayers)] = [u \in Units |-> ends(u)]]
        /\ queue' = [u \in Units |-> new(u)]
        /\ cleanup' = [u \in Units |-> IF Ends(u) THEN KindOf[queue[u].current] ELSE cleanup[u]]
        /\ pc = "actions" /\ pc' = "cleanup" /\ UNCHANGED <<state, comp, mementos, open, starts>>
    BY <1>3 DEF CleanUpCurrent
  <2>2. ASSUME NEW u \in Units
        PROVE  /\ queue[u].current \in Variant /\ last[u] \in StepsType
               /\ (Ends(u) => KindOf[queue[u].current] \in Kinds)
               /\ new(u) \in QueueType /\ ends(u) \in StepsType
    <3>1. queue[u] \in QueueType /\ queue[u].current \in Variant
      BY DEF Shape, QueueType
    <3>2. last[u] \in StepsType
      BY <1>L, <2>1
    <3>3. Ends(u) => KindOf[queue[u].current] \in Kinds
      BY <3>1, KindTypes DEF Ends
    <3>4. new(u) \in QueueType
      BY <3>1, KindTypes DEF QueueType
    <3>5. ends(u) \in StepsType
      BY <3>2, <3>3 DEF StepsType
    <3> QED BY <3>1, <3>2, <3>3, <3>4, <3>5
  <2> HIDE DEF new, ends, last
  <2>3. queue' \in [Units -> QueueType] /\ cleanup' \in [Units -> Kinds \union {None}]
    BY <2>1, <2>2 DEF Shape
  <2>4. prelayers' \in Seq([Units -> StepsType]) /\ Len(prelayers') = Len(prelayers)
    <3>1. [u \in Units |-> ends(u)] \in [Units -> StepsType]
      BY <2>2
    <3> QED BY <1>T, <2>1, <3>1 DEF Shape
  <2> QED BY <2>1, <2>3, <2>4 DEF Shape
<1>4. CASE CleanUp
  <2>1. open' \in [Units -> Variant]
    BY <1>4, KindTypes DEF CleanUp, Shape
  <2> QED BY <1>4, <2>1 DEF CleanUp, Shape
<1>5. CASE UpdateCurrent
  <2> DEFINE last == prelayers[Len(prelayers)]
             new(u) == IF Starts(u)
                       THEN [queue[u] EXCEPT !.current = Head(queue[u].queued), !.queued = Tail(@)]
                       ELSE queue[u]
             adds(u) ==
               IF queue[u].current # NoOp THEN last[u]
               ELSE IF queue[u].queued = << >> THEN [last[u] EXCEPT !.add = NoOp]
               ELSE LET c == Head(queue[u].queued)
                        before == comp[u][KindOf[c]]
                    IN [last[u] EXCEPT !.add = KindOf[c], !.new = c,
                                       !.old = IF before = None THEN NoOp ELSE before]
  <2>1. /\ prelayers' = [prelayers EXCEPT ![Len(prelayers)] = [u \in Units |-> adds(u)]]
        /\ queue' = [u \in Units |-> new(u)]
        /\ cleanup' = [u \in Units |-> None]
        /\ open' = [u \in Units |-> IF Starts(u) /\ open[u] = NoOp THEN Head(queue[u].queued) ELSE open[u]]
        /\ pc = "postcleanup" /\ pc' = "preupdate" /\ UNCHANGED <<state, comp, mementos, starts>>
    BY <1>5 DEF UpdateCurrent
  <2>2. ASSUME NEW u \in Units
        PROVE  /\ new(u) \in QueueType /\ adds(u) \in StepsType
               /\ queue[u].queued # << >> => Head(queue[u].queued) \in Variant
    <3>1. queue[u] \in QueueType /\ queue[u].queued \in Seq(Commands)
      BY DEF Shape, QueueType
    <3>2. queue[u].queued # << >> => /\ Head(queue[u].queued) \in Commands
                                     /\ Head(queue[u].queued) \in Variant
                                     /\ Tail(queue[u].queued) \in Seq(Commands)
      BY <3>1 DEF Variant
    <3>3. last[u] \in StepsType
      BY <1>L, <2>1
    <3>4. new(u) \in QueueType
      BY <3>1, <3>2 DEF Starts, QueueType
    <3>5. CASE queue[u].current # NoOp \/ queue[u].queued = << >>
      BY <3>2, <3>3, <3>4, <3>5 DEF StepsType, PairType
    <3>6. CASE queue[u].current = NoOp /\ queue[u].queued # << >>
      <4> DEFINE c == Head(queue[u].queued)
                 before == comp[u][KindOf[c]]
      <4>1. c \in Variant /\ KindOf[c] \in PairType /\ before \in Variant \union {None}
        BY <3>2, <3>6, KindTypes DEF Shape, CompType
      <4>2. adds(u) = [last[u] EXCEPT !.add = KindOf[c], !.new = c,
                                      !.old = IF before = None THEN NoOp ELSE before]
        BY <3>6
      <4> HIDE DEF c, before, adds
      <4>3. adds(u) \in StepsType
        BY <3>3, <4>1, <4>2, KindTypes DEF StepsType
      <4> QED BY <3>2, <3>4, <4>3
    <3> QED BY <3>5, <3>6
  <2> HIDE DEF new, adds, last
  <2>3. queue' \in [Units -> QueueType] /\ cleanup' \in [Units -> Kinds \union {None}]
        /\ open' \in [Units -> Variant]
    BY <2>1, <2>2 DEF Shape, Starts
  <2>4. prelayers' \in Seq([Units -> StepsType]) /\ Len(prelayers') = Len(prelayers)
    <3>1. [u \in Units |-> adds(u)] \in [Units -> StepsType]
      BY <2>2
    <3> QED BY <1>T, <2>1, <3>1 DEF Shape
  <2> QED BY <2>1, <2>3, <2>4 DEF Shape
<1>6. CASE ApplyPrelayer
  <2>1. pc = "preupdate" /\ Len(prelayers) > 0 /\ prelayers[Len(prelayers)] \in [Units -> StepsType]
    BY <1>6, <1>T DEF ApplyPrelayer, Shape
  <2>2. state' \in [Units -> PairType]
    BY <1>6, <2>1 DEF ApplyPrelayer, Shape, StepsType, PairType
  <2>3. comp' \in [Units -> CompType]
    <3>1. ASSUME NEW u \in Units, NEW c \in Variant PROVE [comp[u] EXCEPT ![KindOf[c]] = c] \in CompType
      BY KindTypes DEF Shape, CompType
    <3>2. \A u \in Units : comp[u] \in CompType /\ prelayers[Len(prelayers)][u].new \in Variant \union {None}
      BY <2>1 DEF Shape, StepsType
    <3> QED BY <1>6, <3>1, <3>2 DEF ApplyPrelayer
  <2> QED BY <1>6, <2>2, <2>3 DEF ApplyPrelayer, Shape
<1>7. ASSUME NEW u \in Units, NEW acts \in Seq(QueueAction), Queue(u, acts), UNCHANGED <<Layers, state, cleanup, comp, pc, open>>
      PROVE  Shape'
  <2>1. queue[u] \in QueueType
    BY DEF Shape
  <2>2. [queue[u] EXCEPT !.actions = @ \o acts] \in QueueType
    BY <2>1, ActionsQueued
  <2>3. queue' = [queue EXCEPT ![u] = [queue[u] EXCEPT !.actions = @ \o acts]]
    BY <1>7 DEF Queue, Shape
  <2>4. queue' \in [Units -> QueueType]
    BY <2>2, <2>3 DEF Shape
  <2> QED BY <1>7, <2>4 DEF Shape, Layers
<1>8. CASE EndUpdate \/ EndFrame
  BY <1>8 DEF EndUpdate, EndFrame, Shape
<1>9. CASE Rewind
  <2>1. pc = "idle" /\ pc' = "idle" /\ mementos # << >> /\ Depth > 0 /\ prelayers # << >> /\ starts # << >>
    BY <1>9 DEF Rewind, Shape
  <2>2. /\ mementos' \in Seq([Units -> SavedType]) /\ prelayers' \in Seq([Units -> StepsType])
        /\ starts' \in Seq(StartType)
        /\ Len(mementos') = Depth - 1 /\ Len(prelayers') = Depth - 1 /\ Len(starts') = Depth - 1
    BY <1>9, <2>1, Popped DEF Rewind, Shape
  <2>3. /\ mementos[Depth] \in [Units -> SavedType] /\ prelayers[Depth] \in [Units -> StepsType]
        /\ starts[Depth] \in StartType
    BY <2>1, <1>T DEF Shape
  <2>4. queue' \in [Units -> QueueType]
    <3>1. ASSUME NEW u \in Units PROVE Restored(u) \in QueueType
      <4>1. queue[u] \in QueueType /\ mementos[Depth][u] \in SavedType
        BY <2>3 DEF Shape
      <4>2. [queue[u] EXCEPT !.actions = << >>] \in QueueType
        <5>1. << >> \in Seq(QueueAction)
          OBVIOUS
        <5> QED BY <4>1, <5>1 DEF QueueType
      <4> QED BY <4>1, <4>2 DEF Restored, Shape, SavedType
    <3> QED BY <1>9, <3>1 DEF Rewind
  <2>5. state' \in [Units -> PairType]
    BY <1>9, <2>3 DEF Rewind, RevertedState, Shape, StepsType, PairType
  <2>6. comp' \in [Units -> CompType]
    <3>1. ASSUME NEW u \in Units PROVE RevertedComp(u) \in CompType
      <4>1. comp[u] \in CompType /\ prelayers[Depth][u].old \in Variant \union {None}
        BY <2>3 DEF Shape, StepsType
      <4>2. [comp[u] EXCEPT ![KindOf[prelayers[Depth][u].old]] = prelayers[Depth][u].old] \in CompType
        BY <4>1 DEF CompType
      <4> QED BY <4>1, <4>2 DEF RevertedComp, Shape
    <3> QED BY <1>9, <3>1 DEF Rewind
  <2>7. open' \in [Units -> Variant]
    BY <1>9, <2>3 DEF Rewind, StartType
  <2> QED BY <1>9, <2>1, <2>2, <2>4, <2>5, <2>6, <2>7 DEF Rewind, Shape
<1>10. CASE UNCHANGED vars
  BY <1>10 DEF vars, Shape
<1>11. ASSUME NEW u \in Units, Finish(u) \/ AutoOrder(u) \/ Order(u) PROVE Shape'
  <2>1. PICK acts \in Seq(QueueAction) : Queue(u, acts)
    BY <1>11, ActsQueued
  <2> QED BY <1>7, <1>11, <2>1 DEF Finish, AutoOrder, Order, Layers
<1> QED BY <1>1, <1>2, <1>3, <1>4, <1>5, <1>6, <1>8, <1>9, <1>10, <1>11 DEF Next, FrameStep

(* CommandQueue keeps its shape: TypeOK is an invariant. *)
THEOREM TypeCorrect == Spec => []TypeOK
<1>1. Spec => []Shape
  BY ShapeInit, ShapeNext, PTL DEF Spec
<1> QED BY <1>1, ShapeType, PTL
-----------------------------------------------------------------------------
(* A unit with all that belongs to it, now and when frame i began. *)
Now(u) == [queue |-> queue[u], state |-> state[u], cleanup |-> cleanup[u],
           comp |-> comp[u], open |-> open[u]]
Was(u, i) == [queue |-> starts[i].world[1][u], state |-> starts[i].world[2][u],
              cleanup |-> starts[i].world[3][u], comp |-> starts[i].world[4][u],
              open |-> starts[i].open[u]]

UnitType == [queue : QueueType, state : PairType, cleanup : Kinds \union {None},
             comp : CompType, open : Variant]

AsKind(pair) == IF pair = None THEN NoOp ELSE pair

(* The components of a unit are in the places of their kinds. *)
Kinded(n) == \A k \in Kinds : n.comp[k] # None => KindOf[n.comp[k]] = k

(* The entity of unit n shows the current command of its queue. *)
Shows(n) ==
  LET c == n.queue.current
  IN AsKind(n.state) = KindOf[c] /\ (c # NoOp => n.comp[KindOf[c]] = c)

Settled(q) == ~ q.done /\ (q.current = NoOp => q.queued = << >>)

Closed(n) == n.cleanup = None /\ n.open = n.queue.current

(* A unit between frames, and while command systems run. *)
Steady(n) == Shows(n) /\ Settled(n.queue) /\ Closed(n)

(* The memento of a frame has the queue that was, unless nothing was done   *)
(* to it.                                                                  *)
Remembers(saved, was, n) ==
  IF saved # None THEN saved = was.queue
                  ELSE was.queue = [n.queue EXCEPT !.actions = << >>]

(* Undoing a frame of memento saved and state steps s takes n to what was. *)
Undoes(was, saved, s, n) ==
  /\ Remembers(saved, was, n)
  /\ AsKind(was.state) = IF s.remove # None THEN s.remove
                         ELSE IF s.add # None THEN NoOp ELSE AsKind(n.state)
  /\ s.new # None => s.old # None
  /\ \A k \in Kinds : was.comp[k] # None =>
       was.comp[k] = IF s.new # None /\ k = KindOf[s.old] THEN s.old ELSE n.comp[k]

(* Until the prelayer is applied, the entity is what it was. *)
Untouched(was, n) == n.state = was.state /\ n.comp = was.comp

Acting(was, saved, s, n) ==
  /\ Untouched(was, n) /\ Shows(n) /\ Closed(n) /\ s = NoSteps
  /\ IF saved # None THEN saved = was.queue ELSE was.queue = n.queue

(* Once the current command was looked at: it goes on, or it has ended. *)
Ending(was, saved, s, n) ==
  /\ Untouched(was, n) /\ Remembers(saved, was, n)
  /\ ~ n.queue.done /\ s.add = None /\ s.new = None /\ n.cleanup = s.remove
  /\ IF s.remove = None THEN Shows(n)
     ELSE n.queue.current = NoOp /\ AsKind(n.state) = s.remove /\ s.remove \in Kinds

NotCleanedUp(n) == KindOf[n.open] = n.cleanup /\ n.comp[n.cleanup] # None

Beginning(was, saved, s, n) ==
  LET c == n.queue.current
  IN /\ Untouched(was, n) /\ Remembers(saved, was, n) /\ Settled(n.queue) /\ Closed(n)
     /\ IF s.add = None THEN Shows(n) /\ s.remove = None /\ s.new = None
        ELSE /\ s.add = KindOf[c] /\ s.new = IF c = NoOp THEN None ELSE c
             /\ AsKind(n.state) = IF s.remove = None THEN NoOp ELSE s.remove
             /\ c # NoOp => s.old = IF n.comp[KindOf[c]] = None THEN NoOp ELSE n.comp[KindOf[c]]

Present(u) ==
  LET n == Now(u)
      was == Was(u, Depth)
      saved == mementos[Depth][u]
      s == prelayers[Depth][u]
  IN /\ Kinded(n)
     /\ pc \in {"idle", "update", "input"} =>
          Steady(n) /\ (Depth > 0 => Undoes(was, saved, s, n))
     /\ pc = "actions" => Acting(was, saved, s, n)
     /\ pc = "cleanup" =>
          /\ Ending(was, saved, s, n)
          /\ IF n.cleanup = None THEN n.open = n.queue.current ELSE NotCleanedUp(n)
     /\ pc = "postcleanup" => Ending(was, saved, s, n) /\ n.open = n.queue.current
     /\ pc = "preupdate" => Beginning(was, saved, s, n)

Past(u) ==
  /\ \A i \in 1..Depth : Steady(Was(u, i))
  /\ \A i \in 1..(Depth - 1) :
       Undoes(Was(u, i), mementos[i][u], prelayers[i][u], Was(u, i + 1))

QueueInv == Shape /\ \A u \in Units : Past(u) /\ Present(u)

-----------------------------------------------------------------------------
LEMMA UnitTypes ==
  ASSUME Shape, NEW u \in Units
  PROVE  /\ Now(u) \in UnitType
         /\ \A i \in 1..Depth : /\ Was(u, i) \in UnitType
                                /\ mementos[i][u] \in SavedType /\ prelayers[i][u] \in StepsType
<1>1. Now(u) \in UnitType
  BY DEF Shape, Now, UnitType
<1>2. ASSUME NEW i \in 1..Depth
      PROVE  /\ Was(u, i) \in UnitType
             /\ mementos[i][u] \in SavedType /\ prelayers[i][u] \in StepsType
  <2>1. /\ starts[i] \in StartType /\ mementos[i] \in [Units -> SavedType]
        /\ prelayers[i] \in [Units -> StepsType]
    BY DEF Shape, Depth
  <2>2. Was(u, i) \in UnitType
    BY <2>1 DEF StartType, Was, UnitType
  <2> QED BY <2>1, <2>2
<1> QED BY <1>1, <1>2

(* Applying the prelayer makes the unit steady, and can be undone. *)
LEMMA ApplySteps ==
  ASSUME NEW was \in UnitType, NEW saved \in SavedType, NEW s \in StepsType,
         NEW n \in UnitType, NEW new \in UnitType,
         Beginning(was, saved, s, n), Kinded(n),
         new.queue = n.queue, new.cleanup = n.cleanup, new.open = n.open,
         new.state = IF s.add # None THEN s.add ELSE IF s.remove # None THEN NoOp ELSE n.state,
         new.comp = IF s.new # None THEN [n.comp EXCEPT ![KindOf[s.new]] = s.new] ELSE n.comp
  PROVE  Steady(new) /\ Kinded(new) /\ Undoes(was, saved, s, new)
<1> DEFINE c == n.queue.current
<1>1. /\ c \in Variant /\ KindOf[c] \in Kinds \union {NoOp} /\ n.comp \in CompType
      /\ c # NoOp => KindOf[c] \in Kinds
      /\ NoOp # None /\ NoOp \notin Kinds /\ None \notin Kinds /\ None \notin Variant
  BY KindTypes, ConstantsAssumption DEF UnitType, QueueType, ConstantsAssumption
<1>2. Remembers(saved, was, new)
  BY DEF Beginning, Remembers
<1>3. CASE s.add = None
  <2>1. Shows(n) /\ s.remove = None /\ s.new = None /\ Untouched(was, n)
    BY <1>3 DEF Beginning
  <2>2. new.state = n.state /\ new.comp = n.comp
    BY <1>3, <2>1
  <2> QED BY <1>2, <1>3, <2>1, <2>2 DEF Beginning, Steady, Shows, Closed, Kinded, Undoes, Untouched
<1>4. CASE s.add # None
  <2>1. /\ s.add = KindOf[c] /\ s.new = (IF c = NoOp THEN None ELSE c)
        /\ AsKind(n.state) = (IF s.remove = None THEN NoOp ELSE s.remove)
        /\ c # NoOp => s.old = IF n.comp[KindOf[c]] = None THEN NoOp ELSE n.comp[KindOf[c]]
        /\ Untouched(was, n)
    BY <1>4 DEF Beginning
  <2>2. new.state = KindOf[c] /\ AsKind(new.state) = KindOf[c]
    BY <1>1, <1>4, <2>1 DEF AsKind
  <2>3. CASE c = NoOp
    <3>1. new.comp = n.comp /\ s.new = None
      BY <2>1, <2>3
    <3> QED BY <1>2, <1>4, <2>1, <2>2, <2>3, <3>1
            DEF Beginning, Steady, Shows, Closed, Kinded, Undoes, Untouched
  <2>4. CASE c # NoOp
    <3>1. new.comp = [n.comp EXCEPT ![KindOf[c]] = c] /\ s.new = c /\ c # None
      BY <1>1, <2>1, <2>4
    <3>2. /\ new.comp[KindOf[c]] = c
          /\ \A k \in Kinds : k # KindOf[c] => new.comp[k] = n.comp[k]
      BY <1>1, <3>1 DEF CompType
    <3>3. Steady(new) /\ Kinded(new)
      BY <2>2, <3>2, <1>1 DEF Beginning, Steady, Shows, Closed, Kinded
    <3>4. s.old # None
      BY <1>1, <2>1, <2>4
    <3>5. ASSUME NEW k \in Kinds, was.comp[k] # None
          PROVE  was.comp[k] = IF k = KindOf[s.old] THEN s.old ELSE new.comp[k]
      <4>1. was.comp[k] = n.comp[k] /\ KindOf[n.comp[k]] = k
        BY <2>1, <3>5 DEF Untouched, Kinded
      <4>2. CASE k = KindOf[c]
        BY <2>1, <2>4, <3>5, <4>1, <4>2
      <4>3. CASE k # KindOf[c]
        <5>1. s.old = NoOp \/ KindOf[s.old] = KindOf[c]
          BY <1>1, <2>1, <2>4 DEF Kinded
        <5>2. k # KindOf[s.old]
          BY <1>1, <4>3, <5>1, KindTypes
        <5> QED BY <3>2, <4>1, <4>3, <5>2
      <4> QED BY <4>2, <4>3
    <3> QED BY <1>2, <1>4, <2>1, <3>1, <3>3, <3>4, <3>5 DEF Undoes, Untouched
  <2> QED BY <2>3, <2>4
<1> QED BY <1>3, <1>4

(* What a rewind makes of n: was, but for the components that it leaves. *)
Like(n, was) ==
  /\ n.queue = was.queue /\ AsKind(n.state) = AsKind(was.state)
  /\ n.cleanup = was.cleanup /\ n.open = was.open
  /\ \A k \in Kinds : was.comp[k] # None => n.comp[k] = was.comp[k]

LEMMA LikeSteady ==
  ASSUME NEW n \in UnitType, NEW was \in UnitType, Like(n, was), Steady(was)
  PROVE  Steady(n)
<1>1. LET c == was.queue.current IN c # NoOp => KindOf[c] \in Kinds /\ c # None
  BY KindTypes, ConstantsAssumption DEF UnitType, QueueType, ConstantsAssumption
<1> QED BY <1>1 DEF Like, Steady, Shows, Closed

(* Frames can be undone one after the other. *)
LEMMA LikeUndone ==
  ASSUME NEW before, NEW saved, NEW s, NEW was, NEW n,
         Undoes(before, saved, s, was), Like(n, was)
  PROVE  Undoes(before, saved, s, n)
BY DEF Undoes, Like, Remembers

LEMMA UndoFrame ==
  ASSUME NEW was \in UnitType, NEW saved \in SavedType, NEW s \in StepsType,
         NEW n \in UnitType, NEW new \in UnitType,
         Undoes(was, saved, s, n), Kinded(n), Steady(was),
         new.queue = IF saved = None THEN [n.queue EXCEPT !.actions = << >>] ELSE saved,
         new.state = IF s.remove # None THEN s.remove ELSE IF s.add # None THEN NoOp ELSE n.state,
         new.comp = IF s.new = None THEN n.comp ELSE [n.comp EXCEPT ![KindOf[s.old]] = s.old],
         new.cleanup = None, new.open = was.open
  PROVE  Like(new, was) /\ Kinded(new)
<1>1. NoOp # None /\ NoOp \notin Kinds /\ None \notin Kinds /\ None \notin Variant
  BY ConstantsAssumption DEF ConstantsAssumption, Variant
<1>2. new.queue = was.queue
  BY DEF Undoes, Remembers
<1>3. AsKind(new.state) = AsKind(was.state)
  BY <1>1 DEF Undoes, AsKind, StepsType
<1>4. new.cleanup = was.cleanup
  BY DEF Steady, Closed
<1>5. CASE s.new = None
  BY <1>2, <1>3, <1>4, <1>5 DEF Undoes, Like, Kinded
<1>6. CASE s.new # None
  <2>1. s.old \in Variant /\ KindOf[s.old] \in Kinds \union {NoOp} /\ n.comp \in CompType
    BY <1>6, KindTypes DEF Undoes, StepsType, UnitType
  <2>2. \A k \in Kinds : new.comp[k] = IF k = KindOf[s.old] THEN s.old ELSE n.comp[k]
    BY <1>6, <2>1 DEF CompType
  <2> QED BY <1>2, <1>3, <1>4, <1>6, <2>2 DEF Undoes, Like, Kinded
<1> QED BY <1>5, <1>6

-----------------------------------------------------------------------------
LEMMA QueueInvInit == Init => QueueInv
<1> SUFFICES ASSUME Init PROVE QueueInv
  OBVIOUS
<1>1. Shape /\ Depth = 0
  BY ShapeInit DEF Init, Depth
<1>2. ASSUME NEW u \in Units PROVE Past(u) /\ Present(u)
  <2>1. /\ queue[u] = [current |-> NoOp, queued |-> << >>, done |-> FALSE, actions |-> << >>]
        /\ state[u] = None /\ cleanup[u] = None /\ open[u] = NoOp /\ pc = "idle"
    BY DEF Init
  <2>2. Steady(Now(u))
    BY <2>1, KindTypes DEF Steady, Shows, Settled, Closed, Now, AsKind
  <2>3. Kinded(Now(u))
    <3> DEFINE none == [k \in Kinds \union {NoOp} |-> None]
               some(c) == [k \in Kinds \union {NoOp} |-> IF k = KindOf[c] THEN c ELSE None]
    <3>1. comp[u] \in {none} \union {some(c) : c \in AutoCommands}
      BY DEF Init
    <3>2. \A k \in Kinds : none[k] = None
      OBVIOUS
    <3>3. \A c \in AutoCommands : \A k \in Kinds : some(c)[k] # None => KindOf[some(c)[k]] = k
      OBVIOUS
    <3> HIDE DEF none, some
    <3> QED BY <3>1, <3>2, <3>3 DEF Kinded, Now
  <2> QED BY <1>1, <2>1, <2>2, <2>3 DEF Past, Present
<1> QED BY <1>1, <1>2 DEF QueueInv

(* Actions that keep what is known of the frames before this one. *)
LEMMA PastKept ==
  ASSUME Shape, NEW u \in Units, Past(u), starts' = starts,
         \A i \in 1..(Depth - 1) : /\ mementos'[i][u] = mementos[i][u]
                                   /\ prelayers'[i][u] = prelayers[i][u]
  PROVE  Past(u)'
<1>1. Depth' = Depth /\ Depth \in Nat
  BY DEF Depth, Shape
<1>2. \A i \in 1..Depth : Was(u, i)' = Was(u, i)
  BY DEF Was
<1>3. ASSUME NEW i \in 1..(Depth - 1)
      PROVE  Undoes(Was(u, i)', mementos'[i][u], prelayers'[i][u], Was(u, i + 1)')
  <2>1. i \in 1..Depth /\ i + 1 \in 1..Depth
    BY <1>1
  <2>2. Undoes(Was(u, i), mementos[i][u], prelayers[i][u], Was(u, i + 1))
    BY <1>3 DEF Past
  <2>3. mementos'[i][u] = mementos[i][u] /\ prelayers'[i][u] = prelayers[i][u]
    BY <1>3
  <2> QED BY <1>2, <2>1, <2>2, <2>3
<1>4. \A i \in 1..Depth : Steady(Was(u, i)')
  BY <1>2 DEF Past
<1> QED BY <1>1, <1>3, <1>4 DEF Past

(* InitializationPhase. *)
LEMMA InvBeginFrame ==
  ASSUME QueueInv, Shape', BeginFrame, NEW u \in Units
  PROVE  Past(u)' /\ Present(u)'
<1> DEFINE unsaved == [v \in Units |-> None]
           blank == [v \in Units |-> NoSteps]
           now == [world |-> world, open |-> open]
           o == Dropped(Depth)
<1>1. Shape /\ Past(u) /\ Present(u) /\ Depth \in Nat /\ o \in {0, 1}
  BY DEF QueueInv, Shape, Depth, Dropped
<1>2. unsaved \in [Units -> SavedType] /\ blank \in [Units -> StepsType] /\ now \in StartType
  BY <1>1 DEF SavedType, StepsType, NoSteps, PairType, StartType, Shape, world
<1>3. /\ mementos' = DropFirst(Append(mementos, unsaved))
      /\ prelayers' = DropFirst(Append(prelayers, blank))
      /\ starts' = DropFirst(Append(starts, now))
      /\ pc = "idle" /\ pc' = "actions" /\ UNCHANGED <<queue, state, cleanup, comp, open>>
  BY DEF BeginFrame
<1> HIDE DEF unsaved, blank, now, o
<1>4. /\ mementos'[Len(mementos')] = unsaved
      /\ \A i \in 1..(Len(mementos') - 1) : mementos'[i] = mementos[i + Dropped(Len(mementos))]
  <2> DEFINE S == [Units -> SavedType]
  <2>1. mementos \in Seq(S) /\ unsaved \in S
    BY <1>1, <1>2 DEF Shape
  <2> HIDE DEF S
  <2>2. mementos' \in Seq(S)
    BY <1>3, <2>1, PushedType
  <2> QED BY <1>3, <2>1, <2>2, Pushed, SMTT(30)
<1>5. /\ prelayers'[Len(prelayers')] = blank
      /\ \A i \in 1..(Len(prelayers') - 1) : prelayers'[i] = prelayers[i + Dropped(Len(prelayers))]
  <2> DEFINE S == [Units -> StepsType]
  <2>1. prelayers \in Seq(S) /\ blank \in S
    BY <1>1, <1>2 DEF Shape
  <2> HIDE DEF S
  <2>2. prelayers' \in Seq(S)
    BY <1>3, <2>1, PushedType
  <2> QED BY <1>3, <2>1, <2>2, Pushed, SMTT(30)
<1>6. /\ starts'[Len(starts')] = now /\ Len(starts') = Depth + 1 - o /\ Len(starts') > 0
      /\ \A i \in 1..(Len(starts') - 1) : starts'[i] = starts[i + o]
  <2>1. starts \in Seq(StartType) /\ o = Dropped(Len(starts))
    BY <1>1 DEF Shape, o, Depth
  <2>2. starts' \in Seq(StartType)
    BY DEF Shape
  <2> QED BY <1>2, <1>3, <2>1, <2>2, Pushed DEF Depth
<1>7. /\ Depth' = Depth + 1 - o /\ Depth' > 0
      /\ mementos'[Depth'][u] = None /\ prelayers'[Depth'][u] = NoSteps
      /\ \A i \in 1..(Depth' - 1) : /\ mementos'[i] = mementos[i + o]
                                    /\ prelayers'[i] = prelayers[i + o]
  <2>1. Depth' = Depth + 1 - o /\ Depth' > 0
    BY <1>6 DEF Depth
  <2>2. /\ Len(mementos) = Depth /\ Len(prelayers) = Depth
        /\ Len(mementos') = Depth' /\ Len(prelayers') = Depth'
    BY <1>1 DEF Shape
  <2>3. unsaved[u] = None /\ blank[u] = NoSteps
    BY DEF unsaved, blank
  <2>4. /\ mementos'[Depth'] = unsaved
        /\ \A i \in 1..(Depth' - 1) : mementos'[i] = mementos[i + o]
    BY <1>4, <2>2 DEF o
  <2>5. /\ prelayers'[Depth'] = blank
        /\ \A i \in 1..(Depth' - 1) : prelayers'[i] = prelayers[i + o]
    BY <1>5, <2>2 DEF o
  <2> QED BY <2>1, <2>3, <2>4, <2>5
<1>8. Was(u, Depth)' = Now(u) /\ \A i : i = Depth' => Was(u, i)' = Now(u)
  <2>1. starts'[Depth'] = [world |-> <<queue, state, cleanup, comp>>, open |-> open]
    BY <1>6 DEF Depth, now, world
  <2>2. /\ starts'[Depth'].world[1] = queue /\ starts'[Depth'].world[2] = state
        /\ starts'[Depth'].world[3] = cleanup /\ starts'[Depth'].world[4] = comp
        /\ starts'[Depth'].open = open
    BY <2>1
  <2> QED BY <2>2 DEF Was, Now
<1>9. \A i \in 1..(Depth' - 1) : Was(u, i)' = Was(u, i + o)
  BY <1>6, <1>7 DEF Was, Depth
<1>10. Steady(Now(u)) /\ Kinded(Now(u)) /\ (Depth > 0 => Undoes(Was(u, Depth), mementos[Depth][u], prelayers[Depth][u], Now(u)))
  BY <1>1, <1>3 DEF Present
<1>11. Present(u)'
  <2>1. Now(u)' = Now(u)
    BY <1>3 DEF Now
  <2>2. Acting(Now(u), None, NoSteps, Now(u))
    BY <1>10 DEF Acting, Untouched, Steady
  <2> QED BY <1>3, <1>7, <1>8, <1>10, <2>1, <2>2 DEF Present
<1>12. ASSUME NEW i \in 1..Depth' PROVE Steady(Was(u, i)')
  <2>1. CASE i = Depth'
    BY <1>8, <1>10, <2>1
  <2>2. CASE i # Depth'
    <3>1. i \in 1..(Depth' - 1) /\ i + o \in 1..Depth
      BY <1>1, <1>7, <2>2
    <3> QED BY <1>1, <1>9, <3>1 DEF Past
  <2> QED BY <2>1, <2>2
<1>13. ASSUME NEW i \in 1..(Depth' - 1)
       PROVE  Undoes(Was(u, i)', mementos'[i][u], prelayers'[i][u], Was(u, i + 1)')
  <2>1. /\ Was(u, i)' = Was(u, i + o) /\ mementos'[i][u] = mementos[i + o][u]
        /\ prelayers'[i][u] = prelayers[i + o][u]
    BY <1>7, <1>9
  <2>2. CASE i = Depth' - 1
    <3>1. i + o = Depth /\ Depth > 0 /\ i + 1 = Depth'
      BY <1>1, <1>7, <2>2
    <3> QED BY <1>8, <1>10, <2>1, <3>1
  <2>3. CASE i # Depth' - 1
    <3>1. i + 1 \in 1..(Depth' - 1) /\ i + o \in 1..(Depth - 1) /\ i + 1 + o = i + o + 1
      BY <1>1, <1>7, <2>3
    <3>2. Was(u, i + 1)' = Was(u, i + o + 1)
      BY <1>9, <3>1
    <3>3. Undoes(Was(u, i + o), mementos[i + o][u], prelayers[i + o][u], Was(u, i + o + 1))
      BY <1>1, <3>1 DEF Past
    <3> QED BY <2>1, <3>2, <3>3
  <2> QED BY <2>2, <2>3
<1> QED BY <1>11, <1>12, <1>13 DEF Past

(* What is last of a frame that is being played. *)
LEMMA InFrame ==
  ASSUME QueueInv, pc # "idle", NEW u \in Units
  PROVE  /\ Shape /\ Past(u) /\ Present(u)
         /\ Depth \in Nat /\ Depth > 0 /\ Len(mementos) = Depth /\ Len(prelayers) = Depth
         /\ Steady(Was(u, Depth)) /\ Now(u) \in UnitType /\ Was(u, Depth) \in UnitType
         /\ mementos[Depth][u] \in SavedType /\ prelayers[Depth][u] \in StepsType
<1>1. Shape /\ Past(u) /\ Present(u) /\ Depth \in Nat /\ Depth > 0
      /\ Len(mementos) = Depth /\ Len(prelayers) = Depth
  BY DEF QueueInv, Shape, Depth
<1>2. Depth \in 1..Depth
  BY <1>1
<1> QED BY <1>1, <1>2, UnitTypes DEF Past

(* PrepingUpdatePhase: the queued actions. *)
LEMMA InvHandleAction ==
  ASSUME QueueInv, NEW v \in Units, HandleAction(v), NEW u \in Units
  PROVE  Past(u)' /\ Present(u)'
<1>1. pc = "actions"
  BY DEF HandleAction
<1>2. /\ Shape /\ Past(u) /\ Present(u) /\ Depth \in Nat /\ Depth > 0 /\ Len(mementos) = Depth
      /\ mementos[Depth][u] \in SavedType /\ Now(u) \in UnitType
  BY <1>1, InFrame
<1>3. /\ UNCHANGED <<starts, prelayers, pc, state, cleanup, comp, open>> /\ Depth' = Depth
      /\ Was(u, Depth)' = Was(u, Depth)
  BY DEF HandleAction, Depth, Was
<1>4. /\ \A i \in 1..(Depth - 1) : mementos'[i][u] = mementos[i][u]
      /\ mementos'[Depth][u] = IF u = v /\ mementos[Depth][u] = None THEN queue[u] ELSE mementos[Depth][u]
  <2>1. mementos \in Seq([Units -> SavedType]) /\ Len(mementos) = Depth
        /\ mementos[Depth] \in [Units -> SavedType]
    BY <1>2 DEF Shape
  <2>2. mementos' = IF mementos[Depth][v] = None
                    THEN [mementos EXCEPT ![Depth][v] = queue[v]] ELSE mementos
    BY <1>2 DEF HandleAction, SetLast
  <2> QED BY <1>2, <2>1, <2>2
<1>5. Past(u)'
  BY <1>2, <1>3, <1>4, PastKept
<1>6. queue'[u].current = queue[u].current /\ (u # v => queue'[u] = queue[u])
  <2>1. queue[v] \in QueueType /\ queue[v].actions # << >>
    BY <1>2 DEF Shape, HandleAction
  <2>2. [Handled(queue[v], Head(queue[v].actions)) EXCEPT !.actions = Tail(queue[v].actions)].current
          = queue[v].current
    BY <2>1, ActionsHandled
  <2> QED BY <1>2, <2>2 DEF HandleAction, Shape
<1>7. Acting(Was(u, Depth), mementos[Depth][u], prelayers[Depth][u], Now(u)) /\ Kinded(Now(u))
  BY <1>1, <1>2 DEF Present
<1>8. Acting(Was(u, Depth), mementos'[Depth][u], prelayers[Depth][u], Now(u)')
  <2>1. /\ Now(u)'.queue.current = Now(u).queue.current /\ Now(u)'.state = Now(u).state
        /\ Now(u)'.comp = Now(u).comp /\ Now(u)'.cleanup = Now(u).cleanup
        /\ Now(u)'.open = Now(u).open /\ Now(u).queue = queue[u] /\ Now(u)'.queue = queue'[u]
    BY <1>3, <1>6 DEF Now
  <2>2. queue[u] # None
    BY <1>2, ConstantsAssumption DEF Shape, ConstantsAssumption
  <2>3. IF mementos'[Depth][u] # None THEN mementos'[Depth][u] = Was(u, Depth).queue
        ELSE Was(u, Depth).queue = queue'[u]
    BY <1>4, <1>6, <1>7, <2>1, <2>2 DEF Acting
  <2> QED BY <1>7, <2>1, <2>3 DEF Acting, Untouched, Shows, Closed
<1>9. Kinded(Now(u)')
  BY <1>3, <1>7 DEF Kinded, Now
<1> QED BY <1>1, <1>3, <1>5, <1>8, <1>9 DEF Present

(* PrepingUpdatePhase: clean_up_current. *)
LEMMA InvCleanUpCurrent ==
  ASSUME QueueInv, CleanUpCurrent, NEW u \in Units
  PROVE  Past(u)' /\ Present(u)'
<1>1. pc = "actions" /\ pc' = "cleanup" /\ queue[u].actions = << >>
  BY DEF CleanUpCurrent
<1>2. /\ Shape /\ Past(u) /\ Present(u) /\ Depth \in Nat /\ Depth > 0
      /\ Len(prelayers) = Depth /\ prelayers[Depth][u] \in StepsType
      /\ Steady(Was(u, Depth)) /\ Now(u) \in UnitType /\ queue[u] \in QueueType
  BY <1>1, InFrame DEF Shape
<1>3. /\ UNCHANGED <<starts, mementos, state, comp, open>> /\ Depth' = Depth
      /\ Was(u, Depth)' = Was(u, Depth)
  BY DEF CleanUpCurrent, Depth, Was
<1>4. /\ \A i \in 1..(Depth - 1) : prelayers'[i][u] = prelayers[i][u]
      /\ prelayers'[Depth][u] = IF Ends(u) THEN [prelayers[Depth][u] EXCEPT !.remove = KindOf[queue[u].current]]
                                ELSE prelayers[Depth][u]
  <2> DEFINE ends == [w \in Units |-> IF Ends(w) THEN [prelayers[Depth][w] EXCEPT !.remove = KindOf[queue[w].current]]
                                      ELSE prelayers[Depth][w]]
  <2>1. prelayers' = [prelayers EXCEPT ![Depth] = ends]
    BY <1>2 DEF CleanUpCurrent
  <2>2. prelayers \in Seq([Units -> StepsType])
    BY <1>2 DEF Shape
  <2>3. \A i \in 1..(Depth - 1) : prelayers'[i] = prelayers[i]
    <3> HIDE DEF ends
    <3> QED BY <1>2, <2>1, <2>2
  <2>4. prelayers'[Depth] = ends
    <3> HIDE DEF ends
    <3> QED BY <1>2, <2>1, <2>2
  <2> QED BY <2>3, <2>4
<1>5. Past(u)'
  BY <1>2, <1>3, <1>4, PastKept
<1>6. /\ queue'[u] = [queue[u] EXCEPT !.current = IF Ends(u) THEN NoOp ELSE @, !.done = FALSE]
      /\ cleanup'[u] = IF Ends(u) THEN KindOf[queue[u].current] ELSE cleanup[u]
  BY DEF CleanUpCurrent
<1>7. /\ Untouched(Was(u, Depth), Now(u)) /\ Shows(Now(u)) /\ Closed(Now(u))
      /\ prelayers[Depth][u] = NoSteps /\ Kinded(Now(u))
      /\ IF mementos[Depth][u] # None THEN mementos[Depth][u] = Was(u, Depth).queue
                                      ELSE Was(u, Depth).queue = queue[u]
  BY <1>1, <1>2 DEF Present, Acting, Now
<1>8. /\ Now(u)'.queue = queue'[u] /\ Now(u)'.state = state[u] /\ Now(u)'.comp = comp[u]
      /\ Now(u)'.cleanup = cleanup'[u] /\ Now(u)'.open = open[u]
      /\ Now(u).queue = queue[u] /\ Now(u).state = state[u] /\ Now(u).comp = comp[u]
      /\ Now(u).cleanup = cleanup[u] /\ Now(u).open = open[u]
  BY <1>3 DEF Now
<1>9. Remembers(mementos[Depth][u], Was(u, Depth), Now(u)')
  <2>1. mementos[Depth][u] = None => ~ queue[u].done
    BY <1>2, <1>7 DEF Steady, Settled
  <2>2. mementos[Depth][u] = None => [queue'[u] EXCEPT !.actions = << >>] = queue[u]
    <3> SUFFICES ASSUME ~ queue[u].done PROVE [queue'[u] EXCEPT !.actions = << >>] = queue[u]
      BY <2>1
    <3>1. queue'[u] = [queue[u] EXCEPT !.current = @, !.done = FALSE]
      BY <1>6 DEF Ends
    <3> QED BY <1>1, <1>2, <3>1 DEF QueueType
  <2> QED BY <1>7, <1>8, <2>2 DEF Remembers
<1>10. ~ queue'[u].done /\ queue'[u].current = IF Ends(u) THEN NoOp ELSE queue[u].current
  BY <1>2, <1>6 DEF QueueType
<1>11. CASE ~ Ends(u)
  <2>1. /\ prelayers'[Depth][u] = NoSteps /\ queue'[u].current = queue[u].current /\ cleanup'[u] = None
    BY <1>4, <1>6, <1>7, <1>8, <1>10, <1>11 DEF Closed
  <2>2. /\ prelayers'[Depth][u].remove = None /\ prelayers'[Depth][u].add = None
        /\ prelayers'[Depth][u].new = None
    BY <2>1 DEF NoSteps
  <2>3. open[u] = queue'[u].current
    BY <1>7, <1>8, <2>1 DEF Closed
  <2>4. Shows(Now(u)')
    BY <1>7, <1>8, <2>1 DEF Shows
  <2>5. Untouched(Was(u, Depth), Now(u)') /\ Kinded(Now(u)')
    BY <1>7, <1>8 DEF Untouched, Kinded
  <2>6. Ending(Was(u, Depth), mementos[Depth][u], prelayers'[Depth][u], Now(u)')
    BY <1>8, <1>9, <1>10, <2>1, <2>2, <2>4, <2>5 DEF Ending
  <2>7. /\ Ending(Was(u, Depth)', mementos'[Depth'][u], prelayers'[Depth'][u], Now(u)')
        /\ Now(u)'.cleanup = None /\ Now(u)'.open = Now(u)'.queue.current
    BY <1>3, <1>8, <2>1, <2>3, <2>6
  <2> QED BY <1>1, <1>5, <2>5, <2>7 DEF Present
<1>12. CASE Ends(u)
  <2> DEFINE k == KindOf[queue[u].current]
  <2>1. k \in Kinds /\ queue[u].current # NoOp /\ comp[u][k] = queue[u].current /\ comp[u][k] # None /\ k # None
        /\ AsKind(state[u]) = k /\ open[u] = queue[u].current
    BY <1>2, <1>7, <1>8, <1>12, KindTypes, ConstantsAssumption
       DEF Ends, Shows, Closed, QueueType, ConstantsAssumption
  <2>2. /\ prelayers'[Depth][u].remove = k /\ prelayers'[Depth][u].add = None
        /\ prelayers'[Depth][u].new = None
    BY <1>4, <1>7, <1>12 DEF NoSteps
  <2>3. queue'[u].current = NoOp /\ cleanup'[u] = k
    BY <1>6, <1>10, <1>12
  <2> QED BY <1>1, <1>3, <1>5, <1>7, <1>8, <1>9, <1>10, <2>1, <2>2, <2>3
          DEF Present, Ending, NotCleanedUp, Untouched, Kinded
<1> QED BY <1>11, <1>12

(* CleanUpPhase. *)
LEMMA InvCleanUp ==
  ASSUME QueueInv, CleanUp, NEW u \in Units
  PROVE  Past(u)' /\ Present(u)'
<1>1. /\ pc = "cleanup" /\ pc' = "postcleanup"
      /\ UNCHANGED <<queue, state, cleanup, comp, mementos, prelayers, starts>>
      /\ Depth' = Depth /\ Was(u, Depth)' = Was(u, Depth)
      /\ open'[u] = IF cleanup[u] # None /\ KindOf[open[u]] = cleanup[u] /\ comp[u][cleanup[u]] # None
                    THEN NoOp ELSE open[u]
  BY DEF CleanUp, Depth, Was
<1>2. Shape /\ Past(u) /\ Present(u)
  BY <1>1, InFrame
<1>3. Past(u)'
  BY <1>1, <1>2, PastKept
<1>4. /\ Now(u)'.queue = Now(u).queue /\ Now(u)'.state = Now(u).state /\ Now(u)'.comp = Now(u).comp
      /\ Now(u)'.cleanup = Now(u).cleanup /\ Now(u)'.open = open'[u]
      /\ Now(u).open = open[u] /\ Now(u).cleanup = cleanup[u] /\ Now(u).comp = comp[u]
  BY <1>1 DEF Now
<1>5. Ending(Was(u, Depth), mementos[Depth][u], prelayers[Depth][u], Now(u)) /\ Kinded(Now(u))
  BY <1>1, <1>2 DEF Present
<1>6. Ending(Was(u, Depth), mementos[Depth][u], prelayers[Depth][u], Now(u)') /\ Kinded(Now(u)')
  BY <1>4, <1>5 DEF Ending, Untouched, Remembers, Shows, Kinded
<1>7. Now(u)'.open = Now(u)'.queue.current
  <2>1. IF cleanup[u] = None THEN open[u] = Now(u).queue.current ELSE NotCleanedUp(Now(u))
    BY <1>1, <1>2, <1>4 DEF Present
  <2>2. cleanup[u] # None => Now(u).queue.current = NoOp
    BY <1>4, <1>5 DEF Ending
  <2> QED BY <1>1, <1>4, <2>1, <2>2 DEF NotCleanedUp
<1> QED BY <1>1, <1>3, <1>6, <1>7 DEF Present

(* PostCleanUpPhase: update_current and update_comp. *)
LEMMA InvUpdateCurrent ==
  ASSUME QueueInv, UpdateCurrent, NEW u \in Units
  PROVE  Past(u)' /\ Present(u)'
<1> DEFINE was == Was(u, Depth)
           saved == mementos[Depth][u]
           s == prelayers[Depth][u]
           next == prelayers'[Depth][u]
           c == Head(queue[u].queued)
<1>1. pc = "postcleanup" /\ pc' = "preupdate" /\ cleanup'[u] = None
  BY DEF UpdateCurrent
<1>2. /\ Shape /\ Past(u) /\ Present(u) /\ Depth \in Nat /\ Depth > 0
      /\ Len(prelayers) = Depth /\ s \in StepsType /\ Steady(was) /\ queue[u] \in QueueType
  BY <1>1, InFrame DEF Shape
<1>3. /\ UNCHANGED <<starts, mementos, state, comp>> /\ Depth' = Depth /\ Was(u, Depth)' = was
  BY DEF UpdateCurrent, Depth, Was
<1>4. /\ \A i \in 1..(Depth - 1) : prelayers'[i][u] = prelayers[i][u]
      /\ next = IF queue[u].current # NoOp THEN s
                ELSE IF queue[u].queued = << >> THEN [s EXCEPT !.add = NoOp]
                ELSE [s EXCEPT !.add = KindOf[c], !.new = c,
                               !.old = IF comp[u][KindOf[c]] = None THEN NoOp ELSE comp[u][KindOf[c]]]
  <2> DEFINE adds == [w \in Units |->
               IF queue[w].current # NoOp THEN prelayers[Depth][w]
               ELSE IF queue[w].queued = << >> THEN [prelayers[Depth][w] EXCEPT !.add = NoOp]
               ELSE LET b == Head(queue[w].queued)
                        before == comp[w][KindOf[b]]
                    IN [prelayers[Depth][w] EXCEPT !.add = KindOf[b], !.new = b,
                                                   !.old = IF before = None THEN NoOp ELSE before]]
  <2>1. prelayers' = [prelayers EXCEPT ![Depth] = adds]
    BY <1>2 DEF UpdateCurrent
  <2>2. prelayers \in Seq([Units -> StepsType])
    BY <1>2 DEF Shape
  <2>3. (\A i \in 1..(Depth - 1) : prelayers'[i] = prelayers[i]) /\ prelayers'[Depth] = adds
    <3> HIDE DEF adds
    <3> QED BY <1>2, <2>1, <2>2
  <2> QED BY <2>3
<1>5. Past(u)'
  BY <1>2, <1>3, <1>4, PastKept
<1>6. /\ queue'[u] = IF Starts(u) THEN [queue[u] EXCEPT !.current = c, !.queued = Tail(@)] ELSE queue[u]
      /\ open'[u] = IF Starts(u) /\ open[u] = NoOp THEN c ELSE open[u]
  BY DEF UpdateCurrent
<1>7. /\ Now(u)'.queue = queue'[u] /\ Now(u)'.state = state[u] /\ Now(u)'.comp = comp[u]
      /\ Now(u)'.cleanup = None /\ Now(u)'.open = open'[u]
      /\ Now(u).queue = queue[u] /\ Now(u).state = state[u] /\ Now(u).comp = comp[u]
      /\ Now(u).cleanup = cleanup[u] /\ Now(u).open = open[u]
  BY <1>1, <1>3 DEF Now
<1>8. Ending(was, saved, s, Now(u)) /\ Kinded(Now(u)) /\ open[u] = queue[u].current
  BY <1>1, <1>2, <1>7 DEF Present
<1>9. /\ Untouched(was, Now(u)') /\ Kinded(Now(u)') /\ ~ queue[u].done
      /\ s.add = None /\ s.new = None
      /\ s.remove = None => AsKind(state[u]) = KindOf[queue[u].current] /\ Shows(Now(u))
      /\ s.remove # None => queue[u].current = NoOp /\ AsKind(state[u]) = s.remove
  BY <1>7, <1>8 DEF Ending, Untouched, Kinded, Shows
<1> HIDE DEF next
<1>10. CASE queue[u].current # NoOp
  <2>1. next = s /\ queue'[u] = queue[u] /\ open'[u] = queue[u].current
    BY <1>4, <1>6, <1>8, <1>10 DEF Starts
  <2>2. Shows(Now(u)') /\ s.remove = None
    BY <1>7, <1>9, <1>10, <2>1 DEF Shows
  <2>3. Remembers(saved, was, Now(u)')
    BY <1>7, <1>8, <2>1 DEF Ending, Remembers
  <2>4. Settled(queue'[u])
    BY <1>9, <1>10, <2>1 DEF Settled
  <2> QED BY <1>7, <1>9, <2>1, <2>2, <2>3, <2>4, <1>1, <1>3, <1>5 DEF Beginning, Closed, Present, next
<1>11. CASE queue[u].current = NoOp /\ queue[u].queued = << >>
  <2>1. next = [s EXCEPT !.add = NoOp] /\ queue'[u] = queue[u] /\ open'[u] = NoOp
    BY <1>4, <1>6, <1>8, <1>11 DEF Starts
  <2>2. next.add = NoOp /\ next.new = None /\ next.remove = s.remove /\ KindOf[NoOp] = NoOp /\ NoOp # None
    BY <1>2, <1>9, <2>1, KindTypes, ConstantsAssumption DEF StepsType, ConstantsAssumption, Variant
  <2>3. AsKind(state[u]) = IF next.remove = None THEN NoOp ELSE next.remove
    BY <1>9, <1>11, <2>2
  <2>4. Remembers(saved, was, Now(u)')
    BY <1>7, <1>8, <2>1 DEF Ending, Remembers
  <2>5. Settled(queue'[u])
    BY <1>9, <1>11, <2>1 DEF Settled
  <2>6. Beginning(was, saved, next, Now(u)')
    BY <1>7, <1>9, <1>11, <2>1, <2>2, <2>3, <2>4, <2>5 DEF Beginning, Closed
  <2> QED BY <1>1, <1>3, <1>5, <1>9, <2>6 DEF Present, next
<1>12. CASE Starts(u)
  <2>1. c \in Commands /\ Tail(queue[u].queued) \in Seq(Commands) /\ queue[u].current = NoOp
    BY <1>2, <1>12 DEF Starts, QueueType
  <2>2. c # NoOp /\ c # None /\ KindOf[c] \in Kinds /\ KindOf[c] # None
    BY <2>1, KindTypes, ConstantsAssumption DEF ConstantsAssumption, Variant
  <2> HIDE DEF c
  <2>3. queue'[u].current = c /\ queue'[u].done = queue[u].done /\ open'[u] = c
    BY <1>2, <1>6, <1>8, <1>12, <2>1 DEF QueueType
  <2>4. /\ next.add = KindOf[c] /\ next.new = c /\ next.remove = s.remove
        /\ next.old = IF comp[u][KindOf[c]] = None THEN NoOp ELSE comp[u][KindOf[c]]
    BY <1>2, <1>4, <1>12 DEF StepsType, Starts
  <2>5. saved = was.queue /\ saved # None
    <3>1. was.queue # [queue[u] EXCEPT !.actions = << >>]
      <4>1. ([queue[u] EXCEPT !.actions = << >>]).current = NoOp
            /\ ([queue[u] EXCEPT !.actions = << >>]).queued # << >>
        BY <1>2, <1>12 DEF Starts, QueueType
      <4> QED BY <1>2, <4>1 DEF Steady, Settled
    <3> QED BY <1>7, <1>8, <3>1 DEF Ending, Remembers
  <2>6. AsKind(state[u]) = IF next.remove = None THEN NoOp ELSE next.remove
    BY <1>9, <2>1, <2>4, KindTypes
  <2>7. Beginning(was, saved, next, Now(u)')
    <3>1. Remembers(saved, was, Now(u)')
      BY <2>5 DEF Remembers
    <3>2. Settled(queue'[u])
      BY <1>9, <2>2, <2>3 DEF Settled
    <3> QED BY <1>7, <1>9, <2>2, <2>3, <2>4, <2>6, <3>1, <3>2 DEF Beginning, Closed
  <2> QED BY <1>1, <1>3, <1>5, <1>9, <2>7 DEF Present, next
<1> QED BY <1>10, <1>11, <1>12 DEF Starts

(* PreUpdatePhase: StateStepLayer::apply. *)
LEMMA InvApplyPrelayer ==
  ASSUME QueueInv, ApplyPrelayer, Shape', NEW u \in Units
  PROVE  Past(u)' /\ Present(u)'
<1> DEFINE s == prelayers[Depth][u]
<1>1. /\ pc = "preupdate" /\ pc' = "update"
      /\ UNCHANGED <<queue, cleanup, mementos, prelayers, open, starts>>
      /\ Depth' = Depth /\ Was(u, Depth)' = Was(u, Depth)
  BY DEF ApplyPrelayer, Depth, Was
<1>2. /\ Shape /\ Past(u) /\ Present(u) /\ Len(prelayers) = Depth
      /\ Now(u) \in UnitType /\ Was(u, Depth) \in UnitType
      /\ mementos[Depth][u] \in SavedType /\ s \in StepsType
  BY <1>1, InFrame
<1>3. Past(u)'
  BY <1>1, <1>2, PastKept
<1>4. Now(u)' \in UnitType
  BY DEF Shape, Now, UnitType
<1>5. Beginning(Was(u, Depth), mementos[Depth][u], s, Now(u)) /\ Kinded(Now(u))
  BY <1>1, <1>2 DEF Present
<1>6. /\ Now(u)'.queue = Now(u).queue /\ Now(u)'.cleanup = Now(u).cleanup /\ Now(u)'.open = Now(u).open
      /\ Now(u)'.state = IF s.add # None THEN s.add ELSE IF s.remove # None THEN NoOp ELSE Now(u).state
      /\ Now(u)'.comp = IF s.new # None THEN [Now(u).comp EXCEPT ![KindOf[s.new]] = s.new] ELSE Now(u).comp
  BY <1>1, <1>2 DEF Now, ApplyPrelayer
<1> HIDE DEF s
<1>7. Steady(Now(u)') /\ Kinded(Now(u)') /\ Undoes(Was(u, Depth), mementos[Depth][u], s, Now(u)')
  BY <1>2, <1>4, <1>5, <1>6, ApplySteps
<1> QED BY <1>1, <1>3, <1>7 DEF Present, s

(* PostUpdatePhase and InputPhase: actions are queued on one unit. *)
LEMMA InvQueue ==
  ASSUME QueueInv, NEW v \in Units, Finish(v) \/ AutoOrder(v) \/ Order(v), NEW u \in Units
  PROVE  Past(u)' /\ Present(u)'
<1>1. /\ pc \in {"update", "input"} /\ pc' = pc /\ Depth' = Depth /\ Was(u, Depth)' = Was(u, Depth)
      /\ UNCHANGED <<state, cleanup, comp, mementos, prelayers, open, starts>>
  BY ActsQueued DEF Depth, Was
<1>2. Shape /\ Past(u) /\ Present(u) /\ Depth > 0
  BY <1>1, InFrame
<1>3. Past(u)'
  BY <1>1, <1>2, PastKept
<1>4. PICK acts \in Seq(QueueAction) : Queue(v, acts)
  BY ActsQueued
<1>5. /\ queue'[u].current = queue[u].current /\ queue'[u].queued = queue[u].queued
      /\ queue'[u].done = queue[u].done
      /\ [queue'[u] EXCEPT !.actions = << >>] = [queue[u] EXCEPT !.actions = << >>]
  <2>1. queue[v] \in QueueType
    BY <1>2 DEF Shape
  <2>2. queue'[u] = IF u = v THEN [queue[v] EXCEPT !.actions = @ \o acts] ELSE queue[u]
    <3>1. queue \in [Units -> QueueType] /\ v \in Units /\ u \in Units
      BY <1>2 DEF Shape
    <3>2. queue' = [queue EXCEPT ![v] = [queue[v] EXCEPT !.actions = @ \o acts]]
      BY <1>4, <3>1 DEF Queue
    <3> HIDE DEF QueueType
    <3> QED BY <3>1, <3>2
  <2>3. /\ queue'[v].current = queue[v].current /\ queue'[v].queued = queue[v].queued
        /\ queue'[v].done = queue[v].done
        /\ [queue'[v] EXCEPT !.actions = << >>] = [queue[v] EXCEPT !.actions = << >>]
    <3> DEFINE more == [queue[v] EXCEPT !.actions = @ \o acts]
    <3>1. /\ more.current = queue[v].current /\ more.queued = queue[v].queued
          /\ more.done = queue[v].done
          /\ [more EXCEPT !.actions = << >>] = [queue[v] EXCEPT !.actions = << >>]
      BY <2>1, ActionsQueued
    <3>2. queue'[v] = more
      <4>1. v \in DOMAIN queue
        BY <1>2 DEF Shape
      <4> QED BY <1>4, <4>1 DEF Queue
    <3> HIDE DEF more
    <3> QED BY <3>1, <3>2
  <2> QED BY <2>2, <2>3
<1>6. /\ Now(u)'.queue = queue'[u] /\ Now(u).queue = queue[u]
      /\ Now(u)'.state = Now(u).state /\ Now(u)'.comp = Now(u).comp
      /\ Now(u)'.cleanup = Now(u).cleanup /\ Now(u)'.open = Now(u).open
  BY <1>1 DEF Now
<1>7. /\ Steady(Now(u)) /\ Kinded(Now(u))
      /\ Undoes(Was(u, Depth), mementos[Depth][u], prelayers[Depth][u], Now(u))
  BY <1>1, <1>2 DEF Present
<1>8. Steady(Now(u)') /\ Kinded(Now(u)')
  BY <1>5, <1>6, <1>7 DEF Steady, Shows, Settled, Closed, Kinded
<1>9. Undoes(Was(u, Depth), mementos[Depth][u], prelayers[Depth][u], Now(u)')
  BY <1>5, <1>6, <1>7 DEF Undoes, Remembers
<1> QED BY <1>1, <1>3, <1>8, <1>9 DEF Present

(* The phases that pass, and the steps that change nothing. *)
LEMMA InvPhase ==
  ASSUME QueueInv, EndUpdate \/ EndFrame \/ UNCHANGED vars, NEW u \in Units
  PROVE  Past(u)' /\ Present(u)'
<1>1. /\ UNCHANGED <<queue, state, cleanup, comp, mementos, prelayers, open, starts>>
      /\ Depth' = Depth /\ Was(u, Depth)' = Was(u, Depth) /\ Now(u)' = Now(u)
      /\ pc' = pc \/ {pc, pc'} \subseteq {"idle", "update", "input"}
  BY DEF EndUpdate, EndFrame, vars, Depth, Was, Now
<1>2. Shape /\ Past(u) /\ Present(u)
  BY DEF QueueInv
<1>3. Past(u)'
  BY <1>1, <1>2, PastKept
<1>4. Present(u)'
  BY <1>1, <1>2 DEF Present
<1> QED BY <1>3, <1>4

(* revert_n_steps(1): what a rewind makes of a unit is what it was when the *)
(* frame began, but for components that were not there.                     *)
LEMMA Rewound ==
  ASSUME QueueInv, Shape', Rewind, NEW u \in Units
  PROVE  /\ Depth > 0 /\ Like(Now(u)', Was(u, Depth)) /\ Kinded(Now(u)')
         /\ Steady(Was(u, Depth)) /\ Was(u, Depth) \in UnitType /\ Now(u)' \in UnitType
<1> DEFINE saved == mementos[Depth][u]
           s == prelayers[Depth][u]
           was == Was(u, Depth)
<1>1. /\ Shape /\ Past(u) /\ Present(u) /\ pc = "idle" /\ Depth \in Nat /\ Depth > 0
      /\ Len(mementos) = Depth /\ Len(prelayers) = Depth
  BY DEF QueueInv, Rewind, Shape, Depth
<1>2. Depth \in 1..Depth
  BY <1>1
<1>3. Now(u) \in UnitType /\ was \in UnitType /\ saved \in SavedType /\ s \in StepsType
  BY <1>1, <1>2, UnitTypes
<1>4. Now(u)' \in UnitType
  BY DEF Shape, Now, UnitType
<1>5. Steady(was)
  BY <1>1, <1>2 DEF Past
<1>6. Steady(Now(u)) /\ Kinded(Now(u)) /\ Undoes(was, saved, s, Now(u))
  BY <1>1 DEF Present
<1>7. /\ Now(u)'.queue = IF saved = None THEN [Now(u).queue EXCEPT !.actions = << >>] ELSE saved
      /\ Now(u)'.state = IF s.remove # None THEN s.remove
                         ELSE IF s.add # None THEN NoOp ELSE Now(u).state
      /\ Now(u)'.comp = IF s.new = None THEN Now(u).comp
                        ELSE [Now(u).comp EXCEPT ![KindOf[s.old]] = s.old]
  BY <1>1 DEF Rewind, Restored, RevertedState, RevertedComp, Now
<1>8. Now(u)'.cleanup = None /\ Now(u)'.open = was.open
  BY <1>6 DEF Rewind, Now, Was, Steady, Closed, Depth
<1> HIDE DEF saved, s, was
<1>9. Like(Now(u)', was) /\ Kinded(Now(u)')
  BY <1>3, <1>4, <1>5, <1>6, <1>7, <1>8, UndoFrame
<1> QED BY <1>1, <1>3, <1>4, <1>5, <1>9 DEF was

LEMMA InvRewind ==
  ASSUME QueueInv, Shape', Rewind, NEW u \in Units
  PROVE  Past(u)' /\ Present(u)'
<1>1. /\ Shape /\ Past(u) /\ pc = "idle" /\ pc' = "idle" /\ Depth \in Nat /\ Depth > 0
      /\ Like(Now(u)', Was(u, Depth)) /\ Kinded(Now(u)')
      /\ Steady(Was(u, Depth)) /\ Was(u, Depth) \in UnitType /\ Now(u)' \in UnitType
  BY Rewound DEF QueueInv, Rewind, Shape, Depth
<1>2. Steady(Now(u)')
  BY <1>1, LikeSteady
<1>3. /\ Depth' = Depth - 1
      /\ \A i \in 1..(Depth - 1) : /\ starts'[i] = starts[i] /\ mementos'[i] = mementos[i]
                                   /\ prelayers'[i] = prelayers[i]
  <2>1. /\ Len(starts) = Depth /\ Len(mementos) = Depth /\ Len(prelayers) = Depth
        /\ starts # << >> /\ mementos # << >> /\ prelayers # << >>
        /\ starts \in Seq(StartType) /\ mementos \in Seq([Units -> SavedType])
        /\ prelayers \in Seq([Units -> StepsType])
    BY <1>1 DEF Shape, Depth
  <2>2. Depth' = Depth - 1 /\ \A i \in 1..(Depth - 1) : starts'[i] = starts[i]
    BY <2>1, Popped DEF Rewind, Depth
  <2>3. \A i \in 1..(Depth - 1) : mementos'[i] = mementos[i]
    <3> DEFINE S == [Units -> SavedType]
    <3>1. mementos \in Seq(S)
      BY <2>1
    <3> HIDE DEF S
    <3> QED BY <2>1, <3>1, Popped DEF Rewind
  <2>4. \A i \in 1..(Depth - 1) : prelayers'[i] = prelayers[i]
    <3> DEFINE S == [Units -> StepsType]
    <3>1. prelayers \in Seq(S)
      BY <2>1
    <3> HIDE DEF S
    <3> QED BY <2>1, <3>1, Popped DEF Rewind
  <2> QED BY <2>2, <2>3, <2>4
<1>4. \A i \in 1..(Depth - 1) : Was(u, i)' = Was(u, i)
  BY <1>3 DEF Was
<1>5. ASSUME NEW i \in 1..Depth' PROVE Steady(Was(u, i)')
  <2>1. i \in 1..(Depth - 1) /\ i \in 1..Depth
    BY <1>1, <1>3
  <2> QED BY <1>1, <1>4, <2>1 DEF Past
<1>6. ASSUME NEW i \in 1..(Depth' - 1)
      PROVE  Undoes(Was(u, i)', mementos'[i][u], prelayers'[i][u], Was(u, i + 1)')
  <2>1. i \in 1..(Depth - 1) /\ i + 1 \in 1..(Depth - 1)
    BY <1>1, <1>3
  <2>2. Undoes(Was(u, i), mementos[i][u], prelayers[i][u], Was(u, i + 1))
    BY <1>1, <2>1 DEF Past
  <2> QED BY <1>3, <1>4, <2>1, <2>2
<1>7. Depth' > 0 => Undoes(Was(u, Depth)', mementos'[Depth'][u], prelayers'[Depth'][u], Now(u)')
  <2> SUFFICES ASSUME Depth' > 0
               PROVE  Undoes(Was(u, Depth)', mementos'[Depth'][u], prelayers'[Depth'][u], Now(u)')
    OBVIOUS
  <2> DEFINE j == Depth - 1
  <2>1. j \in 1..(Depth - 1) /\ j + 1 = Depth /\ Depth' = j
    BY <1>1, <1>3
  <2>2. Was(u, Depth)' = Was(u, j)
    BY <1>3, <2>1 DEF Was
  <2> HIDE DEF j
  <2>3. Undoes(Was(u, j), mementos[j][u], prelayers[j][u], Was(u, j + 1))
    BY <1>1, <2>1 DEF Past
  <2>4. Undoes(Was(u, j), mementos[j][u], prelayers[j][u], Now(u)')
    BY <1>1, <2>1, <2>3, LikeUndone
  <2> QED BY <1>3, <2>1, <2>2, <2>4
<1>8. Past(u)'
  BY <1>5, <1>6 DEF Past
<1>9. Present(u)'
  BY <1>1, <1>2, <1>7 DEF Present
<1> QED BY <1>8, <1>9

LEMMA QueueInvNext == QueueInv /\ [Next]_vars => QueueInv'
<1> SUFFICES ASSUME QueueInv, [Next]_vars PROVE QueueInv'
  OBVIOUS
<1>1. Shape'
  BY ShapeNext DEF QueueInv
<1>2. ASSUME NEW u \in Units PROVE Past(u)' /\ Present(u)'
  <2>1. CASE BeginFrame
    BY <1>1, <2>1, InvBeginFrame
  <2>2. ASSUME NEW v \in Units, HandleAction(v) PROVE Past(u)' /\ Present(u)'
    BY <2>2, InvHandleAction
  <2>3. CASE CleanUpCurrent
    BY <2>3, InvCleanUpCurrent
  <2>4. CASE CleanUp
    BY <2>4, InvCleanUp
  <2>5. CASE UpdateCurrent
    BY <2>5, InvUpdateCurrent
  <2>6. CASE ApplyPrelayer
    BY <1>1, <2>6, InvApplyPrelayer
  <2>7. CASE EndUpdate \/ EndFrame \/ UNCHANGED vars
    BY <2>7, InvPhase
  <2>8. ASSUME NEW v \in Units, Finish(v) \/ AutoOrder(v) \/ Order(v) PROVE Past(u)' /\ Present(u)'
    BY <2>8, InvQueue
  <2>9. CASE Rewind
    BY <1>1, <2>9, InvRewind
  <2> QED BY <2>1, <2>2, <2>3, <2>4, <2>5, <2>6, <2>7, <2>8, <2>9 DEF Next, FrameStep
<1> QED BY <1>1, <1>2 DEF QueueInv

LEMMA QueueInvHolds == Spec => []QueueInv
BY QueueInvInit, QueueInvNext, PTL DEF Spec

-----------------------------------------------------------------------------
(* CommandQueue and its entity agree, while command systems run and between *)
(* frames, however many frames were undone before.                          *)
THEOREM StateMirrorsQueueHolds == Spec => []StateMirrorsQueue
<1>1. QueueInv => StateMirrorsQueue
  <2> SUFFICES ASSUME QueueInv, pc \in {"update", "input", "idle"}, NEW u \in Units
               PROVE  LET c == queue[u].current
                      IN Running(state, u) = KindOf[c] /\ (c # NoOp => comp[u][KindOf[c]] = c)
    BY DEF StateMirrorsQueue
  <2>1. Shows(Now(u))
    BY DEF QueueInv, Present, Steady
  <2> QED BY <2>1 DEF Shows, Now, AsKind, Running
<1> QED BY <1>1, QueueInvHolds, PTL

(* clean_up_current, the clean up systems and update_current: a command is  *)
(* cleaned up before the next one begins, and not while it runs.            *)
THEOREM CleanedUpBeforeNextHolds == Spec => []CleanedUpBeforeNext
<1>1. QueueInv => CleanedUpBeforeNext
  <2> SUFFICES ASSUME QueueInv, pc \in {"preupdate", "update", "input", "idle"}, NEW u \in Units
               PROVE  open[u] = queue[u].current
    BY DEF CleanedUpBeforeNext
  <2>1. Closed(Now(u))
    BY DEF QueueInv, Present, Steady, Beginning
  <2> QED BY <2>1 DEF Closed, Now
<1> QED BY <1>1, QueueInvHolds, PTL

(* revert_n_steps(1): queues, state pairs and the components that were      *)
(* there are given back, whatever was queued, cleaned up and begun in the   *)
(* frames before, and however many of them are undone.                      *)
THEOREM RewindRestoresHolds == Spec => RewindRestores
<1> DEFINE Restores ==
      LET before == starts[Len(starts)].world
      IN /\ queue' = before[1] /\ cleanup' = before[3]
         /\ \A u \in Units : Running(state', u) = Running(before[2], u)
         /\ \A u \in Units, k \in Kinds :
              before[4][u][k] # None => comp'[u][k] = before[4][u][k]
<1>1. QueueInv /\ [Next]_vars => [Rewind => Restores]_vars
  <2> SUFFICES ASSUME QueueInv, [Next]_vars, Rewind PROVE Restores
    OBVIOUS
  <2> DEFINE before == starts[Len(starts)].world
  <2>1. Shape /\ Shape'
    BY ShapeNext DEF QueueInv
  <2>2. Depth \in 1..Len(starts) /\ starts[Depth] \in StartType
    BY <2>1 DEF Shape, Rewind, Depth
  <2>3. /\ before[1] \in [Units -> QueueType]
        /\ before[3] \in [Units -> Kinds \union {None}]
    BY <2>2 DEF StartType, Depth
  <2>4. ASSUME NEW u \in Units
        PROVE  /\ queue'[u] = before[1][u] /\ cleanup'[u] = before[3][u]
               /\ Running(state', u) = Running(before[2], u)
               /\ \A k \in Kinds : before[4][u][k] # None => comp'[u][k] = before[4][u][k]
    <3>1. Like(Now(u)', Was(u, Depth))
      BY <2>1, Rewound
    <3> QED BY <3>1 DEF Like, Now, Was, Depth, AsKind, Running
  <2>5. queue' \in [Units -> QueueType] /\ cleanup' \in [Units -> Kinds \union {None}]
    BY <2>1 DEF Shape
  <2>6. queue' = before[1] /\ cleanup' = before[3]
    BY <2>3, <2>4, <2>5
  <2> QED BY <2>4, <2>6
<1> QED BY <1>1, QueueInvHolds, PTL DEF RewindRestores, Spec

-----------------------------------------------------------------------------
(* Sequences in a row and stacked: what the recursions compute exists, is a *)
(* sequence of the same members, and comes apart at the first sequence.     *)
RowOf(h, seqs) == h = [i \in 0..Len(seqs) |-> IF i = 0 THEN << >> ELSE h[i - 1] \o seqs[i]]
StackOf(h, seqs) == h = [i \in 0..Len(seqs) |-> IF i = 0 THEN << >> ELSE seqs[i] \o h[i - 1]]

LEMMA RowAt ==
  ASSUME NEW seqs, NEW h, RowOf(h, seqs), NEW i \in 0..Len(seqs)
  PROVE  h[i] = IF i = 0 THEN << >> ELSE h[i - 1] \o seqs[i]
BY DEF RowOf

LEMMA StackAt ==
  ASSUME NEW seqs, NEW h, StackOf(h, seqs), NEW i \in 0..Len(seqs)
  PROVE  h[i] = IF i = 0 THEN << >> ELSE seqs[i] \o h[i - 1]
BY DEF StackOf

LEMMA Joins ==
  ASSUME NEW S, NEW seqs \in Seq(Seq(S))
  PROVE  /\ \E h \in [0..Len(seqs) -> Seq(S)] : RowOf(h, seqs) /\ InRow(seqs) = h[Len(seqs)]
         /\ \E h \in [0..Len(seqs) -> Seq(S)] : StackOf(h, seqs) /\ Stacked(seqs) = h[Len(seqs)]
<1> DEFINE n == Len(seqs)
           V == Seq(S)
<1>0. n \in Nat /\ << >> \in V /\ \A i \in 1..n : seqs[i] \in V
  OBVIOUS
<1>c. \A v, w \in V : v \o w \in V
  OBVIOUS
<1>1. \E h \in [0..n -> V] : RowOf(h, seqs)
  <2> DEFINE step == [x \in (1..n) \X V |-> x[2] \o seqs[x[1]]]
  <2>1. \A i \in 1..n : \A v \in V : step[<<i, v>>] = v \o seqs[i]
    OBVIOUS
  <2>2. \A i \in 1..n : \A v \in V : step[<<i, v>>] \in V
    BY <1>0, <1>c, <2>1
  <2> HIDE DEF n, V, step
  <2>3. PICK h \in [0..n -> V] : Climbs(h, n, << >>, step)
    BY <1>0, <2>2, RecursionUpTo
  <2>4. ASSUME NEW i \in 0..n PROVE h[i] = IF i = 0 THEN << >> ELSE h[i - 1] \o seqs[i]
    <3>1. CASE i = 0
      BY <2>3, <3>1 DEF Climbs
    <3>2. CASE i # 0
      <4>1. i \in 1..n /\ i - 1 \in 0..n
        BY <1>0, <3>2
      <4> QED BY <2>1, <2>3, <3>2, <4>1 DEF Climbs
    <3> QED BY <3>1, <3>2
  <2> QED BY <2>3, <2>4 DEF RowOf, n
<1>2. \E h \in [0..n -> V] : StackOf(h, seqs)
  <2> DEFINE step == [x \in (1..n) \X V |-> seqs[x[1]] \o x[2]]
  <2>1. \A i \in 1..n : \A v \in V : step[<<i, v>>] = seqs[i] \o v
    OBVIOUS
  <2>2. \A i \in 1..n : \A v \in V : step[<<i, v>>] \in V
    BY <1>0, <1>c, <2>1
  <2> HIDE DEF n, V, step
  <2>3. PICK h \in [0..n -> V] : Climbs(h, n, << >>, step)
    BY <1>0, <2>2, RecursionUpTo
  <2>4. ASSUME NEW i \in 0..n PROVE h[i] = IF i = 0 THEN << >> ELSE seqs[i] \o h[i - 1]
    <3>1. CASE i = 0
      BY <2>3, <3>1 DEF Climbs
    <3>2. CASE i # 0
      <4>1. i \in 1..n /\ i - 1 \in 0..n
        BY <1>0, <3>2
      <4> QED BY <2>1, <2>3, <3>2, <4>1 DEF Climbs
    <3> QED BY <3>1, <3>2
  <2> QED BY <2>3, <2>4 DEF StackOf, n
<1>3. ASSUME NEW h, RowOf(h, seqs) \/ StackOf(h, seqs) PROVE h \in [0..n -> V]
  <2> DEFINE G == {k \in Nat : k <= n => h[k] \in V}
  <2>1. 0 \in G
    <3>1. 0 \in 0..n
      BY <1>0
    <3>2. h[0] = << >>
      BY <1>3, <3>1, RowAt, StackAt
    <3> QED BY <1>0, <3>2
  <2>2. ASSUME NEW k \in Nat, k \in G PROVE k + 1 \in G
    <3> SUFFICES ASSUME k + 1 <= n PROVE h[k + 1] \in V
      OBVIOUS
    <3>1. k + 1 \in 1..n /\ k + 1 # 0 /\ (k + 1) - 1 = k /\ h[k] \in V
      BY <1>0, <2>2
    <3>2. h[k + 1] = h[k] \o seqs[k + 1] \/ h[k + 1] = seqs[k + 1] \o h[k]
      <4>1. k + 1 \in 0..n
        BY <3>1
      <4>2. CASE RowOf(h, seqs)
        <5>1. h[k + 1] = IF k + 1 = 0 THEN << >> ELSE h[(k + 1) - 1] \o seqs[k + 1]
          BY <4>1, <4>2, RowAt
        <5> QED BY <3>1, <5>1
      <4>3. CASE StackOf(h, seqs)
        <5>1. h[k + 1] = IF k + 1 = 0 THEN << >> ELSE seqs[k + 1] \o h[(k + 1) - 1]
          BY <4>1, <4>3, StackAt
        <5> QED BY <3>1, <5>1
      <4> QED BY <1>3, <4>2, <4>3
    <3> HIDE DEF V
    <3> QED BY <1>0, <1>c, <3>1, <3>2
  <2>3. Nat \subseteq G
    <3> HIDE DEF G
    <3> QED BY <2>1, <2>2, NatInSet
  <2>4. \A i \in 0..n : h[i] \in V
    BY <1>0, <2>3
  <2>5. h = [i \in 0..n |-> h[i]]
    BY <1>3 DEF RowOf, StackOf
  <2> HIDE DEF V, n
  <2> QED BY <2>4, <2>5
<1>4. \E h : RowOf(h, seqs) /\ InRow(seqs) = h[n]
  <2>1. InRow(seqs) = (CHOOSE h : RowOf(h, seqs))[n]
    BY DEF InRow, RowOf
  <2> HIDE DEF n, V
  <2> QED BY <1>1, <2>1
<1>5. \E h : StackOf(h, seqs) /\ Stacked(seqs) = h[n]
  <2>1. Stacked(seqs) = (CHOOSE h : StackOf(h, seqs))[n]
    BY DEF Stacked, StackOf
  <2> HIDE DEF n, V
  <2> QED BY <1>2, <2>1
<1> QED BY <1>3, <1>4, <1>5

LEMMA JoinTypes ==
  ASSUME NEW S, NEW seqs \in Seq(Seq(S))
  PROVE  InRow(seqs) \in Seq(S) /\ Stacked(seqs) \in Seq(S)
<1>1. Len(seqs) \in 0..Len(seqs)
  OBVIOUS
<1> QED BY <1>1, Joins

LEMMA JoinsNone == InRow(<< >>) = << >> /\ Stacked(<< >>) = << >>
<1> DEFINE none == << >>
<1>1. none \in Seq(Seq({})) /\ Len(none) = 0
  OBVIOUS
<1> HIDE DEF none
<1>2. 0 \in 0..Len(none)
  BY <1>1
<1>3. PICK f : RowOf(f, none) /\ InRow(none) = f[Len(none)]
  BY <1>1, Joins
<1>4. PICK g : StackOf(g, none) /\ Stacked(none) = g[Len(none)]
  BY <1>1, Joins
<1>5. f[0] = << >> /\ g[0] = << >>
  BY <1>2, <1>3, <1>4, RowAt, StackAt
<1>6. InRow(none) = << >> /\ Stacked(none) = << >>
  BY <1>1, <1>3, <1>4, <1>5
<1> QED BY <1>6 DEF none

LEMMA JoinsApart ==
  ASSUME NEW S, NEW seqs \in Seq(Seq(S)), seqs # << >>
  PROVE  /\ InRow(seqs) = Head(seqs) \o InRow(Tail(seqs))
         /\ Stacked(seqs) = Stacked(Tail(seqs)) \o Head(seqs)
<1> DEFINE n == Len(seqs)
           rest == Tail(seqs)
           first == Head(seqs)
           m == Len(rest)
           V == Seq(S)
<1>0. /\ n \in Nat /\ m \in Nat /\ n = m + 1 /\ first \in V /\ rest \in Seq(V) /\ first = seqs[1]
      /\ \A i \in 1..m : rest[i] = seqs[i + 1] /\ rest[i] \in V
  OBVIOUS
<1>c. /\ \A v, w \in V : v \o w \in V
      /\ \A v, w, x \in V : (v \o w) \o x = v \o (w \o x)
      /\ << >> \in V /\ \A v \in V : v \o << >> = v /\ << >> \o v = v
  OBVIOUS
<1>1. PICK f \in [0..n -> V] : RowOf(f, seqs) /\ InRow(seqs) = f[n]
  BY Joins
<1>2. PICK g \in [0..m -> V] : RowOf(g, rest) /\ InRow(rest) = g[m]
  BY <1>0, Joins
<1>3. PICK f2 \in [0..n -> V] : StackOf(f2, seqs) /\ Stacked(seqs) = f2[n]
  BY Joins
<1>4. PICK g2 \in [0..m -> V] : StackOf(g2, rest) /\ Stacked(rest) = g2[m]
  BY <1>0, Joins
<1>5. /\ \A i \in 0..n : /\ f[i] = IF i = 0 THEN << >> ELSE f[i - 1] \o seqs[i]
                         /\ f2[i] = IF i = 0 THEN << >> ELSE seqs[i] \o f2[i - 1]
      /\ \A i \in 0..m : /\ g[i] = IF i = 0 THEN << >> ELSE g[i - 1] \o rest[i]
                         /\ g2[i] = IF i = 0 THEN << >> ELSE rest[i] \o g2[i - 1]
  <2>1. \A i \in 0..n : f[i] = IF i = 0 THEN << >> ELSE f[i - 1] \o seqs[i]
    BY <1>1, RowAt
  <2>2. \A i \in 0..n : f2[i] = IF i = 0 THEN << >> ELSE seqs[i] \o f2[i - 1]
    BY <1>3, StackAt
  <2> HIDE DEF rest
  <2>3. \A i \in 0..m : g[i] = IF i = 0 THEN << >> ELSE g[i - 1] \o rest[i]
    BY <1>2, RowAt
  <2>4. \A i \in 0..m : g2[i] = IF i = 0 THEN << >> ELSE rest[i] \o g2[i - 1]
    BY <1>4, StackAt
  <2> QED BY <2>1, <2>2, <2>3, <2>4
<1>6. \A i \in 0..m : g[i] \in V /\ g2[i] \in V
  BY <1>2, <1>4
<1> DEFINE G == {k \in Nat : k <= m => f[k + 1] = first \o g[k] /\ f2[k + 1] = g2[k] \o first}
<1> HIDE DEF V, n, m, rest, first
<1>7. 0 \in G
  <2>1. 0 \in 0..n /\ 1 \in 0..n /\ 0 \in 0..m /\ 1 # 0 /\ 1 - 1 = 0
    BY <1>0
  <2>2. f[0] = << >> /\ f[1] = f[0] \o seqs[1] /\ f2[0] = << >> /\ f2[1] = seqs[1] \o f2[0]
    BY <1>5, <2>1
  <2>3. g[0] = << >> /\ g2[0] = << >>
    BY <1>5, <2>1
  <2>4. f[1] = first /\ f2[1] = first
    BY <1>0, <1>c, <2>2
  <2>5. first \o g[0] = first /\ g2[0] \o first = first
    BY <1>0, <1>c, <2>3
  <2> QED BY <2>4, <2>5
<1>8. ASSUME NEW k \in Nat, k \in G PROVE k + 1 \in G
  <2> SUFFICES ASSUME k + 1 <= m
               PROVE  f[k + 2] = first \o g[k + 1] /\ f2[k + 2] = g2[k + 1] \o first
    <3>1. (k + 1) + 1 = k + 2
      OBVIOUS
    <3> QED BY <3>1
  <2>1. /\ k \in 0..m /\ k + 1 \in 1..m /\ k + 1 \in 0..m /\ k + 2 \in 0..n /\ k + 2 # 0 /\ k + 1 # 0
        /\ (k + 2) - 1 = k + 1 /\ (k + 1) - 1 = k /\ (k + 1) + 1 = k + 2 /\ k <= m
    BY <1>0
  <2>2. f[k + 1] = first \o g[k] /\ f2[k + 1] = g2[k] \o first
    BY <1>8, <2>1
  <2>3. f[k + 2] = f[k + 1] \o seqs[k + 2] /\ f2[k + 2] = seqs[k + 2] \o f2[k + 1]
    BY <1>5, <2>1
  <2>4. g[k + 1] = g[k] \o rest[k + 1] /\ g2[k + 1] = rest[k + 1] \o g2[k]
    BY <1>5, <2>1
  <2>5. rest[k + 1] = seqs[k + 2] /\ rest[k + 1] \in V /\ g[k] \in V /\ g2[k] \in V
    BY <1>0, <1>6, <2>1
  <2>6. (first \o g[k]) \o rest[k + 1] = first \o (g[k] \o rest[k + 1])
    <3>1. PICK v, w, x \in V : v = first /\ w = g[k] /\ x = rest[k + 1]
      BY <1>0, <2>5
    <3>2. (v \o w) \o x = v \o (w \o x)
      BY <1>c
    <3> QED BY <3>1, <3>2
  <2>7. rest[k + 1] \o (g2[k] \o first) = (rest[k + 1] \o g2[k]) \o first
    <3>1. PICK v, w, x \in V : v = rest[k + 1] /\ w = g2[k] /\ x = first
      BY <1>0, <2>5
    <3>2. (v \o w) \o x = v \o (w \o x)
      BY <1>c
    <3> QED BY <3>1, <3>2
  <2> QED BY <2>2, <2>3, <2>4, <2>5, <2>6, <2>7
<1>9. m \in G
  <2>1. Nat \subseteq G
    <3> HIDE DEF G
    <3> QED BY <1>7, <1>8, NatInSet
  <2> QED BY <1>0, <2>1
<1>10. f[m + 1] = first \o g[m] /\ f2[m + 1] = g2[m] \o first
  BY <1>0, <1>9
<1>11. /\ InRow(seqs) = f[m + 1] /\ InRow(rest) = g[m]
       /\ Stacked(seqs) = f2[m + 1] /\ Stacked(rest) = g2[m]
  BY <1>0, <1>1, <1>2, <1>3, <1>4 DEF n, m
<1>12. InRow(seqs) = first \o InRow(rest) /\ Stacked(seqs) = Stacked(rest) \o first
  BY <1>10, <1>11
<1> QED BY <1>12 DEF rest, first

(* Where the last replacement is. *)
LEMMA LastReplaceIs ==
  ASSUME NEW acts \in Seq(QueueAction)
  PROVE  \/ /\ LastReplace(acts) = 0
            /\ \A i \in 1..Len(acts) : acts[i].do # "replace"
         \/ /\ LastReplace(acts) \in 1..Len(acts) /\ acts[LastReplace(acts)].do = "replace"
            /\ \A j \in 1..Len(acts) : j > LastReplace(acts) => acts[j].do # "replace"
<1>0. DOMAIN acts = 1..Len(acts) /\ Len(acts) \in Nat
  OBVIOUS
<1>1. CASE \E i \in DOMAIN acts : acts[i].do = "replace"
  <2> DEFINE R == {i \in 1..Len(acts) : acts[i].do = "replace"}
  <2>1. R \in SUBSET Int /\ R # {} /\ IsFiniteSet(R)
    <3>1. IsFiniteSet(1..Len(acts))
      BY <1>0, FS_Interval
    <3>2. IsFiniteSet(R)
      BY <3>1, FS_Subset
    <3> QED BY <1>0, <1>1, <3>2
  <2> HIDE DEF R
  <2>2. PICK i \in R : \A j \in R : i >= j
    BY <2>1, HasMax
  <2>3. i \in DOMAIN acts /\ acts[i].do = "replace"
        /\ \A j \in DOMAIN acts : j > i => acts[j].do # "replace"
    BY <1>0, <2>2 DEF R
  <2> QED BY <1>0, <1>1, <2>3 DEF LastReplace
<1>2. CASE ~ \E i \in DOMAIN acts : acts[i].do = "replace"
  BY <1>0, <1>2 DEF LastReplace
<1> QED BY <1>1, <1>2

LEMMA LastReplaceUnique ==
  ASSUME NEW acts \in Seq(QueueAction), NEW i \in 1..Len(acts), acts[i].do = "replace",
         \A j \in 1..Len(acts) : j > i => acts[j].do # "replace"
  PROVE  LastReplace(acts) = i
<1> DEFINE l == LastReplace(acts)
<1>1. l \in 1..Len(acts) /\ acts[l].do = "replace"
      /\ \A j \in 1..Len(acts) : j > l => acts[j].do # "replace"
  BY LastReplaceIs
<1> HIDE DEF l
<1>2. ~ (i > l) /\ ~ (l > i)
  BY <1>1
<1> QED BY <1>1, <1>2 DEF l

(* Once the first action is handled, the last replacement is one nearer. *)
LEMMA LastReplaceTail ==
  ASSUME NEW acts \in Seq(QueueAction), acts # << >>
  PROVE  LastReplace(Tail(acts)) = IF LastReplace(acts) = 0 THEN 0 ELSE LastReplace(acts) - 1
<1> DEFINE rest == Tail(acts)
           l == LastReplace(acts)
           k == LastReplace(rest)
           n == Len(acts)
<1>0. /\ rest \in Seq(QueueAction) /\ Len(rest) = n - 1 /\ n \in Nat /\ n > 0
      /\ \A i \in 1..(n - 1) : rest[i] = acts[i + 1]
  OBVIOUS
<1>1. \/ l = 0 /\ \A i \in 1..n : acts[i].do # "replace"
      \/ /\ l \in 1..n /\ acts[l].do = "replace"
         /\ \A j \in 1..n : j > l => acts[j].do # "replace"
  BY LastReplaceIs
<1>2. \/ k = 0 /\ \A i \in 1..(n - 1) : rest[i].do # "replace"
      \/ /\ k \in 1..(n - 1) /\ rest[k].do = "replace"
         /\ \A j \in 1..(n - 1) : j > k => rest[j].do # "replace"
  <2> HIDE DEF rest
  <2> QED BY <1>0, LastReplaceIs
<1> HIDE DEF rest, l, n, k
<1>3. \A i \in 1..(n - 1) : i + 1 \in 1..n
  BY <1>0
<1>4. CASE l = 0
  <2>1. \A i \in 1..(n - 1) : rest[i].do # "replace"
    <3>1. \A i \in 1..n : acts[i].do # "replace"
      BY <1>1, <1>4
    <3> QED BY <1>0, <1>3, <3>1
  <2> QED BY <1>2, <1>4, <2>1 DEF rest, l, k
<1>5. CASE l = 1
  <2>1. \A i \in 1..(n - 1) : i + 1 > l
    BY <1>5
  <2>2. \A i \in 1..(n - 1) : rest[i].do # "replace"
    BY <1>0, <1>1, <1>3, <1>5, <2>1
  <2>3. k = 0
    BY <1>2, <2>2
  <2> QED BY <1>5, <2>3 DEF rest, l, k
<1>6. CASE l # 0 /\ l # 1
  <2>1. l - 1 \in 1..(n - 1) /\ (l - 1) + 1 = l
    BY <1>0, <1>1, <1>6
  <2>2. rest[l - 1].do = "replace"
    BY <1>0, <1>1, <1>6, <2>1
  <2>3. ASSUME NEW j \in 1..(n - 1), j > l - 1 PROVE rest[j].do # "replace"
    <3>1. j + 1 \in 1..n /\ j + 1 > l
      BY <1>0, <2>1, <2>3
    <3> QED BY <1>0, <1>1, <1>6, <3>1
  <2>4. k = l - 1
    <3>1. \A j \in 1..Len(rest) : j > l - 1 => rest[j].do # "replace"
      BY <1>0, <2>3
    <3>2. l - 1 \in 1..Len(rest)
      BY <1>0, <2>1
    <3> QED BY <1>0, <2>2, <3>1, <3>2, LastReplaceUnique DEF k
  <2> QED BY <1>6, <2>4 DEF rest, l, k
<1> QED BY <1>1, <1>4, <1>5, <1>6

LEMMA CarriedType ==
  ASSUME NEW acts \in Seq(QueueAction), NEW d, NEW cut \in Nat
  PROVE  /\ Carried(acts, d, cut) \in Seq(Seq(Commands))
         /\ Len(Carried(acts, d, cut)) = Len(acts)
<1>1. ASSUME NEW i \in 1..Len(acts) PROVE acts[i].cmds \in Seq(Commands)
  <2>1. acts[i] \in QueueAction
    OBVIOUS
  <2> QED BY <2>1 DEF QueueAction
<1>2. << >> \in Seq(Commands)
  OBVIOUS
<1> DEFINE V == Seq(Commands)
<1> HIDE DEF V
<1>3. \A i \in 1..Len(acts) : (IF i > cut /\ acts[i].do = d THEN acts[i].cmds ELSE << >>) \in V
  BY <1>1, <1>2 DEF V
<1>4. Carried(acts, d, cut) \in Seq(V) /\ Len(Carried(acts, d, cut)) = Len(acts)
  BY <1>3 DEF Carried
<1> QED BY <1>4 DEF V

LEMMA CarriedApart ==
  ASSUME NEW acts \in Seq(QueueAction), acts # << >>, NEW d, NEW cut \in Nat
  PROVE  /\ Carried(acts, d, cut) # << >>
         /\ Head(Carried(acts, d, cut)) = IF cut = 0 /\ Head(acts).do = d THEN Head(acts).cmds ELSE << >>
         /\ Tail(Carried(acts, d, cut)) = Carried(Tail(acts), d, IF cut = 0 THEN 0 ELSE cut - 1)
<1> DEFINE all == Carried(acts, d, cut)
           n == Len(acts)
           rest == Tail(acts)
           next == IF cut = 0 THEN 0 ELSE cut - 1
<1>0. /\ rest \in Seq(QueueAction) /\ Len(rest) = n - 1 /\ n \in Nat /\ n > 0
      /\ \A i \in 1..(n - 1) : rest[i] = acts[i + 1]
      /\ Head(acts) = acts[1]
  OBVIOUS
<1>1. /\ all \in Seq(Seq(Commands)) /\ Len(all) = n
      /\ \A i \in 1..n : all[i] = IF i > cut /\ acts[i].do = d THEN acts[i].cmds ELSE << >>
  BY CarriedType DEF Carried
<1> HIDE DEF all
<1>2. /\ all # << >> /\ Head(all) = all[1] /\ Tail(all) \in Seq(Seq(Commands)) /\ Len(Tail(all)) = n - 1
      /\ \A i \in 1..(n - 1) : Tail(all)[i] = all[i + 1]
  <2> DEFINE V == Seq(Commands)
  <2> HIDE DEF V
  <2>1. all \in Seq(V) /\ all # << >>
    BY <1>0, <1>1 DEF V
  <2> QED BY <1>0, <1>1, <2>1 DEF V
<1> HIDE DEF n, rest
<1>3. Head(all) = IF cut = 0 /\ Head(acts).do = d THEN Head(acts).cmds ELSE << >>
  <2>1. 1 \in 1..n /\ (1 > cut <=> cut = 0)
    BY <1>0
  <2> QED BY <1>0, <1>1, <1>2, <2>1
<1>4. ASSUME NEW i \in 1..(n - 1)
      PROVE  Tail(all)[i] = IF i > next /\ rest[i].do = d THEN rest[i].cmds ELSE << >>
  <2>1. i + 1 \in 1..n /\ (i + 1 > cut <=> i > next)
    BY <1>0
  <2> HIDE DEF next
  <2> QED BY <1>0, <1>1, <1>2, <2>1
<1>5. Tail(all) = [i \in 1..(n - 1) |-> IF i > next /\ rest[i].do = d THEN rest[i].cmds ELSE << >>]
  <2>1. Tail(all) = [i \in 1..(n - 1) |-> Tail(all)[i]]
    <3>1. PICK t, S : t = Tail(all) /\ S = Seq(Commands)
      OBVIOUS
    <3>2. t \in Seq(S) /\ Len(t) = n - 1
      BY <1>2, <3>1
    <3>3. t = [i \in 1..(n - 1) |-> t[i]]
      BY <3>2
    <3> QED BY <3>1, <3>3
  <2> HIDE DEF next
  <2> QED BY <1>4, <2>1
<1>6. Tail(all) = Carried(rest, d, next)
  BY <1>0, <1>5 DEF Carried
<1> QED BY <1>2, <1>3, <1>6 DEF all, rest

-----------------------------------------------------------------------------
(* Concatenation as a function, so that only its laws are known of it. *)
Concatenates(cat, V) ==
  /\ \A v, w \in V : cat[v][w] = v \o w
  /\ \A v, w \in V : cat[v][w] \in V
  /\ \A v, w, z \in V : cat[cat[v][w]][z] = cat[v][cat[w][z]]

LEMMA Concatenation ==
  ASSUME NEW S
  PROVE  \E cat : Concatenates(cat, Seq(S))
<1> DEFINE cat == [v \in Seq(S) |-> [w \in Seq(S) |-> v \o w]]
<1>1. ASSUME NEW v \in Seq(S), NEW w \in Seq(S) PROVE cat[v][w] = v \o w /\ v \o w \in Seq(S)
  OBVIOUS
<1>2. ASSUME NEW v \in Seq(S), NEW w \in Seq(S), NEW z \in Seq(S)
      PROVE  (v \o w) \o z = v \o (w \o z)
  BY ConcatAssociative
<1> HIDE DEF cat
<1>3. ASSUME NEW v \in Seq(S), NEW w \in Seq(S), NEW z \in Seq(S)
      PROVE  cat[cat[v][w]][z] = cat[v][cat[w][z]]
  <2>1. cat[v][w] = v \o w /\ cat[w][z] = w \o z /\ v \o w \in Seq(S) /\ w \o z \in Seq(S)
    BY <1>1
  <2>2. cat[v \o w][z] = (v \o w) \o z
    BY <1>1, <2>1
  <2>3. cat[v][w \o z] = v \o (w \o z)
    BY <1>1, <2>1
  <2>4. (v \o w) \o z = v \o (w \o z)
    BY <1>2
  <2> QED BY <2>1, <2>2, <2>3, <2>4, Zenon
<1>4. \A v, w \in Seq(S) : cat[v][w] = v \o w
  BY <1>1, Zenon
<1>5. \A v, w \in Seq(S) : cat[v][w] \in Seq(S)
  <2>1. ASSUME NEW v \in Seq(S), NEW w \in Seq(S) PROVE cat[v][w] \in Seq(S)
    BY <1>1
  <2> QED BY <2>1, Zenon
<1>6. Concatenates(cat, Seq(S))
  BY <1>3, <1>4, <1>5, Zenon DEF Concatenates
<1> QED BY <1>6

AllSequences(S, c, f, x, m, y, b) ==
  /\ c \in Seq(S) /\ f \in Seq(S) /\ x \in Seq(S)
  /\ m \in Seq(S) /\ y \in Seq(S) /\ b \in Seq(S)

Regrouped(c, f, x, m, y, b) ==
  ((c \o (f \o x)) \o m) \o (y \o b) = ((c \o f) \o ((x \o m) \o y)) \o b

LEMMA Regroup ==
  ASSUME NEW S, NEW c, NEW f, NEW x, NEW m, NEW y, NEW b, AllSequences(S, c, f, x, m, y, b)
  PROVE  Regrouped(c, f, x, m, y, b)
<1>1. PICK V : V = Seq(S)
  OBVIOUS
<1>2. PICK cat : Concatenates(cat, V)
  BY <1>1, Concatenation
<1>3. c \in V /\ f \in V /\ x \in V /\ m \in V /\ y \in V /\ b \in V
  BY <1>1, Zenon DEF AllSequences
<1>4. \A v, w \in V : cat[v][w] \in V
  BY <1>2, Zenon DEF Concatenates
<1>a. \A v, w, z \in V : cat[cat[v][w]][z] = cat[v][cat[w][z]]
  BY <1>2, Zenon DEF Concatenates
<1>5. \A v, w \in V : cat[v][w] = v \o w
  BY <1>2, Zenon DEF Concatenates
<1>6. PICK fx, cfx, l, yb : fx = cat[f][x] /\ cfx = cat[c][fx] /\ l = cat[cfx][m] /\ yb = cat[y][b]
  OBVIOUS
<1>7. PICK cf, xm, xmy, r : cf = cat[c][f] /\ xm = cat[x][m] /\ xmy = cat[xm][y] /\ r = cat[cf][xmy]
  OBVIOUS
<1>8. /\ fx \in V /\ cfx \in V /\ l \in V /\ yb \in V
      /\ cf \in V /\ xm \in V /\ xmy \in V /\ r \in V
  BY <1>3, <1>4, <1>6, <1>7
<1>9. cat[l][yb] = cat[r][b]
  <2>1. cat[cat[c][f]][x] = cat[c][cat[f][x]]
    BY <1>3, <1>a
  <2>2. cat[cat[cf][x]][m] = cat[cf][cat[x][m]]
    <3>1. cf \in V /\ x \in V /\ m \in V
      BY <1>3, <1>8
    <3> QED BY <1>a, <3>1
  <2>3. cat[cat[cf][xm]][y] = cat[cf][cat[xm][y]]
    <3>1. cf \in V /\ xm \in V /\ y \in V
      BY <1>3, <1>8
    <3> QED BY <1>a, <3>1
  <2>4. cat[cat[l][y]][b] = cat[l][cat[y][b]]
    <3>1. l \in V /\ y \in V /\ b \in V
      BY <1>3, <1>8
    <3> QED BY <1>a, <3>1
  <2> QED BY <1>6, <1>7, <2>1, <2>2, <2>3, <2>4, Zenon
<1>10. fx = f \o x /\ cfx = c \o fx /\ l = cfx \o m /\ yb = y \o b /\ cat[l][yb] = l \o yb
  BY <1>3, <1>5, <1>6, <1>8, Zenon
<1>11. cf = c \o f /\ xm = x \o m /\ xmy = xm \o y /\ r = cf \o xmy /\ cat[r][b] = r \o b
  BY <1>3, <1>5, <1>7, <1>8, Zenon
<1> QED BY <1>9, <1>10, <1>11, Zenon DEF Regrouped

(* Handling an action does what it asks for, and the rest still asks for *)
(* the rest.                                                              *)
LEMMA AskedKept ==
  ASSUME NEW r \in QueueType, r.actions # << >>
  PROVE  Asked([Handled(r, Head(r.actions)) EXCEPT !.actions = Tail(r.actions)]) = Asked(r)
<1> DEFINE acts == r.actions
           a == Head(acts)
           rest == Tail(acts)
           new == [Handled(r, a) EXCEPT !.actions = rest]
           cut == LastReplace(acts)
           next == LastReplace(rest)
           front == IF cut = 0 /\ a.do = "front" THEN a.cmds ELSE << >>
           back == IF cut = 0 /\ a.do = "back" THEN a.cmds ELSE << >>
           middle == IF cut = 0 THEN r.queued ELSE acts[cut].cmds
           later == IF next = 0 THEN new.queued ELSE rest[next].cmds
           run == IF (r.done \/ \E i \in DOMAIN acts : acts[i].do = "done") \/ r.current = NoOp
                  THEN << >> ELSE <<r.current>>
           V == Seq(Commands)
<1>0. /\ r.current \in Variant /\ r.queued \in V /\ r.done \in BOOLEAN /\ acts \in Seq(QueueAction)
      /\ acts # << >>
  BY DEF QueueType
<1>1. /\ a \in QueueAction /\ rest \in Seq(QueueAction) /\ a = acts[1]
      /\ Len(acts) \in Nat /\ Len(rest) = Len(acts) - 1 /\ Len(acts) > 0
      /\ DOMAIN acts = 1..Len(acts) /\ DOMAIN rest = 1..(Len(acts) - 1)
      /\ \A i \in 1..(Len(acts) - 1) : rest[i] = acts[i + 1]
  <2> HIDE DEF QueueAction
  <2> QED BY <1>0
<1>2. a.do \in {"done", "replace", "front", "back"} /\ a.cmds \in V
  BY <1>1 DEF QueueAction
<1>3. /\ new.actions = rest /\ new.current = r.current
      /\ new.done = (r.done \/ a.do = "done")
      /\ new.queued = CASE a.do = "done" -> r.queued [] a.do = "replace" -> a.cmds
                        [] a.do = "front" -> a.cmds \o r.queued [] a.do = "back" -> r.queued \o a.cmds
  <2> HIDE DEF a, rest
  <2> QED BY <1>0, <1>2 DEF Handled, QueueType
<1> HIDE DEF acts, a, rest, new, cut, next, V
<1>4. /\ cut \in Nat /\ next = IF cut = 0 THEN 0 ELSE cut - 1
      /\ \/ cut = 0 /\ a.do # "replace"
         \/ cut \in 1..Len(acts) /\ acts[cut].do = "replace"
  <2>1. \/ cut = 0 /\ \A i \in 1..Len(acts) : acts[i].do # "replace"
        \/ cut \in 1..Len(acts) /\ acts[cut].do = "replace"
    BY <1>0, LastReplaceIs DEF cut
  <2>2. 1 \in 1..Len(acts)
    BY <1>1
  <2>3. next = IF cut = 0 THEN 0 ELSE cut - 1
    BY <1>0, LastReplaceTail DEF cut, next, rest
  <2> QED BY <1>1, <2>1, <2>2, <2>3
<1>5. later = (front \o middle) \o back
  <2>0. \A v \in V : v \o << >> = v /\ << >> \o v = v
    BY DEF V
  <2>1. CASE cut = 0
    <3>1. next = 0 /\ later = new.queued /\ middle = r.queued /\ a.do # "replace"
      BY <1>1, <1>4, <2>1
    <3>2. CASE a.do = "done"
      BY <1>0, <1>3, <2>0, <3>1, <3>2
    <3>3. CASE a.do = "front"
      <4>1. a.cmds \o r.queued \in V
        BY <1>0, <1>2 DEF V
      <4>2. later = a.cmds \o r.queued /\ front = a.cmds /\ back = << >>
        BY <1>3, <2>1, <3>1, <3>3
      <4> QED BY <2>0, <3>1, <4>1, <4>2
    <3>4. CASE a.do = "back"
      <4>1. later = r.queued \o a.cmds /\ front = << >> /\ back = a.cmds
        BY <1>3, <2>1, <3>1, <3>4
      <4> QED BY <1>0, <2>0, <3>1, <4>1
    <3> QED BY <1>2, <3>1, <3>2, <3>3, <3>4
  <2>2. CASE cut # 0
    <3>1. front = << >> /\ back = << >> /\ middle = acts[cut].cmds /\ cut \in 1..Len(acts)
      BY <1>4, <2>2
    <3>2. acts[cut].cmds \in V
      <4>1. acts[cut] \in QueueAction
        BY <1>0, <3>1
      <4> QED BY <4>1 DEF QueueAction, V
    <3>3. later = acts[cut].cmds
      <4>1. CASE cut = 1
        <5>1. next = 0 /\ a.do = "replace"
          BY <1>1, <1>4, <4>1
        <5> QED BY <1>1, <1>3, <4>1, <5>1
      <4>2. CASE cut # 1
        <5>1. next = cut - 1 /\ next # 0 /\ next \in 1..(Len(acts) - 1) /\ next + 1 = cut
          BY <1>1, <1>4, <2>2, <3>1, <4>2
        <5> QED BY <1>1, <5>1
      <4> QED BY <4>1, <4>2
    <3> HIDE DEF front, back, middle, later
    <3> QED BY <2>0, <3>1, <3>2, <3>3
  <2> QED BY <2>1, <2>2
<1>6. run = IF (new.done \/ \E i \in DOMAIN rest : rest[i].do = "done") \/ new.current = NoOp
            THEN << >> ELSE <<new.current>>
  <2>1. (\E i \in DOMAIN acts : acts[i].do = "done")
        <=> (a.do = "done" \/ \E i \in DOMAIN rest : rest[i].do = "done")
    <3>1. ASSUME NEW i \in DOMAIN acts, acts[i].do = "done"
          PROVE  a.do = "done" \/ \E j \in DOMAIN rest : rest[j].do = "done"
      <4>1. CASE i = 1
        BY <1>1, <3>1, <4>1
      <4>2. CASE i # 1
        <5>1. i - 1 \in 1..(Len(acts) - 1) /\ (i - 1) + 1 = i
          BY <1>1, <3>1, <4>2
        <5>2. rest[i - 1].do = "done"
          BY <1>1, <3>1, <5>1
        <5> QED BY <1>1, <5>1, <5>2
      <4> QED BY <4>1, <4>2
    <3>2. ASSUME NEW i \in DOMAIN rest, rest[i].do = "done"
          PROVE  \E j \in DOMAIN acts : acts[j].do = "done"
      <4>1. i + 1 \in DOMAIN acts /\ acts[i + 1].do = "done"
        BY <1>1, <3>2
      <4> QED BY <4>1
    <3>3. a.do = "done" => \E j \in DOMAIN acts : acts[j].do = "done"
      <4>1. 1 \in DOMAIN acts
        BY <1>1
      <4> QED BY <1>1, <4>1
    <3> QED BY <3>1, <3>2, <3>3
  <2> QED BY <1>3, <2>1
<1>7. PICK sf : sf = Stacked(Carried(rest, "front", next))
  OBVIOUS
<1>8. PICK sb : sb = InRow(Carried(rest, "back", next))
  OBVIOUS
<1>9. sf \in V /\ sb \in V
  <2>1. next \in Nat
    BY <1>4
  <2>2. Carried(rest, "front", next) \in Seq(Seq(Commands)) /\ Carried(rest, "back", next) \in Seq(Seq(Commands))
    BY <1>1, <2>1, CarriedType
  <2> QED BY <1>7, <1>8, <2>2, JoinTypes DEF V
<1>10. Stacked(Carried(acts, "front", cut)) = sf \o front
  <2>1. PICK all : all = Carried(acts, "front", cut)
    OBVIOUS
  <2>2. all \in Seq(Seq(Commands)) /\ all # << >> /\ Head(all) = front /\ Tail(all) = Carried(rest, "front", next)
    <3>1. PICK d : d = "front"
      OBVIOUS
    <3>2. /\ Carried(acts, d, cut) # << >> /\ Carried(acts, d, cut) \in Seq(Seq(Commands))
          /\ Head(Carried(acts, d, cut)) = IF cut = 0 /\ Head(acts).do = d THEN Head(acts).cmds ELSE << >>
          /\ Tail(Carried(acts, d, cut)) = Carried(Tail(acts), d, IF cut = 0 THEN 0 ELSE cut - 1)
      BY <1>0, <1>4, CarriedType, CarriedApart
    <3> QED BY <1>4, <2>1, <3>1, <3>2 DEF a, rest
  <2> HIDE DEF front
  <2>3. Stacked(all) = Stacked(Tail(all)) \o Head(all)
    BY <2>2, JoinsApart
  <2> QED BY <1>7, <2>1, <2>2, <2>3
<1>11. InRow(Carried(acts, "back", cut)) = back \o sb
  <2>1. PICK all : all = Carried(acts, "back", cut)
    OBVIOUS
  <2>2. all \in Seq(Seq(Commands)) /\ all # << >> /\ Head(all) = back /\ Tail(all) = Carried(rest, "back", next)
    <3>1. PICK d : d = "back"
      OBVIOUS
    <3>2. /\ Carried(acts, d, cut) # << >> /\ Carried(acts, d, cut) \in Seq(Seq(Commands))
          /\ Head(Carried(acts, d, cut)) = IF cut = 0 /\ Head(acts).do = d THEN Head(acts).cmds ELSE << >>
          /\ Tail(Carried(acts, d, cut)) = Carried(Tail(acts), d, IF cut = 0 THEN 0 ELSE cut - 1)
      BY <1>0, <1>4, CarriedType, CarriedApart
    <3> QED BY <1>4, <2>1, <3>1, <3>2 DEF a, rest
  <2> HIDE DEF back
  <2>3. InRow(all) = Head(all) \o InRow(Tail(all))
    BY <2>2, JoinsApart
  <2> QED BY <1>8, <2>1, <2>2, <2>3
<1>12. Asked(r) = ((run \o (sf \o front)) \o middle) \o (back \o sb)
  BY <1>10, <1>11 DEF Asked, acts, cut
<1>13. Asked(new) = ((run \o sf) \o later) \o sb
  <2> HIDE DEF run
  <2> QED BY <1>3, <1>6, <1>7, <1>8 DEF Asked, next
<1>14. run \in V /\ front \in V /\ back \in V /\ middle \in V
  <2>1. << >> \in V
    BY DEF V
  <2>2. run \in V
    <3>1. CASE run = << >>
      BY <2>1, <3>1
    <3>2. CASE run # << >>
      <4>1. run = <<r.current>> /\ r.current # NoOp
        BY <3>2
      <4>2. r.current \in Commands
        BY <1>0, <4>1 DEF Variant
      <4> QED BY <4>1, <4>2 DEF V
    <3> QED BY <3>1, <3>2
  <2>3. middle \in V
    <3>1. CASE cut = 0
      BY <1>0, <3>1
    <3>2. CASE cut # 0
      <4>1. acts[cut] \in QueueAction
        BY <1>0, <1>4, <3>2
      <4> QED BY <3>2, <4>1 DEF QueueAction, V
    <3> QED BY <3>1, <3>2
  <2> HIDE DEF run, middle
  <2> QED BY <1>2, <2>1, <2>2, <2>3
<1> HIDE DEF run, front, back, middle, later
<1>15. Asked(new) = Asked(r)
  <2>1. ((run \o (sf \o front)) \o middle) \o (back \o sb) = ((run \o sf) \o ((front \o middle) \o back)) \o sb
    <3>1. AllSequences(Commands, run, sf, front, middle, back, sb)
      BY <1>9, <1>14 DEF V, AllSequences
    <3>2. Regrouped(run, sf, front, middle, back, sb)
      BY <3>1, Regroup, Zenon
    <3> QED BY <3>2, Zenon DEF Regrouped
  <2> QED BY <1>5, <1>12, <1>13, <2>1
<1> QED BY <1>15 DEF new, acts, a, rest

(* Nothing left to handle: what is asked for is what is there. *)
LEMMA AskedNone ==
  ASSUME NEW r \in QueueType, r.actions = << >>
  PROVE  Asked(r) = (IF r.done \/ r.current = NoOp THEN << >> ELSE <<r.current>>) \o r.queued
<1> DEFINE none == << >>
<1>1. /\ LastReplace(none) = 0 /\ DOMAIN none = {}
      /\ Carried(none, "front", 0) = << >> /\ Carried(none, "back", 0) = << >>
  BY DEF LastReplace, Carried
<1>2. Stacked(<< >>) = << >> /\ InRow(<< >>) = << >>
  BY JoinsNone
<1>3. PICK c : c = IF r.done \/ r.current = NoOp THEN << >> ELSE <<r.current>>
  OBVIOUS
<1>4. PICK q \in Seq(Commands) : q = r.queued
  BY DEF QueueType
<1>5. c \in Seq(Commands)
  <2>1. r.current \in Variant
    BY DEF QueueType
  <2> QED BY <1>3, <2>1 DEF Variant
<1> HIDE DEF none
<1>6. Asked(r) = ((c \o << >>) \o q) \o << >>
  BY <1>1, <1>2, <1>3, <1>4 DEF Asked, none
<1>7. ((c \o << >>) \o q) \o << >> = c \o q
  BY <1>4, <1>5
<1> QED BY <1>3, <1>4, <1>6, <1>7

-----------------------------------------------------------------------------
(* What was asked for when the frame began: while actions are handled, what *)
(* is there and what is still to handle; from then on, what is there.       *)
Obeys ==
  \A u \in Units :
    /\ pc = "actions" => intent[u] = Asked(queue[u])
    /\ pc \in {"cleanup", "postcleanup", "preupdate", "update", "input"} =>
         intent[u] = Orders(queue[u])

LEMMA ObeysNext == QueueInv /\ Obeys /\ [Next]_vars => Obeys'
<1> SUFFICES ASSUME QueueInv, Obeys, [Next]_vars, NEW u \in Units
             PROVE  /\ pc' = "actions" => intent'[u] = Asked(queue'[u])
                    /\ pc' \in {"cleanup", "postcleanup", "preupdate", "update", "input"} =>
                         intent'[u] = Orders(queue'[u])
  <2>1. (\A v \in Units : /\ pc' = "actions" => intent'[v] = Asked(queue'[v])
                          /\ pc' \in {"cleanup", "postcleanup", "preupdate", "update", "input"} =>
                               intent'[v] = Orders(queue'[v])) => Obeys'
    BY DEF Obeys, Asked, Orders
  <2> QED BY <2>1
<1>0. /\ queue \in [Units -> QueueType] /\ queue[u] \in QueueType
      /\ queue[u].current \in Variant /\ queue[u].queued \in Seq(Commands)
  BY DEF QueueInv, Shape, QueueType
<1>i. /\ pc = "actions" => intent[u] = Asked(queue[u])
      /\ pc \in {"cleanup", "postcleanup", "preupdate", "update", "input"} =>
           intent[u] = Orders(queue[u])
  BY DEF Obeys
<1>1. CASE BeginFrame
  BY <1>1 DEF BeginFrame
<1>2. ASSUME NEW v \in Units, HandleAction(v)
      PROVE  pc' = "actions" /\ intent'[u] = Asked(queue'[u])
  <2> DEFINE r == queue[v]
             new == [Handled(r, Head(r.actions)) EXCEPT !.actions = Tail(r.actions)]
  <2>1. /\ pc = "actions" /\ pc' = "actions" /\ intent' = intent
        /\ r.actions # << >> /\ queue' = [queue EXCEPT ![v] = new]
    BY <1>2 DEF HandleAction
  <2>2. r \in QueueType
    BY <1>0
  <2>3. Asked(new) = Asked(r)
    BY <2>1, <2>2, AskedKept
  <2> HIDE DEF new, r
  <2>4. CASE u = v
    <3>1. queue'[u] = new
      BY <1>0, <2>1, <2>4
    <3> QED BY <1>i, <2>1, <2>3, <2>4, <3>1 DEF r
  <2>5. CASE u # v
    <3>1. queue'[u] = queue[u]
      BY <1>0, <2>1, <2>5
    <3> QED BY <1>i, <2>1, <3>1
  <2> QED BY <2>1, <2>4, <2>5
<1>3. CASE CleanUpCurrent
  <2>1. /\ pc = "actions" /\ pc' = "cleanup" /\ intent' = intent /\ queue[u].actions = << >>
        /\ queue'[u] = [queue[u] EXCEPT !.current = IF Ends(u) THEN NoOp ELSE @, !.done = FALSE]
    BY <1>3 DEF CleanUpCurrent
  <2>2. /\ queue'[u].current = (IF Ends(u) THEN NoOp ELSE queue[u].current)
        /\ queue'[u].queued = queue[u].queued
    BY <1>0, <2>1 DEF QueueType
  <2>3. intent[u] = (IF queue[u].done \/ queue[u].current = NoOp THEN << >> ELSE <<queue[u].current>>)
                    \o queue[u].queued
    BY <1>0, <1>i, <2>1, AskedNone
  <2>4. (IF queue'[u].current = NoOp THEN << >> ELSE <<queue'[u].current>>)
        = IF queue[u].done \/ queue[u].current = NoOp THEN << >> ELSE <<queue[u].current>>
    BY <2>2 DEF Ends
  <2>5. Orders(queue'[u]) = intent[u]
    BY <2>2, <2>3, <2>4, Zenon DEF Orders
  <2> QED BY <2>1, <2>5
<1>4. CASE CleanUp
  BY <1>i, <1>4 DEF CleanUp
<1>5. CASE UpdateCurrent
  <2>1. /\ pc = "postcleanup" /\ pc' = "preupdate" /\ intent' = intent
        /\ queue'[u] = IF Starts(u)
                       THEN [queue[u] EXCEPT !.current = Head(queue[u].queued), !.queued = Tail(@)]
                       ELSE queue[u]
    BY <1>5 DEF UpdateCurrent
  <2>2. CASE Starts(u)
    <3>1. queue[u].current = NoOp /\ queue[u].queued # << >>
      BY <2>2 DEF Starts
    <3>2. PICK q \in Seq(Commands) : q = queue[u].queued /\ q # << >>
      BY <1>0, <3>1
    <3>3. /\ Head(q) # NoOp /\ <<Head(q)>> \o Tail(q) = q /\ << >> \o q = q
      <4>1. Head(q) \in Commands
        BY <3>2
      <4>2. <<Head(q)>> \o Tail(q) = q /\ << >> \o q = q
        BY <3>2
      <4> QED BY <4>1, <4>2, ConstantsAssumption DEF ConstantsAssumption
    <3>4. queue'[u].current = Head(q) /\ queue'[u].queued = Tail(q)
      BY <1>0, <2>1, <2>2, <3>2 DEF QueueType
    <3>5. Orders(queue[u]) = q
      BY <3>1, <3>2, <3>3, Zenon DEF Orders
    <3>6. Orders(queue'[u]) = q
      BY <3>3, <3>4, Zenon DEF Orders
    <3> QED BY <1>i, <2>1, <3>5, <3>6
  <2>3. CASE ~ Starts(u)
    BY <1>i, <2>1, <2>3
  <2> QED BY <2>2, <2>3
<1>6. CASE ApplyPrelayer
  BY <1>i, <1>6 DEF ApplyPrelayer
<1>7. CASE EndUpdate \/ EndFrame \/ UNCHANGED vars
  BY <1>i, <1>7 DEF EndUpdate, EndFrame, vars
<1>8. ASSUME NEW v \in Units, Finish(v) \/ AutoOrder(v) \/ Order(v)
      PROVE  /\ pc' # "actions"
             /\ pc' \in {"cleanup", "postcleanup", "preupdate", "update", "input"} =>
                  intent'[u] = Orders(queue'[u])
  <2>1. pc \in {"update", "input"} /\ pc' = pc
    BY <1>8, ActsQueued
  <2>2. intent' = intent
    BY <1>8 DEF Finish, AutoOrder, Order
  <2>3. PICK acts \in Seq(QueueAction) : Queue(v, acts)
    BY <1>8, ActsQueued
  <2>4. queue'[u].current = queue[u].current /\ queue'[u].queued = queue[u].queued
    <3> DEFINE more == [queue[v] EXCEPT !.actions = @ \o acts]
    <3>1. queue[v] \in QueueType
      BY <1>0, <1>8
    <3>2. more.current = queue[v].current /\ more.queued = queue[v].queued
      BY <3>1, ActionsQueued
    <3>3. queue' = [queue EXCEPT ![v] = more]
      BY <1>0, <1>8, <2>3 DEF Queue
    <3> HIDE DEF more
    <3> QED BY <1>0, <1>8, <3>2, <3>3
  <2> QED BY <1>i, <2>1, <2>2, <2>4 DEF Orders
<1>9. CASE Rewind
  BY <1>9 DEF Rewind
<1> QED BY <1>1, <1>2, <1>3, <1>4, <1>5, <1>6, <1>7, <1>8, <1>9 DEF Next, FrameStep

(* unstack_input, handle_action, clean_up_current, update_current: however  *)
(* many actions were queued on a unit and in whatever order, it runs and    *)
(* waits for what they ask for as a whole.                                  *)
THEOREM OrdersObeyedHolds == Spec => []OrdersObeyed
<1>1. Init => Obeys
  BY DEF Init, Obeys
<1>2. Obeys => OrdersObeyed
  BY DEF Obeys, OrdersObeyed
<1> QED BY <1>1, <1>2, ObeysNext, QueueInvHolds, PTL DEF Spec
=============================================================================
