---------------------------- MODULE CommandQueue ----------------------------
(***************************************************************************)
(* The command queues of octopus over the phases of a frame.  A unit runs  *)
(* one command at a time: its queue decides which (CommandQueue.hh,        *)
(* CommandQueueSystems.hh), the pair (state, kind) on the entity tells the *)
(* systems of that kind to run it, and the pair (cleanup, kind) makes them *)
(* clean up after it.  Command systems and players act on a queue only     *)
(* through its queued actions, which the next frame applies.  A frame can  *)
(* be undone from the mementos of the queues and the state steps of the    *)
(* prelayer (StateChangeSteps.hh, StepReversal.hh).                        *)
(*                                                                         *)
(* Each system visits every unit before the next system runs, and no unit  *)
(* reads another's queue, so a system is one action on all the units; the  *)
(* queued actions are applied one by one.                                  *)
(***************************************************************************)
EXTENDS Naturals, QueueActions

CONSTANTS Units,
          Commands,     \* the orders a unit can run (MoveCommand to p, ...)
          Kinds,        \* their types: the alternatives of variant_t
          KindOf,       \* KindOf[c]: the alternative c holds
          AutoCommands, \* what the systems of idle units may queue in front
          NoOp,         \* NoOpCommand: its only value, and its kind
          None,         \* no pair, no component, no step
          Kept,         \* step_kept_p
          MaxQueue,     \* bound: orders waiting or being given, per unit
          MaxFrames     \* bound: frames that can be undone, if Kept is 0

Variant == Commands \union {NoOp}

QueueAction == [do : {"done", "replace", "front", "back"}, cmds : Seq(Commands)]
QueueType == [current : Variant, queued : Seq(Commands), done : BOOLEAN,
              actions : Seq(QueueAction)]

ASSUME ConstantsAssumption ==
  /\ KindOf \in [Variant -> Kinds \union {NoOp}]
  /\ \A c \in Variant : KindOf[c] = NoOp <=> c = NoOp
  /\ AutoCommands \subseteq Commands
  /\ None \notin Variant \union Kinds /\ NoOp \notin Kinds \union Commands
  /\ None \notin QueueType
  /\ Kept \in Nat /\ MaxFrames \in Nat

VARIABLES queue,     \* queue[u]: the CommandQueue of u
          state,     \* state[u]: the kind paired with u's state, or None
          cleanup,   \* cleanup[u]: the kind paired with u's cleanup, or None
          comp,      \* comp[u][k]: u's component of kind k, or None
          mementos,  \* lMementos: per frame, the memento of each queue
          prelayers, \* per frame, the state steps of each unit
          pc,        \* the phase to run next; idle between frames
          open,      \* history: the command of u begun and not cleaned up
          starts,    \* history: the units when each of the frames began
          intent     \* history: what u should run, in order, in this frame

world == <<queue, state, cleanup, comp>>
vars == <<queue, state, cleanup, comp, mementos, prelayers, pc, open, starts, intent>>

(* What StateStepLayer holds for one unit in one frame: the pair to remove, *)
(* the pair to add, the component to set and the value it replaces.         *)
NoSteps == [remove |-> None, add |-> None, new |-> None, old |-> None]

DropFirst(seq) == IF Kept # 0 /\ Len(seq) > Kept THEN Tail(seq) ELSE seq

(* The last layer of a list of layers gets value e at unit u. *)
SetLast(seq, u, e) == [seq EXCEPT ![Len(seq)][u] = e]

-----------------------------------------------------------------------------
(* What the queued actions ask for, read off the whole list at once: the   *)
(* commands of the last Replace (or those waiting), behind the later       *)
(* AddFronts, before the later AddBacks, and all that behind a current     *)
(* command that nothing ends.                                              *)
LastReplace(acts) ==
  IF \E i \in DOMAIN acts : acts[i].do = "replace"
  THEN CHOOSE i \in DOMAIN acts : /\ acts[i].do = "replace"
                                  /\ \A j \in DOMAIN acts : j > i => acts[j].do # "replace"
  ELSE 0

(* What the actions of one sort that come after number cut carry. *)
Carried(acts, d, cut) ==
  [i \in 1..Len(acts) |-> IF i > cut /\ acts[i].do = d THEN acts[i].cmds ELSE << >>]

(* Sequences in a row, the first one in front or the last one in front. *)
InRow(seqs) ==
  LET row[i \in 0..Len(seqs)] == IF i = 0 THEN << >> ELSE row[i - 1] \o seqs[i]
  IN row[Len(seqs)]
Stacked(seqs) ==
  LET stack[i \in 0..Len(seqs)] == IF i = 0 THEN << >> ELSE seqs[i] \o stack[i - 1]
  IN stack[Len(seqs)]

Asked(r) ==
  LET acts == r.actions
      cut == LastReplace(acts)
      ended == r.done \/ \E i \in DOMAIN acts : acts[i].do = "done"
  IN (IF ended \/ r.current = NoOp THEN << >> ELSE <<r.current>>)
     \o Stacked(Carried(acts, "front", cut))
     \o (IF cut = 0 THEN r.queued ELSE acts[cut].cmds)
     \o InRow(Carried(acts, "back", cut))

Orders(r) == (IF r.current = NoOp THEN << >> ELSE <<r.current>>) \o r.queued

-----------------------------------------------------------------------------
(* Units are created idle and without a state pair; some already have the  *)
(* component of a kind.                                                    *)
Init ==
  /\ queue = [u \in Units |-> [current |-> NoOp, queued |-> << >>,
                               done |-> FALSE, actions |-> << >>]]
  /\ state = [u \in Units |-> None]
  /\ cleanup = [u \in Units |-> None]
  /\ comp \in [Units -> {[k \in Kinds \union {NoOp} |-> None]} \union
                        {[k \in Kinds \union {NoOp} |-> IF k = KindOf[c] THEN c ELSE None] :
                           c \in AutoCommands}]
  /\ mementos = << >> /\ prelayers = << >>
  /\ pc = "idle"
  /\ open = [u \in Units |-> NoOp]
  /\ starts = << >>
  /\ intent = [u \in Units |-> << >>]

(* Altered BeginFrame: the mementos are never dropped. *)
BeginFrameKeepsMementos ==
  /\ pc = "idle" /\ Len(mementos) < Kept + 2
  /\ mementos' = Append(mementos, [u \in Units |-> None])
  /\ prelayers' = DropFirst(Append(prelayers, [u \in Units |-> NoSteps]))
  /\ starts' = DropFirst(Append(starts, [world |-> world, open |-> open]))
  /\ intent' = [u \in Units |-> Asked(queue[u])]
  /\ pc' = "actions"
  /\ UNCHANGED <<queue, state, cleanup, comp, open>>

(* InitializationPhase: CommandQueueMementoSetup and the new prelayer. *)
BeginFrame ==
  /\ pc = "idle" /\ (Kept # 0 \/ Len(mementos) < MaxFrames)
  /\ mementos' = DropFirst(Append(mementos, [u \in Units |-> None]))
  /\ prelayers' = DropFirst(Append(prelayers, [u \in Units |-> NoSteps]))
  /\ starts' = DropFirst(Append(starts, [world |-> world, open |-> open]))
  /\ intent' = [u \in Units |-> Asked(queue[u])]
  /\ pc' = "actions"
  /\ UNCHANGED <<queue, state, cleanup, comp, open>>

(* Altered HandleAction: the memento is taken once the action is handled. *)
HandleActionFirst(u) ==
  /\ pc = "actions" /\ queue[u].actions # << >>
  /\ queue' = [queue EXCEPT ![u] =
                 [Handled(@, Head(@.actions)) EXCEPT !.actions = Tail(queue[u].actions)]]
  /\ mementos' = IF mementos[Len(mementos)][u] = None
                 THEN SetLast(mementos, u, queue'[u]) ELSE mementos
  /\ UNCHANGED <<state, cleanup, comp, prelayers, pc, open, starts, intent>>

(* PrepingUpdatePhase, first system: the memento of a queue that has       *)
(* actions is taken before the first of them, then they are handled in the *)
(* order they were queued, and cleared.                                    *)
HandleAction(u) ==
  /\ pc = "actions" /\ queue[u].actions # << >>
  /\ mementos' = IF mementos[Len(mementos)][u] = None
                 THEN SetLast(mementos, u, queue[u]) ELSE mementos
  /\ queue' = [queue EXCEPT ![u] =
                 [Handled(@, Head(@.actions)) EXCEPT !.actions = Tail(queue[u].actions)]]
  /\ UNCHANGED <<state, cleanup, comp, prelayers, pc, open, starts, intent>>

Ends(u) == queue[u].done /\ queue[u].current # NoOp

(* Altered clean_up_current: the current command is reset before its kind  *)
(* is read for the clean up.                                               *)
CleanUpCurrentLate ==
  /\ pc = "actions" /\ \A u \in Units : queue[u].actions = << >>
  /\ prelayers' = [prelayers EXCEPT ![Len(prelayers)] =
       [u \in Units |->
          IF Ends(u) THEN [@[u] EXCEPT !.remove = KindOf[queue[u].current]] ELSE @[u]]]
  /\ queue' = [u \in Units |-> [queue[u] EXCEPT !.current = IF Ends(u) THEN NoOp ELSE @,
                                                !.done = FALSE]]
  /\ cleanup' = [u \in Units |-> IF Ends(u) THEN KindOf[queue'[u].current] ELSE cleanup[u]]
  /\ pc' = "cleanup"
  /\ UNCHANGED <<state, comp, mementos, open, starts, intent>>

(* PrepingUpdatePhase, second system: clean_up_current. *)
CleanUpCurrent ==
  /\ pc = "actions" /\ \A u \in Units : queue[u].actions = << >>
  /\ prelayers' = [prelayers EXCEPT ![Len(prelayers)] =
       [u \in Units |->
          IF Ends(u) THEN [@[u] EXCEPT !.remove = KindOf[queue[u].current]] ELSE @[u]]]
  /\ cleanup' = [u \in Units |-> IF Ends(u) THEN KindOf[queue[u].current] ELSE cleanup[u]]
  /\ queue' = [u \in Units |-> [queue[u] EXCEPT !.current = IF Ends(u) THEN NoOp ELSE @,
                                                !.done = FALSE]]
  /\ pc' = "cleanup"
  /\ UNCHANGED <<state, comp, mementos, open, starts, intent>>

(* CleanUpPhase: the systems of each kind run on the units whose cleanup    *)
(* pair and component are of that kind (set_up_move_system and the others). *)
CleanUp ==
  /\ pc = "cleanup"
  /\ open' = [u \in Units |->
       IF cleanup[u] # None /\ KindOf[open[u]] = cleanup[u] /\ comp[u][cleanup[u]] # None
       THEN NoOp ELSE open[u]]
  /\ pc' = "postcleanup"
  /\ UNCHANGED <<queue, state, cleanup, comp, mementos, prelayers, starts, intent>>

Starts(u) == queue[u].current = NoOp /\ queue[u].queued # << >>

(* PostCleanUpPhase: update_current and update_comp. *)
UpdateCurrent ==
  /\ pc = "postcleanup"
  /\ cleanup' = [u \in Units |-> None]
  /\ queue' = [u \in Units |->
       IF Starts(u) THEN [queue[u] EXCEPT !.current = Head(queue[u].queued), !.queued = Tail(@)]
       ELSE queue[u]]
  /\ prelayers' = [prelayers EXCEPT ![Len(prelayers)] =
       [u \in Units |->
          IF queue[u].current # NoOp THEN @[u]
          ELSE IF queue[u].queued = << >> THEN [@[u] EXCEPT !.add = NoOp]
          ELSE LET c == Head(queue[u].queued)
                   before == comp[u][KindOf[c]]
               IN [@[u] EXCEPT !.add = KindOf[c], !.new = c,
                               !.old = IF before = None THEN NoOp ELSE before]]]
  /\ open' = [u \in Units |->
       IF Starts(u) /\ open[u] = NoOp THEN Head(queue[u].queued) ELSE open[u]]
  /\ pc' = "preupdate"
  /\ UNCHANGED <<state, comp, mementos, starts, intent>>

(* Altered StateStepLayer::apply: the pairs are added, then removed. *)
ApplyPrelayerAddFirst ==
  LET last == prelayers[Len(prelayers)]
  IN /\ pc = "preupdate"
     /\ state' = [u \in Units |-> IF last[u].remove # None THEN NoOp
                                  ELSE IF last[u].add # None THEN last[u].add ELSE state[u]]
     /\ comp' = [u \in Units |-> IF last[u].new # None
                                 THEN [comp[u] EXCEPT ![KindOf[last[u].new]] = last[u].new]
                                 ELSE comp[u]]
     /\ pc' = "update"
     /\ UNCHANGED <<queue, cleanup, mementos, prelayers, open, starts, intent>>

(* PreUpdatePhase: StateStepLayer::apply.  The state relation is exclusive, *)
(* and a removed pair is replaced by that of NoOpCommand.                   *)
ApplyPrelayer ==
  LET last == prelayers[Len(prelayers)]
  IN /\ pc = "preupdate"
     /\ state' = [u \in Units |-> IF last[u].add # None THEN last[u].add
                                  ELSE IF last[u].remove # None THEN NoOp ELSE state[u]]
     /\ comp' = [u \in Units |-> IF last[u].new # None
                                 THEN [comp[u] EXCEPT ![KindOf[last[u].new]] = last[u].new]
                                 ELSE comp[u]]
     /\ pc' = "update"
     /\ UNCHANGED <<queue, cleanup, mementos, prelayers, open, starts, intent>>

HasRoom(u) ==
  LET orders == SelectSeq(queue[u].actions, LAMBDA a : a # Done)
  IN Len(queue[u].queued) + Len(orders) < MaxQueue

Queue(u, acts) == queue' = [queue EXCEPT ![u].actions = @ \o acts]

(* PostUpdatePhase: a command system, run once on every unit whose state    *)
(* pair and component are of its kind, finds its command finished (the move *)
(* arrived, the target is dead, the spell is cast).                         *)
Finish(u) ==
  /\ pc = "update" /\ queue[u].actions = << >>
  /\ state[u] \in Kinds /\ comp[u][state[u]] # None
  /\ Queue(u, <<Done>>)
  /\ UNCHANGED <<state, cleanup, comp, mementos, prelayers, pc, open, starts, intent>>

(* Altered AutoOrder: units that are busy look for targets too. *)
AutoOrderWhileBusy(u) ==
  /\ pc = "update" /\ HasRoom(u) /\ queue[u].actions = << >>
  /\ \E c \in AutoCommands : comp[u][KindOf[c]] # None /\ Queue(u, <<Front(c)>>)
  /\ UNCHANGED <<state, cleanup, comp, mementos, prelayers, pc, open, starts, intent>>

(* PostUpdatePhase: an idle unit with the component finds a target. *)
AutoOrder(u) ==
  /\ pc = "update" /\ HasRoom(u) /\ queue[u].actions = << >>
  /\ state[u] = NoOp
  /\ \E c \in AutoCommands : comp[u][KindOf[c]] # None /\ Queue(u, <<Front(c)>>)
  /\ UNCHANGED <<state, cleanup, comp, mementos, prelayers, pc, open, starts, intent>>

EndUpdate ==
  /\ pc = "update" /\ pc' = "input"
  /\ UNCHANGED <<queue, state, cleanup, comp, mementos, prelayers, open, starts, intent>>

(* InputPhase: unstack_input turns the orders of players into actions. *)
Order(u) ==
  /\ pc = "input" /\ HasRoom(u)
  /\ \E c \in Commands :
       \/ Queue(u, <<Replace(<< >>), Done>>)    \* stop
       \/ Queue(u, <<Replace(<<c>>), Done>>)    \* front
       \/ Queue(u, <<Back(c)>>)
  /\ UNCHANGED <<state, cleanup, comp, mementos, prelayers, pc, open, starts, intent>>

EndFrame ==
  /\ pc = "input" /\ pc' = "idle"
  /\ UNCHANGED <<queue, state, cleanup, comp, mementos, prelayers, open, starts, intent>>

(* restore, once the queued actions of every queue are cleared. *)
Restored(u) ==
  LET saved == mementos[Len(mementos)][u]
  IN IF saved = None THEN [queue[u] EXCEPT !.actions = << >>] ELSE saved

(* Altered StateStepLayer::revert: the pair removed is given back first. *)
RemovedFirst(u) ==
  LET steps == prelayers[Len(prelayers)][u]
  IN IF steps.add # None THEN NoOp
     ELSE IF steps.remove # None THEN steps.remove ELSE state[u]

(* StateStepLayer::revert: the steps that set, add and remove are undone, *)
(* in that order.                                                         *)
RevertedState(u) ==
  LET steps == prelayers[Len(prelayers)][u]
  IN IF steps.remove # None THEN steps.remove
     ELSE IF steps.add # None THEN NoOp ELSE state[u]
RevertedComp(u) ==
  LET steps == prelayers[Len(prelayers)][u]
  IN IF steps.new = None THEN comp[u]
     ELSE [comp[u] EXCEPT ![KindOf[steps.old]] = steps.old]

(* revert_n_steps and clear_n_steps of one frame. *)
Rewind ==
  /\ pc = "idle" /\ mementos # << >>
  /\ queue' = [u \in Units |-> Restored(u)]
  /\ state' = [u \in Units |-> RevertedState(u)]
  /\ comp' = [u \in Units |-> RevertedComp(u)]
  /\ mementos' = SubSeq(mementos, 1, Len(mementos) - 1)
  /\ prelayers' = SubSeq(prelayers, 1, Len(prelayers) - 1)
  /\ starts' = SubSeq(starts, 1, Len(starts) - 1)
  /\ open' = starts[Len(starts)].open
  /\ UNCHANGED <<cleanup, pc, intent>>

FrameStep == \/ BeginFrame \/ (\E u \in Units : HandleAction(u))
             \/ CleanUpCurrent \/ CleanUp \/ UpdateCurrent \/ ApplyPrelayer
             \/ EndUpdate \/ EndFrame

Next == \/ FrameStep
        \/ \E u \in Units : Finish(u) \/ AutoOrder(u) \/ Order(u)
        \/ Rewind

Spec == Init /\ [][Next]_vars

(* Frames go on, as the driver of the simulation calls progress, and every *)
(* command that runs finishes at last: moves arrive, targets die, spells   *)
(* are cast.  Nobody rewinds.                                              *)
PlaySpec ==
  /\ Init /\ [][Next /\ ~ Rewind]_vars
  /\ WF_vars(FrameStep)
  /\ \A u \in Units : SF_vars(Finish(u))

-----------------------------------------------------------------------------
(* The engine's data keep their shape. *)
TypeOK ==
  /\ queue \in [Units -> QueueType]
  /\ state \in [Units -> Kinds \union {NoOp, None}]
  /\ cleanup \in [Units -> Kinds \union {None}]
  /\ comp \in [Units -> [Kinds \union {NoOp} -> Variant \union {None}]]
  /\ mementos \in Seq([Units -> QueueType \union {None}])
  /\ prelayers \in Seq([Units -> [remove : Kinds \union {None},
                                  add : Kinds \union {NoOp, None},
                                  new : Variant \union {None},
                                  old : Variant \union {None}]])
  /\ pc \in {"idle", "actions", "cleanup", "postcleanup", "preupdate", "update", "input"}
  /\ open \in [Units -> Variant]
  /\ Len(prelayers) = Len(mementos) /\ Len(starts) = Len(mementos)

(* A unit without a pair is as idle as one paired with NoOpCommand. *)
Running(pairs, u) == IF pairs[u] = None THEN NoOp ELSE pairs[u]

(* CommandQueue and its entity agree while command systems run and between *)
(* frames, through rewinds too: the state pair is that of the current      *)
(* command, and the component of that kind is that command.                *)
StateMirrorsQueue ==
  pc \in {"update", "input", "idle"} => \A u \in Units :
    LET c == queue[u].current
    IN Running(state, u) = KindOf[c] /\ (c # NoOp => comp[u][KindOf[c]] = c)

(* clean_up_current, the clean up systems and update_current: no command   *)
(* begins on a unit before the one it ran is cleaned up, and nothing is    *)
(* cleaned up that still runs.                                             *)
CleanedUpBeforeNext ==
  pc \in {"preupdate", "update", "input", "idle"} =>
    \A u \in Units : open[u] = queue[u].current

(* unstack_input, handle_action, update_current: at the end of the frame    *)
(* that handles them, a unit runs and waits for what the actions ask for as *)
(* a whole, in that order.  A stop leaves nothing, a front order only       *)
(* itself and what was ordered after it.                                    *)
OrdersObeyed ==
  pc \in {"preupdate", "update", "input"} =>
    \A u \in Units : Orders(queue[u]) = intent[u]

(* revert_n_steps(1): the queues, the state pairs, and the components that *)
(* were there, are again what they were when the undone frame began.       *)
RewindRestores ==
  [][Rewind => LET before == starts[Len(starts)].world
               IN /\ queue' = before[1] /\ cleanup' = before[3]
                  /\ \A u \in Units : Running(state', u) = Running(before[2], u)
                  /\ \A u \in Units, k \in Kinds :
                       before[4][u][k] # None => comp'[u][k] = before[4][u][k]]_vars

(* The same for all components: those a command brought are gone again. *)
RewindRemovesComponents ==
  [][Rewind => \A u \in Units, k \in Kinds :
       comp'[u][k] = starts[Len(starts)].world[4][u][k]]_vars

(* Every order that waits in a queue is run or replaced in the end. *)
OrdersServed ==
  \A u \in Units : \A c \in Commands :
    (\E i \in DOMAIN queue[u].queued : queue[u].queued[i] = c) ~>
      (queue[u].current = c \/ \A i \in DOMAIN queue[u].queued : queue[u].queued[i] # c)
=============================================================================
