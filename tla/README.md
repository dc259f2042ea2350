# A verification project for octopus

Octopus (`src/src/octopus`) is the simulation core of a real-time strategy
engine on the entity-component system flecs.  Every call of `progress` runs one
*frame*: a chain of phases whose systems read components and write, instead of
changing them, *steps*.  The steps of a frame are applied by a pool of threads,
with a memento of what each of them replaced, and kept in layers, so that the
last frames can be undone (`revert_n_steps`, `clear_n_steps`) and played again.

This directory holds TLA+ models of that machinery, the configurations that
check them with TLC, and proofs checked by TLAPS.

## Inventory

| Component | State | Operations | Hard part |
|---|---|---|---|
| Step history (`StepContext.hh`, `StepSystems.hh`, `StepReversal.hh`, `Step.hh`) | five lists of layers of steps with mementos, the list of command mementos | add a layer, apply, revert n, clear n, drop the oldest | order of undoing, retention, lists of different lengths |
| Command queue (`CommandQueue.hh`, `CommandQueueSystems.hh`, `StateChangeSteps.hh`) | per unit: current, queued, done, queued actions; the state and cleanup pairs; the command components | handle actions, clean up, begin the next, apply and revert state steps, restore | actions of players and of command systems in the same frame, clean up before the next, rewinds |
| Thread pool (`ThreadPool.cc`, `StepContainer.hh`) | job queue, counter, condition variables, the stack frame of a call | ThreadLoop, queueJob, enqueue_and_wait, stop | lost wake-ups, lifetime of what the jobs refer to, barrier between containers |
| Input (`Input.hh`, `Input*.hh`) | double-buffered layers of inputs, filled from other threads | stack, unstack | two critical sections, order of containers |
| Production and resources (`ProductionSystem.hh`, `InputProduction*.hh`, `ResourceStock.*`) | queue of a producer, stock, amounts locked in the frame | order, cancel, produce, destroy | checks on values the frame has yet to change, indices that shift |
| Attack (`AttackCommandSystem.hh`, `Attack.*`) | windup, reload, target | look for a target, wind up, strike, retarget, clean up | windup and flags written from several lists, stale targets |
| Cast (`CastCommand.hh`, `Caster.*`) | windup, last casts | check, wind up, cast | stale checks, resources |
| Hit points and destruction (`HitPointsSystems.hh`) | hit points, destruction time | damage, clamp, destroy, destruct | events sent twice, destruction inside the rewind window |
| Projectiles (`ProjectileSystem.hh`) | the strikes on their way | create, move, hurt | a strike counts once, by the one way or the other |
| Positions (`PositionSystems.hh`, `aabb_tree.hh`) | bounding-box tree, leaf of each entity | insert, move, remove, query | tree kept outside the steps |
| Path finding (`PathFindingCache.*`) | requests, next tile per destination, revision | query, compute, synchronise | stale tables, bounded work per frame |
| Buffs (`BuffComponentStep.hh`, `PlayerBuffSystems.hh`) | start, duration, applied or not | apply, expire, revert | expiry by equality |
| Frame (`Systems.cc`, `Phases.hh`) | the chain of phases, paused or not | pause, resume | retention while paused |

Components interact through the frame: the systems of one phase read what the
steps of the phases before wrote; command systems and players reach a queue
only by the actions they queue on it; the queue reaches the command systems
only by the state and cleanup pairs; everything reaches the world through the
step history, whose containers the thread pool applies.  `PROJECT.json` lists
all the parts, the ones that are not modelled too, and the hazards of each.

## Modules

**StepHistory** (abstract specification: **Timeline**; proofs:
**StepHistoryProofs**; instances: **MCStepHistory**).  The world is a value per
*slot*, a slot being a field of a component of an entity.  `layers[f][k]` is
the layer of frame `f` in list `k`; the five lists are in the order in which a
frame applies them: presteps, state prelayers, steps, state layers, component
steps.  `AddLayer` is the work of the initialization phase (a new layer
everywhere, the oldest dropped), `ApplyStep` one step of a system, `NextStore`
the passage from a list to the next.  `RevertNSteps` begins `revert_n_steps`,
`UndoStep`, `PreviousLayer` and `PreviousStore` are its loops, `ClearNSteps` is
`clear_n_steps`, which the callers run right after.  The contents of the
mementos of the command queues are in CommandQueue; here only their number
matters, because their list starts empty while the others start with one layer.
`start` is a history variable: the world when each frame began.

**CommandQueue** (instances: **MCCommandQueue**; proofs:
**CommandQueueProofs**). One action per system, in the order of the phases,
each on all the units (a system visits every unit before the next one runs, and
no unit reads another's queue); the queued actions of a unit are handled one by
one. A command system appears as what it does to a queue: `Finish` queues Done,
`AutoOrder` is the system of idle units that queues an attack in front. `Order`
is what `unstack_input` makes of a player's order. `Rewind` is `revert_n_steps`
and `clear_n_steps` for one frame. Three history variables: `open` is the
command a unit has begun and not cleaned up, `intent` what the actions of the
frame ask for as a whole, `starts` the units when each frame began.  `Asked` says
what that is without handling the actions one by one: the fronts and backs after
the last replacement, around what it put there.

**ThreadPool** (abstract specification: **BatchBarrier**; proofs:
**ThreadPoolProofs**).  The workers of
`ThreadLoop`, the simulation thread in `enqueue_and_wait`, called `Rounds`
times with `NbJobs` jobs as `dispatch_apply` and `dispatch_revert` do, then the
destructor of the pool.  A critical section that waits for nothing is one
action.  The mutex of a call, which lives on its stack with the counter and the
condition variable, is a variable, since the notification is sent under it.
Condition variables may wake for nothing.

**Production** (instances: **MCProduction**; proofs: **ProductionProofs**).
One player: the queue of each producer, the stock, and what the frame has spent.
The phases of a frame are values of `pc`: destruction with the observer that
cancels the whole queue one index at a time (`Destroy`, `CancelOfDestroyed`),
the production system over all producers (`ProductionSystem`), then the three
kinds of inputs in the order of `unstack_input` (`AddProduction`,
`CancelProduction`, `NewProduction`), then the steps: the operations on each
queue in order (`ApplyOperations`), timestamps and stock (`EndFrame`).
`Cost` is what is taken for a production after reductions, `Price` what
`resource_consumption` says, which is what a cancellation gives back.
`handle_new_production` chooses the producer with the shortest queue; here it is
any that can produce.  A start timestamp is kept as its age in frames, and
`early` says that the time stamp is 0, at which a started production does not
count as started.  History variables: `since`, the frames for which the first
production of a queue could have advanced; `made`, the cost of what was
produced; `clashed`, whether two removals came for one queue in one frame.

**PathCache** (instances: **MCPathCache**; proofs: **PathCacheProofs**).  A frame is `Sync`, the requests one
by one (`SkipRequest`, `ComputeRequest`, `EndCompute`), then the moves, in which
units query and the user of the engine may change the grid.  The two systems are
in one phase; as in the test of the cache, the grid is synchronised first.
`ComputePath` is the whole of A*, with the order in which tiles are expanded and
the rule that a tile of the table has only the next one for neighbour, and
`LosCheck` the ray cast, in lengths that keep the centers of tiles integers; how
far along the line a column begins is rounded down, as fixed-point division does,
to a part of `One` (10000 in the code).
The reference definitions are `LeastCost`, a relaxation over the whole grid, and
`Crossed`, which tells by the corners of a tile whether a line crosses it.  Loops
over the labels of a search, the tiles of a walk and the rounds of the relaxation
are recursive functions of a number of turns, at most one per tile.  Only
positions, which are tiles here, and what a unit does with the direction are
left out.

**QueueActions** and **Stamps** hold what several modules share: the actions of
a queue with `handle_action`, and time stamps kept as ages.

**Battle** (parts: **Attacking**, **Casting**; proofs: **BattleProofs**;
instances: **MCBattle**).  Units whose command queues, attacks, casts, hit
points, deaths and projectiles interact over the phases of a frame.  Attacking
and Casting hold the components of the two commands and say, as operators, what
their systems leave for one unit: steps and queued actions.  `Idle`, `Lost`,
`WindingUp`, `Approach` and `Ready` are the branches of the attack system in the
order of the code, `CanCast` and `Cast` the cast system, whose windup is tested
last.  Battle puts them into the frame.  `BeginFrame` is everything up to and
including Update: queued actions, clean ups, the next commands, the prelayers,
and the destruction of who has no hit points.  `RunCommands` is PostUpdate,
`Order` the input phase, `EndFrame` strikes and projectiles (EndUpdate), the steps
of the layer, the validators and the removal of triggers.  No system of a phase
reads what another of it writes, so a phase is one action on all units.  Steps of
one list may be applied by several threads: `Inits` keeps both outcomes for the
flag `init`, which a clean up and an idle system can write in the same frame.
Where units walk is left out: between two frames the distance of two enemies
changes by one at most, whatever they were told.  History variables: `aim`, the
target a windup began for; `since`, the frames since a unit struck; `begun`, the
frames since its current command prepared a cast; `dropped`, the casters whose
windup is that of an earlier command; `taken`, the damage sent to each unit.
An attack that a unit queues for itself when idle can be retargeted like one that
is ordered: nothing in the repository sets `forced_target`, which would prevent it.
The proofs hold for both.

**CollisionTree** (algorithm: **AabbTree**; abstract specification:
**SpatialIndex**; instances: **MCCollisionTree**; proofs:
**CollisionTreeProofs**).  AabbTree is the whole tree of `aabb_tree.hh`, node by
node: the free list, the choice of the best sibling with its bounds, insertion,
removal, the way back up, and the queries.  A query keeps the nodes it has still to
look at on a stack of `StackSize` places, 1024 in the code; the place of a node on
it does not depend on what else is met (`Pushed`), and the children of a node for
which there is no room are dropped, as a release build does without a word and a
debug build with a failed assertion.  Nothing keeps the tree low, since
`rotate_nodes` has no effect; `Fits` says that it is lower than the stack is deep.
The loops (the way up, the descent to
the best sibling, the walk of a query) are recursive functions of a number of
turns, as many as there are nodes; that these are enough is part of what is
proved.
CollisionTree is what the engine does with it in a frame: `UpdateTree` is the
position system, entity by entity, `Destroy` the observer of the event
Destroyed, `EndFrame` the steps with which entities move and learn the index of
their leaf, `Rewind` a frame undone, which gives positions and indices back but
does not touch the tree.  `stray` (history) is the set of leaves that no entity
knows of any more.

In every module a definition that begins with "Altered" is a variant of the
operation it precedes, with a bug such as that code could have.  It is not part
of the specification: `PROJECT.json` says which property fails with it.

## What the runs check

| Run | Instance | Result |
|---|---|---|
| `rewind_many` | slots each written from one list, four frames, two kept, up to three undone at once | the shape of the data, `RevertRestores`, `SanityCheck`, `RetentionBound` and the implementation of Timeline hold |
| `rewind_two` | the four kinds of slots as the engine writes them, some from two lists; two frames of two steps, undone at once | `RevertRestores` is violated |
| `queue_orders` | a unit, two moves and an attack, two orders at most in the queue and being given, one frame kept, nobody rewinds | `StateMirrorsQueue`, `CleanedUpBeforeNext`, `OrdersObeyed` and `OrdersServed` hold |
| `queue_rewinds` | a unit, a move and an attack, two frames kept | `StateMirrorsQueue`, `CleanedUpBeforeNext`, `OrdersObeyed` and `RewindRestores` hold whenever frames are undone and played again |
| `queue_components` | the same, one frame kept | `RewindRemovesComponents` is violated |
| `production` | a barracks and a tower, a unit of cost 1 that takes a frame and an upgrade of cost 2 that takes three, a stock of 3, at most two productions in a queue and two operations on it in a frame, the stock never above 4 | `NoOverspend`, `Conserved`, `OnTime` and `FullDuration` hold |
| `production_clash` | the same | `GivenBackOnce` is violated |
| `paths` | fifteen tiles in rows of five, a block that grows once into a wall with a gap, three units to one tile, one to another, one that is where it wants to be; one path computed per frame, two requests in the list | `TablesLead`, `PathsAreBest`, `SightIsClear` and `Answered` hold |
| `paths_beside` | nine tiles, a wall that moves once, three units to one tile | `NextIsBeside` is violated |
| `battle` | a knight or archer (windup 1, reload 2) against a mage, who casts (windup 1, cooldown 3, a cost that a stock of 2 pays twice), and the mage's servant; one hit point each, distances 0 and 1, one order waiting at a time, two projectiles at most | `StrikesSpaced`, `StrikesAimed`, `CastsSound`, `DamageDealt`, `WindupsEnd` and `CastsEnd` hold |
| `tree` | two units that walk over five spots, a larger building that can be destroyed and one that can be built, ranges of 1 to 5, a stack of four places, one frame undone | `WellFormed`, `QueriesComplete`, `OneLeafEach` and the implementation of SpatialIndex hold |
| `pool` | three workers, two calls of four jobs | `CallOutlivesItsJobs`, `BusyWhileWorking`, `BarrierSpec`, `PoolStops` hold |

**Why the bounds are enough.**  A slot needs two steps in a frame for the order
within a layer to matter, and two frames with two lists for the order between
layers and lists; retention needs one more frame than is kept, and as many
frames undone at once as there are layers.  A unit never reads or writes
another's queue, so one unit shows all a unit can do; two waiting orders are
enough for the front and the back of a queue to differ, a third command tells
the orders apart, and two kept frames let a rewind follow a rewind.  In the
pool, more jobs than workers make a worker take a second job and a job wait in
the queue, as in the engine, where there are more types of steps than the
twelve threads of `WorldContext`; three workers let one wait, one run and one
be between its job and the next; the second call shows what a late worker does
to the next stack frame.  Producers share nothing but the stock, so two of them
are enough to compete for it; the upgrade costs more than what a unit leaves of
two upgrades' worth, so that orders are refused; a queue of two lets one
production wait, and two operations of a frame on one queue can clash.  `MaxStock`
only keeps repeated refunds finite.  A block makes the way around differ from the
straight line, the wall it grows to makes the first paths wrong, and units that
come from three rows to one destination behind it make searches meet old entries
in the middle of a way around.  The first column of the grid is built on, so that
no way leads past the end of a row, each table is one of single steps and
`PathsAreBest` speaks of all of them; an old entry followed at the wrong cost is
found at once.  Columns are three apart at most there, so that the twelfths of a
line are rounded.  With one path per frame and two requests, requests wait for
each other.

In `battle`, a strike kills: targets die in the middle of a windup, and attackers
in the middle of theirs.  The reload is longer than the windup, so that a unit
can have its next windup wait or not; the knight can lose its target to the
servant, and have it come back; the shooters are any of the attackers, chosen at
the start; and `MaxQueue` lets a player order a unit in a frame in which its
command ends.  `LongestWindup` and the reload are where ages stop to be compared
with anything.  In `tree`, four entities are the fewest for which a leaf has a
grandparent whose box and height must be set again; the spots make a unit stay
in its box, leave it in part, or cross the field; a frame undone between two
others gives an entity a second leaf; and one ray differs from the others.  With
the stray leaves of a rewind and a destruction the tree gets as high as five, more
than a stack of four is made for: without the condition `Fits`, TLC finds in this
run a query that misses an entity.

**The four violations.**
`rewind_two`: `revert_n_steps` "revert[s] a given number of steps and command
memento" (`StepReversal.hh:15`), but reverts the n layers of one list before
those of the next.  With two frames and `Attack::windup`, reset in presteps at
the end of a command and advanced in steps while it runs, the value of the
later frame's prestep memento is overwritten in the wrong order.  The tests of
the repository undo one frame at a time, for which the order is right.
`queue_components`: the old value of a command component that did not exist is
stored as a `NoOpCommand` (`CommandQueue.hh:99-105`), so that the undone frame
leaves the component on the entity.  It matters for `AttackCommand`, whose mere
presence makes an idle unit look for targets.
`production_clash`: `cancel_production` finds what to give back by an index into
the queue as the frame began, and queues the removal of that index; it does not
know of the removals that the frame has queued before.  If a player cancels the
first production twice in a frame, its price comes back twice; if the producer
is destroyed in that frame, too; if the production ends in that frame, the price
comes back for a production that is produced, and the removal meets the next one.
`Conserved` says that without such a clash the sums are right, as long as
nothing is reduced: a reduced production gives its full price back, which the
code shows without a model.
`paths_beside`: `get_neighbors` takes the tile before and the tile after for
neighbours whatever the column, so that the end of a row is next to the start of
the following one.  With a wall between two columns and a gap in it, a search
prefers that passage, and the unit is sent straight through the wall.
Such a step is also shorter than its estimate, and a search that follows an old
entry over it can then close another tile too early: in random runs of the same
algorithm on grids of six by six, one in some thousands stored a path of cost 43
where 41 is possible.  `PathsAreBest` therefore speaks of the destinations whose
table has none of these steps (`StepsBeside`), for which it is proved below.

**A disagreement that `CastsSound` makes an exception for.**  An ability's
windup is the "duration (in steps) during which the cast has to be prepared"
(`AbilityTemplate.hh:44-46`).  The clean up of a cast (`CastCommand.hh:187-193`)
does not reset the windup of the caster, and the windup is tested last
(`:153-155`), whether the cast was just refused or not.  A unit that is stopped
while it prepares a cast therefore casts at once when it is told to cast again,
whatever the cooldown and what the caster can pay, and queues Done twice if the
cast was refused as well.  The casters this can happen to are those of `dropped`:
without that exception TLC finds the case in `battle`.

**Two limits.**  `losCheck` divides in fixed point (`PathFindingCache.cc:372-373`),
and on a line of some hundred units what is lost can hide the corner of a tile.
On the grid of 125 by 125 tiles of side 4 on which the repository tests the cache,
the line from tile (0, 0) to (123, 124) crosses tile (0, 1), which is never looked
at: `SightIsBlurred` in `PathCacheProofs` proves it.  And a query of the collision
tree drops nodes once the tree is higher than its stack is deep
(`aabb_tree.hh:664-665`, `:715-716`).  With 1024 places that takes a tree of height
1024, which nothing rules out, but no test comes near it.

**Other things the code does, as modelled.**  `remove_leaf` does not give the
node of the leaf back to the free list, so that the vector of nodes grows with
each destroyed entity.  `rotate_nodes` works on a copy of the nodes and changes
nothing.  A leaf whose step is undone, or whose entity is destroyed in the frame
in which it got it, stays in the tree for ever; queries then meet an entity
twice, or a dead one.  A unit's first strike waits for a reload from time 0.

## Fairness

`ThreadPool!FairSpec` asks for weak fairness of each worker and of the
simulation thread: a thread that can run does.  Mutexes need not be fair and
nothing is asked of spurious wake-ups.  `CommandQueue!PlaySpec` asks that
frames go on, as the driver of the simulation calls `progress`, and, with
strong fairness of `Finish`, that a running command finishes at last.  The
second is an assumption on commands and not on this component: units arrive,
targets die, spells are cast.  `OrdersServed` then says that nothing in the
queue itself makes an order wait for ever.  `PathCache!FairSpec` asks that frames
go on, with weak fairness of each of their steps; that of `ComputeRequest` is
written out with its guard.  Units need not query.
`Battle!Spec` asks for weak fairness of `NextPhase` only, the passage from a phase
to the next, which is what the loop of the engine does; players need not order,
and nothing is asked of targets, distances or projectiles.

## What is proved

`StepHistoryProofs` proves for all slots, values, retention lengths and bounds:

* `TypeCorrect`: `TypeOK` is an invariant.
* `SanityCheckHolds`: the assertion that ends `revert_n_steps` never fails.
* `RetentionBoundHolds`: no more than `Kept` frames are held, and each frame
  that can be undone has both steps and mementos.
* `RewindRestores` and `RefinesTimeline`: if one frame is undone at a time, or
  each slot is written from one list, undoing restores the world exactly, and
  the step history implements Timeline.  The condition is `LastInFirstOut`, and
  `rewind_two` shows that it cannot be dropped.

None of these is inductive.  The first three follow from `TypeInv`: the shape of
the data, the place of the cursor of a running rewind, and the fact that the
two kinds of lists differ by at most the layer set up before the first frame,
until one is dropped.  `RevertRestores` follows from `HistoryInv`, which looks
at one slot at a time: for every frame boundary b that a rewind may still aim
at, either no step on the slot since b is left to undo, and the slot holds what
it held at b, or the memento of the first such step is what it held at b.  It
also keeps track of which lists hold steps on which slots; with that,
`LastInFirstOut` makes the step that is undone the last one of its slot
(`UndoneIsLast`), which is where undoing two frames list by list breaks down.

`CommandQueueProofs` proves for all units, commands, kinds, bounds and lengths
of the retention:

* `TypeCorrect`: `TypeOK` is an invariant.
* `OrdersObeyedHolds`: after its actions are handled and the commands that ended
  are cleaned up, a unit has what the whole list asked for, whatever its length
  and order.  `Obeys` compares, phase by phase, `intent` with what is asked by
  what is there and the actions that are left; that one action may be handled
  first without changing what is asked is a fact about the list, by cases on
  where its last replacement is.
* `StateMirrorsQueueHolds` and `CleanedUpBeforeNextHolds`: queue and entity agree
  whenever command systems run, and each command is cleaned up before the next
  begins.
* `RewindRestoresHolds`: undoing a frame gives back the queues, the state pairs
  and the components that were there when it began.

The last two follow from `QueueInv`, which speaks of one unit at a time.  `Present`
says, phase by phase, how far the queue is ahead of the entity: `Acting` while
its actions are handled, `Ending` once the current command was looked at,
`Beginning` until the prelayer is applied, and `Steady` outside of these.  It
also relates the memento and the state steps of the frame to the unit as the
frame began (`Undoes`); between frames, that is what a rewind relies on.  `Past`
says the same of each frame that can still be undone, relative to the frame
after it; without it nothing is known of the frame before once one is undone.
A rewind does not give back what was exactly: a component that the first command
of its kind brought stays.  `Like` is the likeness that remains, and `LikeUndone`
shows that it is enough to undo the frame before.  A command begins only where
the memento was taken (update_current alone finds nothing to begin on a unit
without actions, as the queue of a steady unit with no command is empty):
otherwise the rewind would not know the queue that was.  The invariant was
checked with TLC on the instance of `queue_rewinds` before it was proved.

`ThreadPoolProofs` proves for all sets of workers, numbers of jobs and of calls:

* `TypeCorrect`: `TypeOK` is an invariant.
* `CallOutlivesItsJobsHolds`: a call of `enqueue_and_wait` does not return, and
  with it its counter, mutex and jobs are not destroyed, while a worker or the
  queue still has one of its jobs.
* `BusyWhileWorkingHolds`: the pool is busy as long as a worker uses a job.
* `PoolIsBarrier`: the pool implements the safety part of BatchBarrier.

The first three follow from `PoolInv`: of the jobs enqueued by a call, each waits
in the queue, is with a worker that has not counted it, or is counted (`Counts`);
the worker that notifies is the one that holds the mutex (`Places`), which is
why the caller, who needs the mutex to look at the counter, cannot return under
it (`AllCounted`).  `InOrder` adds which job it is: jobs leave the queue in
order, and one that left has either run or is run by exactly one worker.

`ProductionProofs` proves for all producers, productions, costs, prices,
durations and bounds:

* `TypeCorrect`: `TypeOK` is an invariant.
* `NoOverspendHolds`: the stock never goes below zero.  What makes it inductive
  is `Solvent`: within a frame, what is spent fits in the stock, and the steps on
  the stock take no more than what is spent; cancellations only add to it.
* `FullDurationHolds` and `OnTimeHolds`: a production takes its whole duration
  and no more than it, or two frames if that is shorter (the code takes at least
  two although `ProductionTemplate.hh:53` speaks of the duration).  They follow
  from `Clock`: of a producer that is not disabled, the age that the production
  system keeps is the number of frames the first production could use, between
  frames and, according to the timestamp step of the frame, within them; the
  timestamp is given back if and only if some operation on the way removes the
  first production.  `Clock` was checked with TLC on the instance of
  `production` before it was proved.
* `ConservedHolds`: as long as no frame removes twice from one queue and nothing
  is reduced, the stock, what is in the queues and what was produced add up to
  the stock of the beginning.  `Conserved` speaks of the time between frames;
  what holds within one is `Ledger`: each queue counts for its `Value`, which is
  what it is worth and what the operations waiting for it will add and take
  away, and these can be carried out in their order (`Applicable`).

`BattleProofs` proves for all units, teams, orders, durations and distances:

* `TypeCorrect`: `TypeOK` is an invariant; it follows from `BattleInv`, which adds
  the shape of the steps that wait to be applied, and that none does between
  frames.
* `DamageDealtHolds`: between frames, a unit that lives has lost what was sent to
  it, each strike and each ability once, but for what flies.  The invariant
  `DamageKept` holds in every phase: what was sent and neither flies nor waits in
  a step of the frame is what the hit points lack.

* `StrikesSpacedHolds` and `StrikesAimedHolds`: between two strikes of a unit
  lie its reload and its windup, and a strike falls on the unit its windup was
  begun for.  They follow from `AttackInv`: the windup of a unit is 0 or within
  its duration, and then the unit has a target, which is `aim`; after a strike
  its reload and then its windup account for `since`; and the steps left in a
  frame agree with these until the frame ends.  What makes it inductive is that
  a clean up leaves the windup at 0 in the prelayer, before the system of the
  attack looks at it.
* `CastsSoundHolds`: who casts has prepared the cast under its current command
  for as long as its windup asks, has waited for the cooldown and can pay.
  `CastInv` relates the windup of a caster that is not in `dropped` to `begun`,
  and keeps the steps of a frame to the command that left them.

`PathCacheProofs` proves for all numbers of tiles, grids and requests:

* `TypeCorrect`: `TypeOK` is an invariant.  A table keeps its shape only because
  each search finds its destination, so what is proved is `TablesInv`: for each
  destination there is a number for each tile that gets less from a tile of the
  table to the next (`LeadsTo`).  The closed tiles of a search that had emptied
  its list would hold all their neighbours; such a set holds the destination
  (`Connected`), by following the table from any tile that is in it, or along the
  indices where the table is empty.  A path has each tile once, since
  predecessors are closed before their tiles; so the tiles of the path lead along
  it, and the other ones to the path or as before (`StillLeads`).
* `TablesLeadHolds`: following a table from any of its tiles ends at the
  destination, within as many steps as there are tiles.
* `PathsAreBestHolds`: in a table of single steps no path costs more than the best
  one.  `Measures` are the least costs from the tile of a request, where a tile
  of the table is left to its next only; `Weighed` says of the labels that their
  costs are those of their ways, and that closed tiles have the least
  (`ClosestBest`: else a tile on the way there would be opened with a smaller
  estimate).  The invariant `BestInv` says that what is left from the tiles of
  such a table is no more than any round of the relaxation finds.  It is
  inductive because a search that may leave a tile of the table to the next only
  misses no better way (`RoundsBound`), which is the same invariant for the old
  entries; and because old entries on a new path agree with it (`BestKept`).
* `SightIsClearHolds`: a stored line of sight crosses no tile that is taken, under
  two conditions on the grid.  It is square: `get_index` clamps rows and `losCheck`
  bounds them by the number of columns (`PathFindingCache.cc:97-102`), so that
  grids with more rows are out of the reach of the code.  And it is `Fine`: what
  rounding loses on the longest line is no more than the least by which a line can
  cut off a corner.  Both grow with the size of a tile, so that with 10000 parts
  the grid may be 71 tiles wide, whatever that size.  On a
  larger one the claim is false (`SightIsBlurred`).  `SightInv` says that what is stored was asked of `losCheck`
  on the accessible tiles, which are the free ones.  The rest is about numbers:
  a line whose sides split the corners of a tile passes through its rows within
  its column (`LineMeetsTile`), so that some of the heights that `losCheck` looks
  at, each rounded down twice, is in the tile (`Ladder`: a walk over whole numbers from
  one side of a range to the other meets the range).

`CollisionTreeProofs` proves for all entities, founders, spots, rays, ranges and
numbers of rewinds:

* `WellFormedHolds`: the nodes below the root are a binary tree whose links agree
  both ways, every inner node has the box and the height its children give it,
  and the free list, which ends, holds every free node and none of the tree.
* `OneLeafEachHolds`: each entity has its one leaf, which carries it, and the other
  leaves are those of `stray`.
* `QueriesCompleteHolds`: a circle query finds every entity within its range, as
  long as the tree is lower than the stack of the query is deep.
* `RefinesIndex`: the collision tree implements SpatialIndex.

They follow from `TreeInv`, whose first part, `Shape`, is about the tree alone.
`IsTree` says of a set of nodes that its links agree and that nothing smaller
holds the root and is closed under children; the last is what excludes cycles,
and makes the set the one that a walk from the root finds (`TreeIsWalk`: a walk
grows in each turn or has ended, so that as many turns as there are nodes are
enough).  `FreeList` says the same of the free nodes.  `InsertFacts` and
`RemoveFacts` are the theorems about the operations: the links after them, field
by field (`JoinedLinks`, `PartedLinks`), are a tree again, and the way up sets
every box and height that does not fit.  For the last, nodes are ranked so that
ranks rise towards the root, by their heights, and a new inner node between those
of its children and of its parent (`JoinedRefittable`); then the way up meets no
node twice and ends at the root.  `AddLeafFacts`, `UpdateLeafFacts` and
`RemoveFacts` say that the boxes and the data of all other leaves stay, which is
`RefinesIndex`.

The other parts of `TreeInv` are about entities.  `OwnLeaves` is `OneLeafEach` with
the fact that a leaf is a square with a side of four times the ray of its entity: both
`add_to_tree` and `update_tree` make it so.  `Visited` says that from the visit of
the position system to the end of the frame the leaf holds the surroundings of its
entity.  `UndoFits` says what a rewind can give back: to each entity that lived in
the frame before, the leaf that it has or none, never another's, because a leaf is
learned once and never given to another entity while the first lives.
`QueriesComplete` then needs two facts about numbers.  The box of the query meets
the leaf, so that the query reaches it, since every ancestor's box holds it
(`QueryReaches`), and none of them is dropped from the stack: the place of a node
and its height are together at most the height of the tree and one (`SeenAll`).
And the test on the distance of the centres passes
(`CircleMeets`): the centre of the leaf is within a ray of the entity on each axis,
the side of the leaf is four rays, and so the sum of the squares is at most that
of side and range, for which the product of the two is to be bounded on each axis
(`OneAxis`).  That the leaf is a square is needed here, and that its side is not
less than four rays.  The parts of `TreeInv` about entities were checked with TLC
on the instance of `tree` before they were proved.  Of `findBestSibling` only
that it gives a node of the tree is proved (`BestSiblingInside`), and nothing else
is needed: which one it is decides how long queries take, not what they find.

`Sums` holds what several of these rest on: induction over numbers and over finite
sets, stated with the set of what the claim holds for (`NatInSet`,
`SubsetsInSet`), the existence of recursive functions over both
(`RecursionUpTo`, `SubsetRecursion`), and that sums over functions do not depend
on the order, are linear, and change with one element as they should.

The assumptions on the constants are the named ones: `ConstantsAssumption` in each
module, and `AttackAssumption`, `CastAssumption` and `BattleAssumption` for Battle.
Those added for the proofs say that there are finitely many units and producers
(the sums are over them), that the values for nothing (`None`, `NoOp`) are not
units, producers, productions or commands, and that what players order in Battle
is an attack or a cast, aimed at an enemy or at nobody.  Coordinates in
CollisionTree are integers, as the fixed-point numbers of the code are: those
where nothing overflows.  `SightIsClearHolds` also
assumes `NbTiles = Width*Width` and `Fine`, its only hypotheses of its own.

Liveness under fairness (`PoolStops`, the fairness in BatchBarrier and Timeline,
`OrdersServed`, `Answered`, `WindupsEnd`, `CastsEnd`) is model-checked only: TLAPS
does not do liveness under fairness, nor ENABLED.  The library's theorems about
induction take an operator, which the provers cannot instantiate either; where
data is recursive, the modules proved about use recursive functions, and the
proofs the lemmas of `Sums`.

## What the models leave out

* What a step writes is any value; that it is the right one is for the systems.
* Commands are atoms.  Nobody queues a `NoOpCommand`, as nobody does in the
  repository (`ConstantsAssumption`).
* Units begin without a state pair, as entities created by the tests and the
  templates do.
* `stop` is called by the destructor of the pool only, never during a call.
* One resource stands for all of a player's; requirements are the constant
  `Makes`; unknown productions and negative indices are not ordered; a rewind of
  production steps is a rewind of StepHistory; what is ordered from a destroyed
  producer stays in its queue, paid for, as in the code.
* One tree of positions stands for those of all filters; `get_closest_entities`
  is the circle query it makes, without the sorting that follows.
* Healers, masses, flocks, damage modifiers and the forces that push units apart:
  arithmetic on fixed-point vectors that decides where units are and how much
  they lose, both of which the models leave open.
* A unit has an `AttackCommand` from the start, as the units that look for targets
  when idle need; a disabled unit keeps its hit points.
* In Battle a player can pay for a cast or cannot; point targets are abilities
  that need no entity in range.

## Not modelled

* Vendored code: flecs and the triangulation library (`src/octopus/src/flecs*`,
  `src/octopus/src/cdt`), which are nine tenths of the lines of the repository.
  The models take from flecs what the engine relies on: systems run in the order
  of their phases, changes to entities are deferred to the end of a system, the
  pair of an exclusive relation replaces the one before, observers run at once.
* The triangulation, the map generator and fixed-point arithmetic: sequential
  computations on numbers, tested by their own unit tests.
* Buffs and creation of entities: steps that StepHistory does not tell from
  others, whose contents are functions of the game.
* Players, teams, upgrades: look-ups; oracles where a model needs them.
* Serialization, logging, statistics, the demo: no state of the simulation.
* The two hazards of destruction in `PROJECT.json` without a property concern
  the tags of flecs entities, which no modelled component reads.

## Plan

What could come next, in this order:

1. `InputLayers`: inputs from other threads, each handled once and in order, with
   the lock released between stacking and unstacking.
2. `Buffs`: start, duration and expiry, over frames that are undone.
