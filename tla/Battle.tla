------------------------------- MODULE Battle -------------------------------
(***************************************************************************)
(* Units that attack, cast, get hurt and die, frame by frame: the command  *)
(* queues (CommandQueueSystems.hh), the systems of the attack and of the   *)
(* cast command, the hit points and the destruction of units               *)
(* (HitPointsSystems.hh, HitPoint.cc), and the projectiles that carry a    *)
(* strike (ProjectileSystem.hh).  The systems of a phase leave steps in    *)
(* the layer of the frame, the phase Stepping applies them all, Validate   *)
(* clamps hit points, and the next frame destroys who has none left.       *)
(*                                                                         *)
(* No system of a phase reads what another of it writes, so each phase is  *)
(* one action on all units.  Where units move is left out: in a frame the  *)
(* distance between two enemies changes by one at most.                    *)
(***************************************************************************)
EXTENDS Attacking, Casting, Functions, FiniteSetsExt

CONSTANTS Units,
          Team,        \* Team[u]
          HitPoints,   \* HitPoints[u]: what u has at first, and at most
          Damage,      \* Damage[u]: what a strike of u takes
          CastDamage,  \* CastDamage[a]: what ability a takes from its target
          CastRange,   \* range(), for all abilities
          Sight,       \* the range of get_new_target
          Far,         \* bound: the largest distance
          Orders,      \* Orders[u]: the attacks and casts players order of u
          NoOp,        \* NoOpCommand
          MaxShots,    \* bound: projectiles on their way
          MaxQueue     \* bound: commands waiting or being given

Enemies(u) == {v \in Units : Team[v] # Team[u]}

AttackCommands ==
  [u \in Units |-> [kind : {"attack"}, target : Enemies(u) \union {None},
                    move : BOOLEAN, init : BOOLEAN, forced : BOOLEAN]]

(* What players order, of whatever ability, is aimed at enemies. *)
ASSUME BattleAssumption ==
  /\ IsFiniteSet(Units) /\ None \notin Units
  /\ Attackers \union Casters \subseteq Units
  /\ HitPoints \in [Units -> Nat] /\ Damage \in [Attackers -> Nat]
  /\ CastDamage \in [Abilities -> Nat]
  /\ {CastRange, Sight, Far, MaxShots, MaxQueue} \subseteq Nat
  /\ \A u \in Units : \A c \in Orders[u] :
       \/ c \in AttackCommands[u]
       \/ \E v \in Enemies(u) \union {None} : c = CastCommand(c.ability, v)

VARIABLES pc,       \* the phase to run next; idle between frames
          current,  \* current[u]: the command u runs, or NoOp
          queued,   \* queued[u]: the commands behind it
          actions,  \* actions[u]: what the next frame does to its queue
          hp,       \* hp[u]: its HitPoint
          gone,     \* the units destroyed, and so disabled
          dist,     \* dist[{u, v}]: how far enemies are
          shots,    \* shots[<<u, v>>]: the projectiles of u on their way to v
          shooters, \* the units with BasicProjectileAttack
          cleaned,  \* the units whose attack was cleaned up in this frame
          strokes,  \* strokes[u]: the steps of this frame for an attacker
          spells    \* spells[u]: those for a caster

(* History. *)
VARIABLES aim,      \* aim[u]: the target its windup began for
          since,    \* since[u]: the frames since it struck
          begun,    \* begun[u]: those the current command has prepared a cast
          dropped,  \* the casters with a windup that an earlier command left
          taken     \* taken[u]: the damage sent to it

queueVars == <<current, queued, actions>>
worldVars == <<gone, dist, shooters, shots>>
vars == <<attackVars, caster, pc, queueVars, hp, worldVars, cleaned, strokes, spells,
          aim, since, begun, dropped, taken>>

Pairs == {p \in Units \X Units : p[2] \in Enemies(p[1])}
Dist(u, v) == dist[{u, v}]
Lives(v) == hp[v] > 0

Runs(u, kind) == u \notin gone /\ current[u] # NoOp /\ current[u].kind = kind

(* The least a unit needs from one strike to the next. *)
Spacing(u) == AtLeastOne(Reload[u]) + AtLeastOne(Windup[u])

Init ==
  /\ AttackInit /\ CastInit
  /\ pc = "idle"
  /\ current = [u \in Units |-> NoOp]
  /\ queued = [u \in Units |-> << >>] /\ actions = queued
  /\ hp = HitPoints /\ gone = {}
  /\ dist = [p \in {{q[1], q[2]} : q \in Pairs} |-> Far]
  /\ shooters \in SUBSET Attackers
  /\ shots = [p \in Pairs |-> 0]
  /\ cleaned = {}
  /\ strokes = [u \in Attackers |-> Nothing] /\ spells = [u \in Casters |-> NoCast]
  /\ aim = [u \in Attackers |-> None] /\ since = [u \in Attackers |-> Spacing(u)]
  /\ begun = [u \in Casters |-> Unset] /\ dropped = {}
  /\ taken = [u \in Units |-> 0]

-----------------------------------------------------------------------------
(* The queued actions in their order. *)
Seqs == INSTANCE SequencesExt
AllHandled(u) == Seqs!FoldLeft(Handled, [queued |-> queued[u], done |-> FALSE], actions[u])

(* The system of Update that destroys. *)
Dying == {u \in Units : hp[u] = 0}

(* PrepingUpdate to PreUpdate on the queues of the units that are not       *)
(* disabled: an attack that ends is cleaned up and its windup reset by the  *)
(* prelayer, a new command sets the component of its kind.  Then Update:    *)
(* who has no hit points left is disabled, and the event sent.              *)
BeginFrame ==
  LET handled == [u \in Units |-> AllHandled(u)]
      ending == {u \in Units \ gone : current[u] # NoOp /\ handled[u].done}
      starting == {u \in Units \ gone : /\ current[u] = NoOp \/ u \in ending
                                        /\ handled[u].queued # << >>}
      first == [u \in starting |-> Head(handled[u].queued)]
  IN /\ pc = "idle" /\ pc' = "commands"
     /\ current' = [u \in Units |-> CASE u \in starting -> first[u]
                                      [] u \in ending \ starting -> NoOp
                                      [] OTHER -> current[u]]
     /\ queued' = [u \in Units |-> CASE u \in gone -> queued[u]
                                     [] u \in starting -> Tail(handled[u].queued)
                                     [] OTHER -> handled[u].queued]
     /\ actions' = [u \in Units |-> IF u \in gone THEN actions[u] ELSE << >>]
     /\ cleaned' = {u \in ending : current[u].kind = "attack"}
     /\ attack' = [u \in Attackers |->
                     IF u \in cleaned' THEN CleanedUp(u) ELSE attack[u]]
     /\ order' = [u \in Attackers |->
                    IF u \in starting /\ first[u].kind = "attack" THEN first[u] ELSE order[u]]
     /\ gone' = gone \union Dying
     /\ begun' = [u \in Casters |-> IF u \in ending THEN Unset ELSE begun[u]]
     /\ dropped' = dropped \union {u \in Casters \intersect ending : caster[u].wind # Unset}
     /\ UNCHANGED <<trigger, caster, hp, dist, shooters, shots, strokes, spells, aim, since, taken>>

(* get_new_target: the closest of the enemies that are near enough. *)
Findable(u) ==
  LET near == {v \in Enemies(u) \ gone : Lives(v) /\ Dist(u, v) <= Max({Sight, Reach[u]})}
  IN {v \in near : \A w \in near : Dist(u, v) <= Dist(u, w)}

AttackSteps(u, scans, v, arrived) ==
  IF Runs(u, "attack")
  THEN Running(u, {w \in Units : Lives(w)}, {w \in Enemies(u) : Dist(u, w) <= Reach[u]},
               scans, v, arrived)
  ELSE IF u \notin gone /\ current[u] = NoOp THEN Idle(u, scans, v)
  ELSE Nothing

CastSteps(u, funded) ==
  IF Runs(u, "cast")
  THEN LET c == current[u]
       IN Cast(u, c, c.target # None /\ Dist(u, c.target) <= CastRange, funded)
  ELSE NoCast

(* The damage that attackers strike v with, and that casters do to it. *)
Struck(v, by, targets) == SumFunction([u \in by |-> IF targets[u] = v THEN Damage[u] ELSE 0])
Spelled(v, steps) ==
  SumFunction([u \in Casters |-> IF steps[u].cast # Unset /\ current[u].target = v
                                 THEN CastDamage[steps[u].cast] ELSE 0])

Acts(u) ==
  (IF u \in Attackers THEN strokes'[u].acts ELSE << >>)
  \o (IF u \in Casters THEN spells'[u].acts ELSE << >>)

(* PostUpdate: the systems of idle units, of the attack and of the cast     *)
(* command.  The units of scanning look for targets in this frame, each     *)
(* may have arrived where its command sends it, and finds one of the        *)
(* closest enemies.                                                         *)
CommandSystems(scanning, arrived, found, funded) ==
  /\ pc = "commands" /\ pc' = "input"
  /\ strokes' = [u \in Attackers |-> AttackSteps(u, u \in scanning, found[u], u \in arrived)]
  /\ spells' = [u \in Casters |-> CastSteps(u, funded)]
  /\ trigger' = [u \in Attackers |-> strokes'[u].strike]
  /\ actions' = [u \in Units |-> actions[u] \o Acts(u)]
  /\ aim' = [u \in Attackers |-> IF attack[u].windup = 0 /\ strokes'[u].windup = 1
                                 THEN order[u].target ELSE aim[u]]
  /\ since' = [u \in Attackers |-> IF strokes'[u].strike # None THEN 0 ELSE since[u]]
  /\ begun' = [u \in Casters |-> IF spells'[u].cast # Unset THEN Unset
                                 ELSE IF spells'[u].start THEN 0 ELSE begun[u]]
  /\ dropped' = {u \in dropped : spells'[u].cast = Unset}
  /\ taken' = [v \in Units |-> IF v \in gone THEN taken[v]
                               ELSE taken[v] + Struck(v, Attackers, trigger') + Spelled(v, spells')]
  /\ UNCHANGED <<attack, order, caster, current, queued, hp, worldVars, cleaned>>

(* The units that run an attack whose target is no more. *)
Targetless == {u \in Attackers : Runs(u, "attack") /\ (order[u].target = None \/ ~ Lives(order[u].target))}

RunCommands ==
  LET finds == [u \in Attackers |-> IF Findable(u) = {} THEN {None} ELSE Findable(u)]
  IN \E found \in {f \in [Attackers -> UNION Range(finds)] : \A u \in Attackers : f[u] \in finds[u]},
        scanning \in SUBSET (Attackers \ gone), arrived \in SUBSET Targetless, funded \in BOOLEAN :
       CommandSystems(scanning, arrived, found, funded)

Waiting(u) == Len(queued[u]) + Len(SelectSeq(actions[u], LAMBDA a : a # Done))
HasRoom == SumFunction([u \in Units |-> Waiting(u)]) < MaxQueue

(* Input: a player orders u to stop, or to attack or to cast, now or when   *)
(* it has done what it was told before.                                     *)
Order(u) ==
  /\ pc = "input" /\ pc' = "ordered" /\ u \notin gone /\ HasRoom
  /\ \E funded \in BOOLEAN : \E acts \in { <<Replace(<< >>), Done>> } \union
       UNION {IF c.kind = "cast" THEN CastOrders(u, c, funded)
              ELSE { <<Replace(<<c>>), Done>>, <<Back(c)>> } : c \in Orders[u]} :
       actions' = [actions EXCEPT ![u] = @ \o acts]
  /\ UNCHANGED <<attackVars, caster, current, queued, hp, worldVars, cleaned, strokes, spells,
                 aim, since, begun, dropped, taken>>

(* The damage of projectiles, whose numbers are given. *)
Shot(v, number) ==
  SumFunction([u \in shooters |-> IF v \in Enemies(u) THEN number[<<u, v>>] * Damage[u] ELSE 0])

(* Altered Hurt: who shoots strikes at once, too. *)
HurtAtOnce(v, landed) == Struck(v, Attackers, trigger) + Shot(v, landed) + Spelled(v, spells)

(* What hits v in this frame: strikes, projectiles, abilities. *)
Hurt(v, landed) == Struck(v, Attackers \ shooters, trigger) + Shot(v, landed) + Spelled(v, spells)

(* Moving: units walk and are pushed, wherever they mean to go, but for     *)
(* those that are gone.                                                     *)
Moved == {d \in [DOMAIN dist -> 0..Far] : \A p \in DOMAIN dist :
            d[p] - dist[p] \in IF p \intersect gone = {} THEN {-1, 0, 1} ELSE {0}}

(* Altered Validated: only the maximum is looked at. *)
ValidatedAbove(v, n) == Min({n, HitPoints[v]})

(* The validators. *)
Validated(v, n) == Max({0, Min({n, HitPoints[v]})})

(* The projectiles that reach their targets in a frame. *)
Landings ==
  {l \in [Pairs -> 0..Max({shots[p] : p \in Pairs})] :
     /\ \A p \in Pairs : l[p] <= shots[p]
     /\ SumFunction([p \in Pairs |-> shots[p] - l[p]]) < MaxShots}

(* EndUpdate to EndCleanUp: strikes hurt or become projectiles, the steps   *)
(* of the layer are applied, hit points validated, triggers removed.        *)
EndFrame ==
  /\ pc \in {"input", "ordered"} /\ pc' = "idle"
  /\ attack' = [u \in Attackers |-> Attacked(u, strokes[u])]
  /\ \E init \in [Attackers -> BOOLEAN] :
       /\ \A u \in Attackers : init[u] \in Inits(u, strokes[u], u \in cleaned)
       /\ order' = [u \in Attackers |-> Ordered(u, strokes[u], init[u])]
  /\ caster' = [u \in Casters |-> Casted(u, spells[u])]
  /\ \E landed \in Landings :
       /\ hp' = [v \in Units |-> IF v \in gone THEN hp[v] ELSE Validated(v, hp[v] - Hurt(v, landed))]
       /\ shots' = [p \in Pairs |-> shots[p] - landed[p]
                      + (IF p[1] \in shooters /\ trigger[p[1]] = p[2] THEN 1 ELSE 0)]
  /\ trigger' = [u \in Attackers |-> None]
  /\ dist' \in Moved
  /\ cleaned' = {}
  /\ strokes' = [u \in Attackers |-> Nothing] /\ spells' = [u \in Casters |-> NoCast]
  /\ since' = [u \in Attackers |-> Age(since[u], Spacing(u))]
  /\ begun' = [u \in Casters |-> IF begun[u] = Unset THEN Unset ELSE Age(begun[u], LongestWindup)]
  /\ UNCHANGED <<queueVars, gone, shooters, aim, dropped, taken>>

FrameStep == BeginFrame \/ RunCommands \/ EndFrame

Next == FrameStep \/ \E u \in Units : Order(u)

(* The engine's loop runs one phase after the other; players order at will. *)
NextPhase == pc' \in {"idle", "commands", "input"} \ {pc}

Spec == Init /\ [][Next]_vars /\ WF_pc(NextPhase)

-----------------------------------------------------------------------------
(* Type invariant. *)
Commands ==
  [u \in Units |-> AttackCommands[u]
     \union [kind : {"cast"}, ability : Abilities, target : Enemies(u) \union {None}]]
Actions ==
  [u \in Units |-> [do : {"done", "replace", "front", "back"}, cmds : Seq(Commands[u])]]

TypeOK ==
  /\ pc \in {"idle", "commands", "input", "ordered"}
  /\ \A u \in Attackers :
       /\ attack[u] \in [windup : 0..AtLeastOne(Windup[u]), rest : 0..Reload[u]]
       /\ order[u] \in AttackCommands[u] /\ trigger[u] \in Enemies(u) \union {None}
       /\ since[u] \in 0..Spacing(u)
  /\ \A u \in Casters :
       /\ caster[u].wind \in 0..LongestWindup \union {Unset}
       /\ \A a \in Abilities : caster[u].last[a] \in 0..Cooldown[a]
       /\ caster[u].stock <= Stock
       /\ begun[u] \in 0..LongestWindup \union {Unset}
  /\ \A u \in Units :
       /\ current[u] \in Commands[u] \union {NoOp}
       /\ queued[u] \in Seq(Commands[u]) /\ actions[u] \in Seq(Actions[u])
       /\ hp[u] \in 0..HitPoints[u] /\ (u \in gone => hp[u] = 0)
  /\ \A p \in DOMAIN dist : dist[p] \in 0..Far
  /\ \A p \in Pairs : shots[p] \in Nat

Strikes(u) == trigger[u] = None /\ trigger'[u] # None
Casts(u) == spells[u].cast = Unset /\ spells'[u].cast # Unset

(* However its targets, commands and windups follow one another, a unit     *)
(* that strikes has reloaded and wound up since it struck.                  *)
StrikesSpaced == [][\A u \in Attackers : Strikes(u) => since[u] >= Spacing(u)]_vars

(* A strike hits the unit its windup was begun for, which lives: no windup  *)
(* is carried over to another target or another command.                    *)
StrikesAimed ==
  [][\A u \in Attackers : Strikes(u) =>
       trigger'[u] = aim[u] /\ Lives(trigger'[u])]_vars

(* Between frames, a unit has lost the damage of every strike and ability   *)
(* sent to it, once, but for the projectiles that have not arrived.         *)
DamageDealt ==
  pc = "idle" => \A v \in Units \ gone :
    hp[v] = Max({0, HitPoints[v] - (taken[v] - Shot(v, shots))})

(* An ability is cast only by who has prepared it under this command, may   *)
(* cast it again and has what it costs: the windup is "the duration during  *)
(* which the cast has to be prepared".  The code keeps to that but for the  *)
(* casters with a windup that an earlier command has left, and they are     *)
(* excepted until they cast.                                                *)
CastsSound ==
  [][\A u \in Casters \ dropped : Casts(u) =>
       LET a == spells'[u].cast
       IN /\ begun[u] # Unset /\ begun[u] >= CastWindup[a]
          /\ caster[u].last[a] >= Cooldown[a] /\ caster[u].stock >= Cost[a]]_vars

(* A windup that has begun comes to its strike, if its target lives, however *)
(* the target moves.                                                        *)
WindsUp(u) ==
  Runs(u, "attack") /\ attack[u].windup > 0 /\ order[u].target # None /\ Lives(order[u].target)
WindupsEnd == \A u \in Attackers : WindsUp(u) ~> ~ WindsUp(u)

(* So does the windup of a cast, whatever becomes of its target. *)
Prepares(u) == Runs(u, "cast") /\ caster[u].wind # Unset
CastsEnd == \A u \in Casters : Prepares(u) ~> ~ Prepares(u)
=============================================================================
