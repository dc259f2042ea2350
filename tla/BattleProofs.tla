---------------------------- MODULE BattleProofs ----------------------------
(***************************************************************************)
(* Proofs about Battle, for all units, commands, windups, reloads and      *)
(* cooldowns: strikes are spaced and aimed, casts are sound, the data keep *)
(* their types, and each damage is dealt once.                             *)
(***************************************************************************)
EXTENDS Battle, Sums, SequenceTheorems, TLAPS

Phases == {"idle", "commands", "input", "ordered"}
Between == pc \in {"idle", "commands"}  \* no steps wait to be applied

-----------------------------------------------------------------------------
(* A windup is behind a full reload, and shorter than the time since that. *)
Earned(u, w, age) == w <= AtLeastOne(Windup[u]) /\ age >= AtLeastOne(Reload[u]) + w

(* Its unit runs the command that has the target it was begun for. *)
Aimed(u) == current[u] # NoOp /\ current[u].kind = "attack" /\ aim[u] = order[u].target

AttackType ==
  /\ attack \in [Attackers -> [windup : Nat, rest : Nat]]
  /\ since \in [Attackers -> Nat]

AttackSettled(u) ==
  /\ attack[u].rest <= since[u] /\ since[u] >= 1
  /\ attack[u].windup > 0 => Earned(u, attack[u].windup, since[u])
  /\ attack[u].windup > 0 /\ u \notin gone => Aimed(u)

(* While the steps s wait, a strike has reset since, and its reload waits. *)
AttackStepped(u, s) ==
  /\ s.windup = None \/ s.windup \in Nat
  /\ s.reload \/ attack[u].rest <= since[u]
  /\ s.windup = None /\ attack[u].windup > 0 => Earned(u, attack[u].windup, since[u])
  /\ s.windup = None /\ attack[u].windup > 0 /\ u \notin gone => Aimed(u) /\ s.target = None
  /\ s.windup # None /\ s.windup > 0 =>
       Earned(u, s.windup, since[u] + 1) /\ Aimed(u) /\ s.target = None

AttackInv ==
  /\ pc \in Phases
  /\ AttackType
  /\ Between => \A u \in Attackers : AttackSettled(u)
  /\ ~ Between => \A u \in Attackers : AttackStepped(u, strokes[u])

-----------------------------------------------------------------------------
(* The steps of the attack system, for a unit whose attack is settled. *)
LEMMA StepsOfAttack ==
  ASSUME NEW u \in Attackers, NEW scans, NEW v, NEW arrived,
         AttackType, AttackSettled(u)
  PROVE  LET s == AttackSteps(u, scans, v, arrived)
         IN /\ s.windup = None \/ s.windup \in Nat
            /\ s.reload \/ s.strike = None
            /\ s.windup # None /\ s.windup > 0 =>
                 /\ s.windup <= AtLeastOne(Windup[u])
                 /\ since[u] + 1 >= AtLeastOne(Reload[u]) + s.windup
                 /\ Runs(u, "attack") /\ s.target = None /\ s.strike = None
                 /\ attack[u].windup = 0 => s.windup = 1
            /\ s.windup = None => s.strike = None
            /\ s.windup = None /\ attack[u].windup > 0 => s.target = None
            /\ s.strike # None =>
                 /\ since[u] >= Spacing(u) /\ Runs(u, "attack")
                 /\ s.strike = order[u].target /\ Lives(s.strike) /\ attack[u].windup > 0
<1> DEFINE s == AttackSteps(u, scans, v, arrived)
           alive == {w \in Units : Lives(w)}
           close == {w \in Enemies(u) : Dist(u, w) <= Reach[u]}
           w == attack[u].windup
           NoStroke == s.windup = None /\ s.strike = None
<1>1. /\ w \in Nat /\ attack[u].rest \in Nat /\ since[u] \in Nat
      /\ Windup[u] \in Nat /\ Reload[u] \in Nat /\ None \notin Nat
  BY AttackAssumption DEF AttackType
<1>2. CASE ~ Runs(u, "attack")
  <2>1. s = Idle(u, scans, v) \/ s = Nothing
    BY <1>2 DEF AttackSteps
  <2>2. s.windup = None /\ s.strike = None /\ s.target = None
    <3>1. CASE s = Nothing
      BY <3>1 DEF Nothing
    <3>2. CASE s = Idle(u, scans, v)
      <4> DEFINE looks == scans \/ ~ order[u].init
                 acts == IF looks /\ v # None
                         THEN <<Front(AttackCommand(v, TRUE, TRUE, FALSE))>> ELSE << >>
      <4>1. s = [Nothing EXCEPT !.init = ~ order[u].init, !.acts = acts]
        BY <3>2 DEF Idle
      <4> HIDE DEF acts, s
      <4> QED BY <4>1 DEF Nothing
    <3> QED BY <2>1, <3>1, <3>2
  <2> QED BY <2>2
<1>3. CASE Runs(u, "attack")
  <2>1. s = Running(u, alive, close, scans, v, arrived)
    BY <1>3 DEF AttackSteps
  <2>2. CASE order[u].target \notin alive
    <3>1. s = Lost(u, v, arrived)
      BY <2>1, <2>2 DEF Running
    <3>2. s.strike = None /\ ((s.windup = None /\ s.target = None) \/ s.windup = 0)
      BY <3>1 DEF Lost, Nothing
    <3> QED BY <3>2, <1>1
  <2>3. CASE order[u].target \in alive /\ w > 0
    <3>1. s = WindingUp(u)
      BY <2>1, <2>3 DEF Running
    <3>2. w <= AtLeastOne(Windup[u]) /\ since[u] >= AtLeastOne(Reload[u]) + w
      BY <2>3 DEF AttackSettled, Earned
    <3>3. CASE w >= Windup[u]
      <4>1. s.windup = 0 /\ s.reload /\ s.strike = order[u].target
        BY <3>1, <3>3 DEF WindingUp, Nothing
      <4>2. w >= AtLeastOne(Windup[u])
        BY <1>1, <3>3, <2>3 DEF AtLeastOne
      <4>3. since[u] >= Spacing(u)
        BY <1>1, <3>2, <4>2 DEF Spacing, AtLeastOne
      <4> QED BY <4>1, <4>3, <1>1, <1>3, <2>3
    <3>4. CASE ~ (w >= Windup[u])
      <4>1. s.windup = w + 1 /\ s.strike = None /\ s.target = None
        BY <3>1, <3>4 DEF WindingUp, Nothing
      <4>2. w + 1 <= AtLeastOne(Windup[u])
        BY <1>1, <3>4, <2>3 DEF AtLeastOne
      <4>3. since[u] + 1 >= AtLeastOne(Reload[u]) + (w + 1)
        BY <1>1, <3>2 DEF AtLeastOne
      <4> QED BY <4>1, <4>2, <4>3, <1>1, <1>3, <2>3
    <3> QED BY <3>3, <3>4
  <2>4. CASE order[u].target \in alive /\ ~ (w > 0)
    <3>1. CASE order[u].target \notin close
      <4>1. s = Approach(u, close, scans, v)
        BY <2>1, <2>4, <3>1 DEF Running
      <4>2. s.windup = None /\ s.strike = None
        BY <4>1 DEF Approach, Nothing
      <4> QED BY <4>2, <2>4
    <3>2. CASE order[u].target \in close
      <4>1. s = [Nothing EXCEPT !.windup = IF HasReloaded(u) THEN 1 ELSE None]
        BY <2>1, <2>4, <3>2 DEF Running, Ready
      <4>2. s.strike = None /\ s.target = None /\ s.windup = IF HasReloaded(u) THEN 1 ELSE None
        BY <4>1 DEF Nothing
      <4>3. CASE HasReloaded(u)
        <5>1. s.windup = 1
          BY <4>2, <4>3
        <5>2. since[u] >= AtLeastOne(Reload[u])
          BY <4>3, <1>1 DEF HasReloaded, AttackSettled, AtLeastOne
        <5>3. 1 <= AtLeastOne(Windup[u]) /\ since[u] + 1 >= AtLeastOne(Reload[u]) + 1
          BY <5>2, <1>1 DEF AtLeastOne
        <5> QED BY <5>1, <5>3, <4>2, <1>3
      <4>4. CASE ~ HasReloaded(u)
        BY <4>2, <4>4
      <4> QED BY <4>3, <4>4
    <3> QED BY <3>1, <3>2
  <2> QED BY <2>2, <2>3, <2>4
<1> QED BY <1>2, <1>3

(* The attack invariant holds at the start, and every action keeps it. *)
LEMMA AttackInvInit == Init => AttackInv
<1> SUFFICES ASSUME Init PROVE AttackInv
  OBVIOUS
<1>1. AttackType
  <2>1. \A u \in Attackers : Spacing(u) \in Nat
    BY AttackAssumption DEF Spacing, AtLeastOne
  <2> QED BY <2>1 DEF Init, AttackInit, AttackType
<1>2. ASSUME NEW u \in Attackers PROVE AttackSettled(u)
  <2>1. attack[u].windup = 0 /\ attack[u].rest = 0
    BY DEF Init, AttackInit
  <2>2. since[u] = Spacing(u)
    BY DEF Init
  <2>3. since[u] \in Nat /\ since[u] >= 1
    BY <2>2, AttackAssumption DEF Spacing, AtLeastOne
  <2> QED BY <2>1, <2>3 DEF AttackSettled
<1> QED BY <1>1, <1>2 DEF Init, AttackInv, Between, Phases

LEMMA AttackInvBegin == AttackInv /\ BeginFrame => AttackInv'
<1> SUFFICES ASSUME AttackInv, BeginFrame PROVE AttackInv'
  OBVIOUS
<1> DEFINE handled == [u \in Units |-> AllHandled(u)]
           ending == {u \in Units \ gone : current[u] # NoOp /\ handled[u].done}
           starting == {u \in Units \ gone : /\ current[u] = NoOp \/ u \in ending
                                             /\ handled[u].queued # << >>}
           first == [u \in starting |-> Head(handled[u].queued)]
<1>1. /\ pc = "idle" /\ pc' = "commands"
      /\ current' = [u \in Units |-> CASE u \in starting -> first[u]
                                       [] u \in ending \ starting -> NoOp
                                       [] OTHER -> current[u]]
      /\ cleaned' = {u \in ending : current[u].kind = "attack"}
      /\ attack' = [u \in Attackers |->
                      IF u \in cleaned' THEN [attack[u] EXCEPT !.windup = 0] ELSE attack[u]]
      /\ order' = [u \in Attackers |->
                     IF u \in starting /\ first[u].kind = "attack" THEN first[u] ELSE order[u]]
      /\ gone \subseteq gone' /\ since' = since /\ aim' = aim
  BY DEF BeginFrame, CleanedUp
<1>2. \A u \in Units : u \in ending => current[u] # NoOp /\ u \notin gone
  OBVIOUS
<1>3. \A u \in starting : u \in ending \/ current[u] = NoOp
  OBVIOUS
<1> HIDE DEF handled, ending, starting, first
<1>4. AttackType'
  BY <1>1 DEF AttackInv, AttackType
<1>5. ASSUME NEW u \in Attackers PROVE AttackSettled(u)'
  <2>1. u \in Units /\ AttackSettled(u) /\ attack[u] \in [windup : Nat, rest : Nat]
    BY <1>1, BattleAssumption DEF AttackInv, AttackType, Between
  <2>2. CASE u \in cleaned'
    BY <1>1, <2>1, <2>2 DEF AttackSettled
  <2>3. CASE u \notin cleaned'
    <3>1. attack'[u] = attack[u] /\ since'[u] = since[u]
      BY <1>1, <2>3
    <3>2. ASSUME attack[u].windup > 0, u \notin gone' PROVE Aimed(u)'
      <4>1. u \notin gone /\ Aimed(u)
        BY <1>1, <2>1, <3>2 DEF AttackSettled
      <4>2. u \notin ending /\ u \notin starting
        BY <1>1, <1>3, <2>3, <4>1 DEF Aimed
      <4>3. current'[u] = current[u] /\ order'[u] = order[u] /\ aim'[u] = aim[u]
        BY <1>1, <2>1, <4>2
      <4> QED BY <4>1, <4>3 DEF Aimed
    <3> QED BY <2>1, <3>1, <3>2 DEF AttackSettled, Earned
  <2> QED BY <2>2, <2>3
<1> QED BY <1>1, <1>4, <1>5 DEF AttackInv, Between, Phases

LEMMA AttackInvCommands == AttackInv /\ RunCommands => AttackInv'
<1> SUFFICES ASSUME AttackInv, NEW scanning, NEW arrived, NEW found, NEW funded,
                    CommandSystems(scanning, arrived, found, funded)
             PROVE  AttackInv'
  BY DEF RunCommands
<1>1. /\ pc = "commands" /\ pc' = "input"
      /\ strokes' = [u \in Attackers |-> AttackSteps(u, u \in scanning, found[u], u \in arrived)]
      /\ aim' = [u \in Attackers |-> IF attack[u].windup = 0 /\ strokes'[u].windup = 1
                                     THEN order[u].target ELSE aim[u]]
      /\ since' = [u \in Attackers |-> IF strokes'[u].strike # None THEN 0 ELSE since[u]]
      /\ attack' = attack /\ order' = order /\ current' = current /\ gone' = gone
  BY DEF CommandSystems, worldVars
<1>2. AttackType'
  BY <1>1 DEF AttackInv, AttackType
<1>3. ASSUME NEW u \in Attackers PROVE AttackStepped(u, strokes[u])'
  <2> DEFINE s == strokes'[u]
  <2>1. AttackSettled(u) /\ AttackType
    BY <1>1 DEF AttackInv, Between
  <2>2. s = AttackSteps(u, u \in scanning, found[u], u \in arrived)
    BY <1>1
  <2>3. /\ s.windup = None \/ s.windup \in Nat
        /\ s.reload \/ s.strike = None
        /\ s.windup # None /\ s.windup > 0 =>
             /\ s.windup <= AtLeastOne(Windup[u])
             /\ since[u] + 1 >= AtLeastOne(Reload[u]) + s.windup
             /\ Runs(u, "attack") /\ s.target = None /\ s.strike = None
             /\ attack[u].windup = 0 => s.windup = 1
        /\ s.windup = None => s.strike = None
        /\ s.windup = None /\ attack[u].windup > 0 => s.target = None
    BY StepsOfAttack, <2>1, <2>2
  <2>4. /\ attack[u].windup \in Nat
        /\ since'[u] = IF s.strike # None THEN 0 ELSE since[u]
        /\ aim'[u] = IF attack[u].windup = 0 /\ s.windup = 1 THEN order[u].target ELSE aim[u]
        /\ current'[u] = current[u] /\ order'[u] = order[u] /\ attack'[u] = attack[u]
    BY <1>1, <2>1 DEF AttackType
  <2> HIDE DEF s
  <2>5. s.reload \/ attack[u].rest <= since'[u]
    BY <2>1, <2>3, <2>4 DEF AttackSettled
  <2>6. s.windup = None /\ attack[u].windup > 0 => Earned(u, attack[u].windup, since'[u])
    BY <2>1, <2>3, <2>4 DEF AttackSettled
  <2>7. ASSUME s.windup = None, attack[u].windup > 0, u \notin gone
        PROVE  Aimed(u)' /\ s.target = None
    <3>1. Aimed(u) /\ aim'[u] = aim[u]
      BY <2>1, <2>4, <2>7 DEF AttackSettled
    <3> QED BY <2>3, <2>4, <2>7, <3>1 DEF Aimed
  <2>8. ASSUME s.windup # None, s.windup > 0
        PROVE  Earned(u, s.windup, since'[u] + 1) /\ Aimed(u)' /\ s.target = None
    <3>1. Earned(u, s.windup, since'[u] + 1)
      BY <2>3, <2>4, <2>8 DEF Earned
    <3>2. current[u] # NoOp /\ current[u].kind = "attack" /\ u \notin gone
      BY <2>3, <2>8 DEF Runs
    <3>3. aim'[u] = order[u].target
      BY <2>1, <2>3, <2>4, <2>8, <3>2 DEF AttackSettled, Aimed
    <3> QED BY <2>3, <2>4, <2>8, <3>1, <3>2, <3>3 DEF Aimed
  <2> QED BY <1>1, <2>3, <2>4, <2>5, <2>6, <2>7, <2>8 DEF AttackStepped, Earned, s
<1> QED BY <1>1, <1>2, <1>3 DEF AttackInv, Between, Phases

LEMMA AttackInvOrder == AttackInv /\ (\E u \in Units : Order(u)) => AttackInv'
<1> SUFFICES ASSUME AttackInv, NEW o \in Units, Order(o) PROVE AttackInv'
  OBVIOUS
<1>1. /\ pc = "input" /\ pc' = "ordered"
      /\ UNCHANGED <<attack, order, current, gone, strokes, aim, since>>
  BY DEF Order, attackVars, worldVars
<1> QED
  BY <1>1 DEF AttackInv, AttackType, Between, AttackStepped, Aimed, Earned, Phases

LEMMA AttackInvEnd == AttackInv /\ EndFrame => AttackInv'
<1> SUFFICES ASSUME AttackInv, NEW init,
                    order' = [u \in Attackers |-> Ordered(u, strokes[u], init[u])],
                    EndFrame
             PROVE  AttackInv'
  BY DEF EndFrame
<1>1. /\ pc \in {"input", "ordered"} /\ pc' = "idle"
      /\ attack' = [u \in Attackers |-> Attacked(u, strokes[u])]
      /\ since' = [u \in Attackers |-> Age(since[u], Spacing(u))]
      /\ current' = current /\ gone' = gone /\ aim' = aim
  BY DEF EndFrame, queueVars
<1>2. ASSUME NEW u \in Attackers
      PROVE  /\ AttackSettled(u)'
             /\ attack'[u] \in [windup : Nat, rest : Nat] /\ since'[u] \in Nat
  <2> DEFINE s == strokes[u]
             w == attack[u].windup
             rest == IF s.reload THEN 0 ELSE attack[u].rest
             next == IF s.windup = None THEN w ELSE s.windup
  <2>1. /\ w \in Nat /\ attack[u].rest \in Nat /\ since[u] \in Nat
        /\ Windup[u] \in Nat /\ Reload[u] \in Nat /\ None \notin Nat
    BY AttackAssumption DEF AttackInv, AttackType
  <2>2. AttackStepped(u, s)
    BY <1>1 DEF AttackInv, Between
  <2>3. /\ Spacing(u) \in Nat /\ Reload[u] < Spacing(u)
        /\ Spacing(u) = AtLeastOne(Reload[u]) + AtLeastOne(Windup[u])
        /\ AtLeastOne(Windup[u]) \in Nat /\ AtLeastOne(Reload[u]) \in Nat
    BY <2>1 DEF Spacing, AtLeastOne
  <2>4. attack'[u] = [windup |-> next, rest |-> Age(rest, Reload[u])]
    BY <1>1 DEF Attacked
  <2>5. since'[u] = Age(since[u], Spacing(u))
    BY <1>1
  <2>6. rest \in Nat /\ rest <= since[u]
    BY <2>1, <2>2 DEF AttackStepped
  <2>7. next \in Nat
    BY <2>1, <2>2 DEF AttackStepped
  <2>8. ASSUME next > 0 PROVE Earned(u, next, since[u] + 1)
    BY <2>1, <2>2, <2>3, <2>8 DEF AttackStepped, Earned
  <2>9. ASSUME next > 0, u \notin gone PROVE Aimed(u) /\ s.target = None
    BY <2>2, <2>9 DEF AttackStepped
  <2> HIDE DEF next, rest, s, w
  <2>10. /\ Age(rest, Reload[u]) \in Nat /\ since'[u] \in Nat
         /\ Age(rest, Reload[u]) <= since'[u] /\ since'[u] >= 1
    BY <2>1, <2>3, <2>5, <2>6 DEF Age
  <2>11. ASSUME next > 0 PROVE Earned(u, next, since'[u])
    BY <2>1, <2>3, <2>5, <2>7, <2>8, <2>11 DEF Age, Earned
  <2>12. ASSUME next > 0, u \notin gone' PROVE Aimed(u)'
    <3>1. Aimed(u) /\ s.target = None
      BY <1>1, <2>9, <2>12
    <3>2. order'[u] = AttackCommand(order[u].target, order[u].move, init[u], order[u].forced)
      BY <3>1 DEF Ordered, s
    <3>3. order'[u].target = order[u].target
      BY <3>2 DEF AttackCommand
    <3> QED BY <1>1, <3>1, <3>3 DEF Aimed
  <2>13. attack'[u].windup = next /\ attack'[u].rest = Age(rest, Reload[u])
    BY <2>4
  <2> QED BY <2>4, <2>7, <2>10, <2>11, <2>12, <2>13 DEF AttackSettled, Earned
<1>3. AttackType'
  BY <1>1, <1>2 DEF AttackType
<1> QED BY <1>1, <1>2, <1>3 DEF AttackInv, Between, Phases

(* The attack invariant, which the two theorems below need, holds in every  *)
(* state: a windup that is under way is behind a full reload, belongs to    *)
(* the command its unit runs, and has the target it began for, even while   *)
(* the steps of a frame wait to be applied.                                 *)
THEOREM AttackInvHolds == Spec => []AttackInv
<1>1. Init => AttackInv
  BY AttackInvInit
<1>2. AttackInv /\ [Next]_vars => AttackInv'
  <2> SUFFICES ASSUME AttackInv, [Next]_vars PROVE AttackInv'
    OBVIOUS
  <2>1. CASE BeginFrame
    BY <2>1, AttackInvBegin
  <2>2. CASE RunCommands
    BY <2>2, AttackInvCommands
  <2>3. CASE EndFrame
    BY <2>3, AttackInvEnd
  <2>4. CASE \E u \in Units : Order(u)
    BY <2>4, AttackInvOrder
  <2>5. CASE UNCHANGED vars
    <3>1. UNCHANGED <<pc, attack, order, current, gone, strokes, aim, since>>
      BY <2>5 DEF vars, attackVars, queueVars, worldVars
    <3> QED BY <3>1
      DEF AttackInv, AttackType, Between, AttackSettled, AttackStepped, Aimed, Earned, Phases
  <2> QED BY <2>1, <2>2, <2>3, <2>4, <2>5 DEF Next, FrameStep
<1> QED BY <1>1, <1>2, PTL DEF Spec

(* Only the systems of the commands strike.                                 *)
LEMMA StrikesInCommands ==
  ASSUME AttackInv, [Next]_vars, NEW u \in Attackers, Strikes(u)
  PROVE  /\ since[u] >= Spacing(u)
         /\ trigger'[u] = aim[u] /\ Lives(trigger'[u])
<1>1. CASE RunCommands
  <2>1. PICK scanning, arrived, found, funded : CommandSystems(scanning, arrived, found, funded)
    BY <1>1 DEF RunCommands
  <2>2. /\ pc = "commands"
        /\ strokes' = [x \in Attackers |-> AttackSteps(x, x \in scanning, found[x], x \in arrived)]
        /\ trigger' = [x \in Attackers |-> strokes'[x].strike]
        /\ aim' = [x \in Attackers |-> IF attack[x].windup = 0 /\ strokes'[x].windup = 1
                                        THEN order[x].target ELSE aim[x]]
    BY <2>1 DEF CommandSystems
  <2> DEFINE s == AttackSteps(u, u \in scanning, found[u], u \in arrived)
  <2>3. AttackType /\ AttackSettled(u) /\ attack[u].windup \in Nat
    BY <2>2 DEF AttackInv, Between, AttackType
  <2>4. trigger'[u] = s.strike /\ s.strike # None
    BY <2>2 DEF Strikes
  <2>5. aim'[u] = IF attack[u].windup = 0 /\ s.windup = 1 THEN order[u].target ELSE aim[u]
    BY <2>2
  <2>6. s.strike # None =>
          /\ since[u] >= Spacing(u) /\ Runs(u, "attack")
          /\ s.strike = order[u].target /\ Lives(s.strike) /\ attack[u].windup > 0
    BY <2>3, StepsOfAttack
  <2> HIDE DEF s
  <2>7. aim'[u] = aim[u] /\ Aimed(u)
    BY <2>3, <2>4, <2>5, <2>6 DEF AttackSettled, Runs
  <2> QED BY <2>4, <2>6, <2>7 DEF Aimed
<1>2. CASE BeginFrame
  BY <1>2 DEF BeginFrame, Strikes
<1>3. CASE EndFrame
  BY <1>3 DEF EndFrame, Strikes
<1>4. CASE \E x \in Units : Order(x)
  BY <1>4 DEF Order, attackVars, Strikes
<1>5. CASE UNCHANGED vars
  BY <1>5 DEF vars, attackVars, Strikes
<1> QED BY <1>1, <1>2, <1>3, <1>4, <1>5 DEF Next, FrameStep

(* Between two strikes of a unit there is always time for its reload and    *)
(* its windup, whatever becomes of its targets and commands.                *)
THEOREM StrikesSpacedHolds == Spec => StrikesSpaced
<1>1. AttackInv /\ [Next]_vars =>
        [\A u \in Attackers : Strikes(u) => since[u] >= Spacing(u)]_vars
  BY StrikesInCommands
<1> QED BY <1>1, AttackInvHolds, PTL DEF Spec, StrikesSpaced

(* A strike falls on the unit that the windup was begun for, which lives.   *)
THEOREM StrikesAimedHolds == Spec => StrikesAimed
<1>1. AttackInv /\ [Next]_vars =>
        [\A u \in Attackers : Strikes(u) =>
           trigger'[u] = aim[u] /\ Lives(trigger'[u])]_vars
  BY StrikesInCommands
<1> QED BY <1>1, AttackInvHolds, PTL DEF Spec, StrikesAimed

-----------------------------------------------------------------------------
(* The command u runs casts an ability that has cooled down and is paid for. *)
Prepared(u) ==
  LET a == current[u].ability
  IN /\ current[u] # NoOp /\ current[u].kind = "cast" /\ a \in Abilities
     /\ caster[u].last[a] >= Cooldown[a] /\ caster[u].stock >= Cost[a]

CasterType(u) ==
  caster[u].wind \in Nat \union {Unset} /\ caster[u].last \in [Abilities -> Nat]

(* No earlier command left its windup: that of u is of its command. *)
CastSettled(u) ==
  u \notin dropped =>
    begun[u] = caster[u].wind /\ (caster[u].wind # Unset => Prepared(u))

CastStepped(u, s) ==
  u \notin dropped =>
    /\ begun[u] = IF s.cast # Unset THEN Unset ELSE IF s.start THEN 0 ELSE caster[u].wind
    /\ s.cast = Unset /\ (s.start \/ caster[u].wind # Unset) => Prepared(u)

CastInv ==
  /\ pc \in Phases
  /\ \A u \in Casters : CasterType(u)
  /\ Between => \A u \in Casters : CastSettled(u)
  /\ ~ Between => \A u \in Casters : CastStepped(u, spells[u])

-----------------------------------------------------------------------------
(* The steps of the cast system.                                            *)
LEMMA StepsOfCast ==
  ASSUME NEW u \in Casters, NEW funded
  PROVE  LET s == CastSteps(u, funded)
         IN /\ s.start => Prepared(u)
            /\ s.cast # Unset => s.cast = current[u].ability /\ Elapsed(u, s.cast)
<1> DEFINE s == CastSteps(u, funded)
           c == current[u]
           inRange == c.target # None /\ Dist(u, c.target) <= CastRange
           ok == CanCast(u, c.ability, funded)
           near == c.ability \notin Targeted \/ inRange
           acts == (IF ok THEN << >> ELSE <<Done>>)
                   \o (IF Elapsed(u, c.ability) THEN <<Done>> ELSE << >>)
<1>1. CASE ~ Runs(u, "cast")
  <2>1. s = NoCast
    BY <1>1 DEF CastSteps
  <2> QED BY <2>1 DEF NoCast
<1>2. CASE Runs(u, "cast")
  <2>1. s = [cast  |-> IF Elapsed(u, c.ability) THEN c.ability ELSE Unset,
             start |-> ok /\ near /\ caster[u].wind = Unset,
             acts  |-> acts]
    BY <1>2 DEF CastSteps, Cast
  <2> HIDE DEF acts, near, ok, s
  <2>2. /\ s.start => ok
        /\ s.cast = IF Elapsed(u, c.ability) THEN c.ability ELSE Unset
    BY <2>1
  <2>3. ok => Prepared(u)
    BY <1>2 DEF ok, CanCast, Prepared, Runs
  <2> QED BY <2>2, <2>3 DEF s
<1> QED BY <1>1, <1>2

(* The cast invariant holds at the start, and every action keeps it. *)
LEMMA CastInvInit == Init => CastInv
<1> SUFFICES ASSUME Init PROVE CastInv
  OBVIOUS
<1>1. ASSUME NEW u \in Casters PROVE CasterType(u) /\ CastSettled(u)
  <2>1. caster[u] = [wind |-> Unset, last |-> Cooldown, stock |-> Stock] /\ begun[u] = Unset
    BY DEF Init, CastInit
  <2> QED BY <2>1, CastAssumption DEF CasterType, CastSettled
<1> QED BY <1>1 DEF Init, CastInv, Between, Phases

LEMMA CastInvBegin == CastInv /\ BeginFrame => CastInv'
<1> SUFFICES ASSUME CastInv, BeginFrame PROVE CastInv'
  OBVIOUS
<1> DEFINE handled == [u \in Units |-> AllHandled(u)]
           ending == {u \in Units \ gone : current[u] # NoOp /\ handled[u].done}
           starting == {u \in Units \ gone : /\ current[u] = NoOp \/ u \in ending
                                             /\ handled[u].queued # << >>}
           first == [u \in starting |-> Head(handled[u].queued)]
<1>1. /\ pc = "idle" /\ pc' = "commands"
      /\ current' = [u \in Units |-> CASE u \in starting -> first[u]
                                       [] u \in ending \ starting -> NoOp
                                       [] OTHER -> current[u]]
      /\ begun' = [u \in Casters |-> IF u \in ending THEN Unset ELSE begun[u]]
      /\ dropped' = dropped \union {u \in Casters \intersect ending : caster[u].wind # Unset}
      /\ caster' = caster
  BY DEF BeginFrame
<1>2. \A u \in starting : u \in ending \/ current[u] = NoOp
  OBVIOUS
<1> HIDE DEF handled, ending, starting, first
<1>3. ASSUME NEW u \in Casters PROVE CasterType(u)' /\ CastSettled(u)'
  <2>1. u \in Units /\ CasterType(u) /\ CastSettled(u)
    BY <1>1, BattleAssumption DEF CastInv, Between
  <2>2. CASE u \in ending
    BY <1>1, <2>1, <2>2 DEF CasterType, CastSettled
  <2>3. CASE u \notin ending /\ caster[u].wind = Unset
    BY <1>1, <2>1, <2>3 DEF CasterType, CastSettled
  <2>4. CASE u \notin ending /\ caster[u].wind # Unset
    <3>1. ASSUME u \notin dropped' PROVE Prepared(u)' /\ begun'[u] = caster'[u].wind
      <4>1. Prepared(u) /\ begun[u] = caster[u].wind
        BY <1>1, <2>1, <2>4, <3>1 DEF CastSettled
      <4>2. u \notin starting
        BY <1>2, <2>4, <4>1 DEF Prepared
      <4>3. current'[u] = current[u]
        BY <1>1, <2>1, <2>4, <4>2
      <4> QED BY <1>1, <2>4, <4>1, <4>3 DEF Prepared
    <3> QED BY <1>1, <2>1, <3>1 DEF CasterType, CastSettled
  <2> QED BY <2>2, <2>3, <2>4
<1> QED BY <1>1, <1>3 DEF CastInv, Between, Phases

LEMMA CastInvCommands == CastInv /\ RunCommands => CastInv'
<1> SUFFICES ASSUME CastInv, NEW scanning, NEW arrived, NEW found, NEW funded,
                    CommandSystems(scanning, arrived, found, funded)
             PROVE  CastInv'
  BY DEF RunCommands
<1>1. /\ pc = "commands" /\ pc' = "input"
      /\ spells' = [u \in Casters |-> CastSteps(u, funded)]
      /\ begun' = [u \in Casters |-> IF spells'[u].cast # Unset THEN Unset
                                     ELSE IF spells'[u].start THEN 0 ELSE begun[u]]
      /\ dropped' = {u \in dropped : spells'[u].cast = Unset}
      /\ caster' = caster /\ current' = current
  BY DEF CommandSystems
<1>2. ASSUME NEW u \in Casters PROVE CasterType(u)' /\ CastStepped(u, spells[u])'
  <2> DEFINE s == spells'[u]
  <2>1. CasterType(u) /\ CastSettled(u)
    BY <1>1 DEF CastInv, Between
  <2>2. s.start => Prepared(u)
    BY <1>1, StepsOfCast
  <2>3. begun'[u] = IF s.cast # Unset THEN Unset ELSE IF s.start THEN 0 ELSE begun[u]
    BY <1>1
  <2>4. ASSUME u \notin dropped', s.cast = Unset PROVE u \notin dropped
    BY <1>1, <2>4
  <2>5. Prepared(u)' = Prepared(u)
    BY <1>1 DEF Prepared
  <2> HIDE DEF s
  <2>6. ASSUME u \notin dropped', s.cast = Unset
        PROVE  /\ begun'[u] = IF s.start THEN 0 ELSE caster[u].wind
               /\ s.start \/ caster[u].wind # Unset => Prepared(u)
    BY <2>1, <2>2, <2>3, <2>4, <2>6 DEF CastSettled
  <2>7. u \notin dropped' =>
          /\ begun'[u] = IF s.cast # Unset THEN Unset ELSE IF s.start THEN 0 ELSE caster[u].wind
          /\ s.cast = Unset /\ (s.start \/ caster[u].wind # Unset) => Prepared(u)
    BY <2>3, <2>6
  <2> QED BY <1>1, <2>1, <2>5, <2>7 DEF CasterType, CastStepped, s
<1> QED BY <1>1, <1>2 DEF CastInv, Between, Phases

LEMMA CastInvOrder == CastInv /\ (\E u \in Units : Order(u)) => CastInv'
<1> SUFFICES ASSUME CastInv, NEW o \in Units, Order(o) PROVE CastInv'
  OBVIOUS
<1>1. pc = "input" /\ pc' = "ordered" /\ UNCHANGED <<caster, current, spells, begun, dropped>>
  BY DEF Order
<1> QED BY <1>1 DEF CastInv, CasterType, Between, CastStepped, Prepared, Phases

LEMMA CastInvEnd == CastInv /\ EndFrame => CastInv'
<1> SUFFICES ASSUME CastInv, EndFrame PROVE CastInv'
  OBVIOUS
<1>1. /\ pc \in {"input", "ordered"} /\ pc' = "idle"
      /\ caster' = [u \in Casters |-> Casted(u, spells[u])]
      /\ begun' = [u \in Casters |-> IF begun[u] = Unset THEN Unset
                                     ELSE Age(begun[u], LongestWindup)]
      /\ current' = current /\ dropped' = dropped
  BY DEF EndFrame, queueVars
<1>2. ASSUME NEW u \in Casters PROVE CasterType(u)' /\ CastSettled(u)'
  <2> DEFINE s == spells[u]
             wind == IF s.start THEN 0 ELSE caster[u].wind
             ends == s.cast # Unset \/ (caster[u].wind = Unset /\ ~ s.start)
             last == [a \in Abilities |->
                        Age(IF a = s.cast THEN 0 ELSE caster[u].last[a], Cooldown[a])]
  <2>1. CasterType(u) /\ CastStepped(u, s) /\ LongestWindup \in Nat /\ Unset \notin Nat
    BY <1>1, CastAssumption DEF CastInv, Between
  <2>2. /\ caster'[u].wind = IF ends THEN Unset ELSE Age(wind, LongestWindup)
        /\ caster'[u].last = last
        /\ s.cast = Unset => caster'[u].stock = caster[u].stock
    BY <1>1 DEF Casted
  <2>3. begun'[u] = IF begun[u] = Unset THEN Unset ELSE Age(begun[u], LongestWindup)
    BY <1>1
  <2>4. ASSUME ~ ends PROVE wind \in Nat
    BY <2>1, <2>4 DEF CasterType
  <2>5. last \in [Abilities -> Nat]
    BY <2>1, CastAssumption DEF CasterType, Age
  <2>6. ASSUME u \notin dropped PROVE begun[u] = IF ends THEN Unset ELSE wind
    BY <2>1, <2>6 DEF CastStepped
  <2>7. ASSUME u \notin dropped, ~ ends PROVE Prepared(u)'
    <3> DEFINE a == current[u].ability
    <3>1. Prepared(u) /\ s.cast = Unset
      BY <2>1, <2>7 DEF CastStepped
    <3>2. /\ a \in Abilities /\ a # Unset /\ Cooldown[a] \in Nat
          /\ caster[u].last[a] \in Nat /\ caster[u].last[a] >= Cooldown[a]
      BY <2>1, <3>1, CastAssumption DEF Prepared, CasterType
    <3>3. last[a] >= Cooldown[a]
      BY <3>1, <3>2 DEF Age
    <3> HIDE DEF last, ends, wind
    <3> QED BY <1>1, <2>2, <3>1, <3>3 DEF Prepared
  <2> HIDE DEF wind, ends, last
  <2>8. caster'[u].wind \in Nat \union {Unset}
    BY <2>1, <2>2, <2>4 DEF Age
  <2>9. u \notin dropped => begun'[u] = caster'[u].wind
    BY <2>1, <2>2, <2>3, <2>4, <2>6
  <2>10. caster'[u].wind # Unset => ~ ends
    BY <2>2
  <2> QED BY <1>1, <2>2, <2>5, <2>7, <2>8, <2>9, <2>10 DEF CasterType, CastSettled
<1> QED BY <1>1, <1>2 DEF CastInv, Between, Phases

(* The cast invariant holds in every state: a caster whose windup no        *)
(* earlier command left is preparing what its command casts, since then     *)
(* only, and may still cast it.                                             *)
THEOREM CastInvHolds == Spec => []CastInv
<1>1. CastInv /\ [Next]_vars => CastInv'
  <2> SUFFICES ASSUME CastInv, [Next]_vars PROVE CastInv'
    OBVIOUS
  <2>1. CASE UNCHANGED vars
    <3>1. UNCHANGED <<pc, caster, current, spells, begun, dropped>>
      BY <2>1 DEF vars, queueVars
    <3> QED BY <3>1
      DEF CastInv, CasterType, Between, CastSettled, CastStepped, Prepared, Phases
  <2> QED BY <2>1, CastInvBegin, CastInvCommands, CastInvOrder, CastInvEnd DEF Next, FrameStep
<1> QED BY <1>1, CastInvInit, PTL DEF Spec

(* A caster that carries no windup over casts what it has prepared, cooled  *)
(* down and can pay.                                                        *)
THEOREM CastsSoundHolds == Spec => CastsSound
<1> DEFINE Sound(u) ==
      LET a == spells'[u].cast
      IN /\ begun[u] # Unset /\ begun[u] >= CastWindup[a]
         /\ caster[u].last[a] >= Cooldown[a] /\ caster[u].stock >= Cost[a]
<1>1. ASSUME CastInv, [Next]_vars, NEW u \in Casters \ dropped, Casts(u)
      PROVE  Sound(u)
  <2>1. CASE RunCommands
    <3>1. PICK scanning, arrived, found, funded : CommandSystems(scanning, arrived, found, funded)
      BY <2>1 DEF RunCommands
    <3>2. pc = "commands" /\ spells'[u] = CastSteps(u, funded)
      BY <3>1 DEF CommandSystems
    <3>3. CastSettled(u)
      BY <3>2, <1>1 DEF CastInv, Between
    <3>4. spells'[u].cast = current[u].ability /\ Elapsed(u, spells'[u].cast)
      BY <3>2, <1>1, StepsOfCast DEF Casts
    <3> QED BY <3>3, <3>4 DEF Elapsed, CastSettled, Prepared
  <2>2. CASE BeginFrame
    BY <1>1, <2>2 DEF BeginFrame, Casts
  <2>3. CASE EndFrame
    BY <1>1, <2>3 DEF EndFrame, NoCast, Casts
  <2>4. CASE \E x \in Units : Order(x)
    BY <1>1, <2>4 DEF Order, Casts
  <2>5. CASE UNCHANGED vars
    BY <1>1, <2>5 DEF vars, Casts
  <2> QED BY <1>1, <2>1, <2>2, <2>3, <2>4, <2>5 DEF Next, FrameStep
<1>2. CastInv /\ [Next]_vars => [\A u \in Casters \ dropped : Casts(u) => Sound(u)]_vars
  BY <1>1
<1> QED BY <1>2, CastInvHolds, PTL DEF Spec, CastsSound

-----------------------------------------------------------------------------
(* AllHandled is a fold over the queued actions; the functions it is folded *)
(* by, and that one exists.                                                *)
Latest(T) == CHOOSE i \in T : \A j \in T : i >= j
FoldsUp(h, r, s) ==
  h = [T \in SUBSET DOMAIN s |->
         IF T = {} THEN r ELSE Handled(h[T \ {Latest(T)}], s[Latest(T)])]

(* What FoldLeft comes to. *)
LEMMA HandledByFold ==
  ASSUME NEW u
  PROVE  LET r == [queued |-> queued[u], done |-> FALSE]
         IN AllHandled(u) = (CHOOSE h : FoldsUp(h, r, actions[u]))[DOMAIN actions[u]]
BY DEF AllHandled, Seqs!FoldLeft, Seqs!MapThenFoldSet, FoldsUp, Latest, Seqs!Max

(* Actions that carry commands of C, and a queue of commands of C. *)
ActionsOn(C) == [do : {"done", "replace", "front", "back"}, cmds : Seq(C)]
QueueOf(C) == [queued : Seq(C), done : BOOLEAN]

(* An action turns a queue of such commands into another. *)
LEMMA HandledType ==
  ASSUME NEW C, NEW r \in QueueOf(C), NEW a \in ActionsOn(C)
  PROVE  Handled(r, a) \in QueueOf(C)
<1>1. /\ r = [queued |-> r.queued, done |-> r.done] /\ r.queued \in Seq(C) /\ r.done \in BOOLEAN
      /\ a.cmds \in Seq(C) /\ a.do \in {"done", "replace", "front", "back"}
  BY DEF QueueOf, ActionsOn
<1>2. /\ a.cmds \o r.queued \in Seq(C) /\ r.queued \o a.cmds \in Seq(C)
  BY <1>1, ConcatProperties
<1>3. CASE a.do = "done"
  <2>1. Handled(r, a) = [queued |-> r.queued, done |-> TRUE]
    BY <1>1, <1>3 DEF Handled
  <2> QED BY <1>1, <2>1 DEF QueueOf
<1>4. CASE a.do = "replace"
  <2>1. Handled(r, a) = [queued |-> a.cmds, done |-> r.done]
    BY <1>1, <1>4 DEF Handled
  <2> QED BY <1>1, <2>1 DEF QueueOf
<1>5. CASE a.do = "front"
  <2>1. Handled(r, a) = [queued |-> a.cmds \o r.queued, done |-> r.done]
    BY <1>1, <1>5 DEF Handled
  <2> QED BY <1>1, <1>2, <2>1 DEF QueueOf
<1>6. CASE a.do = "back"
  <2>1. Handled(r, a) = [queued |-> r.queued \o a.cmds, done |-> r.done]
    BY <1>1, <1>6 DEF Handled
  <2> QED BY <1>1, <1>2, <2>1 DEF QueueOf
<1> QED BY <1>1, <1>3, <1>4, <1>5, <1>6

(* Handling all the actions of a unit goes on from one to the next. *)
LEMMA FoldsUpExists ==
  ASSUME NEW C, NEW r \in QueueOf(C), NEW s \in Seq(ActionsOn(C))
  PROVE  \E h : FoldsUp(h, r, s)
<1> DEFINE D == DOMAIN s
           V == QueueOf(C)
           pick == [T \in SUBSET D |-> Latest(T)]
           step == [p \in (SUBSET D) \X V |-> Handled(p[2], s[Latest(p[1])])]
<1>1. IsFiniteSet(D) /\ D \subseteq Int /\ \A i \in D : s[i] \in ActionsOn(C)
  <2>1. Len(s) \in Nat /\ D = 1..Len(s)
    BY LenProperties
  <2> QED BY <2>1, FS_Interval, ElementOfSeq
<1>2. ASSUME NEW T \in SUBSET D, T # {} PROVE Latest(T) \in T
  <2>1. \E x \in T : \A y \in T : x >= y
    BY <1>1, <1>2, HasMax, FS_Subset
  <2> QED BY <2>1 DEF Latest
<1>3. ASSUME NEW T \in SUBSET D, T # {}, NEW v \in V PROVE step[<<T, v>>] \in V
  <2>1. s[Latest(T)] \in ActionsOn(C)
    BY <1>1, <1>2, <1>3
  <2>2. step[<<T, v>>] = Handled(v, s[Latest(T)])
    OBVIOUS
  <2> QED BY <2>1, <2>2, HandledType
<1>4. Descends(D, V, pick, step)
  BY <1>2, <1>3 DEF Descends
<1>5. PICK h \in [SUBSET D -> V] : Recurses(h, D, r, pick, step)
  <2> HIDE DEF D, V, pick, step
  <2> QED BY <1>1, <1>4, SubsetRecursion DEF V
<1>6. ASSUME NEW T \in SUBSET D
      PROVE  h[T] = IF T = {} THEN r ELSE Handled(h[T \ {Latest(T)}], s[Latest(T)])
  <2>1. h[T] = IF T = {} THEN r ELSE step[<<T, h[T \ {pick[T]}]>>]
    BY <1>5 DEF Recurses
  <2>2. h[T \ {Latest(T)}] \in V
    OBVIOUS
  <2> HIDE DEF V
  <2> QED BY <2>1, <2>2
<1>7. FoldsUp(h, r, s)
  BY <1>6 DEF FoldsUp
<1> QED BY <1>7

(* So do all the actions of a unit. *)
LEMMA AllHandledType ==
  ASSUME NEW u, NEW C, queued[u] \in Seq(C), actions[u] \in Seq(ActionsOn(C))
  PROVE  AllHandled(u) \in QueueOf(C)
<1> DEFINE r == [queued |-> queued[u], done |-> FALSE]
           s == actions[u]
           D == DOMAIN s
           h == CHOOSE h : FoldsUp(h, r, s)
           G == {T \in SUBSET D : h[T] \in QueueOf(C)}
<1>1. r \in QueueOf(C)
  BY DEF QueueOf
<1>2. FoldsUp(h, r, s)
  <2> HIDE DEF r
  <2> QED BY <1>1, FoldsUpExists
<1>3. IsFiniteSet(D) /\ D \subseteq Int /\ \A i \in D : s[i] \in ActionsOn(C)
  <2> HIDE DEF h, r, s
  <2>0. s \in Seq(ActionsOn(C))
    BY DEF s
  <2>1. Len(s) \in Nat /\ D = 1..Len(s)
    BY <2>0, LenProperties
  <2> QED BY <2>0, <2>1, FS_Interval, ElementOfSeq
<1>4. ASSUME NEW T \in SUBSET D, \A x \in T : T \ {x} \in G PROVE T \in G
  <2>0. h[T] = IF T = {} THEN r ELSE Handled(h[T \ {Latest(T)}], s[Latest(T)])
    <3> HIDE DEF h, r
    <3> QED BY <1>2 DEF FoldsUp
  <2>1. CASE T = {}
    BY <1>1, <2>0, <2>1
  <2>2. CASE T # {}
    <3>1. \E x \in T : \A y \in T : x >= y
      BY <1>3, <2>2, HasMax, FS_Subset
    <3>2. Latest(T) \in T
      BY <3>1 DEF Latest
    <3>3. h[T \ {Latest(T)}] \in QueueOf(C) /\ s[Latest(T)] \in ActionsOn(C)
      BY <1>3, <1>4, <3>2
    <3> HIDE DEF h
    <3> QED BY <2>0, <2>2, <3>3, HandledType
  <2> QED BY <2>1, <2>2
<1>5. SUBSET D \subseteq G
  <2> HIDE DEF D, G
  <2> QED BY <1>3, <1>4, SubsetsInSet
<1>6. h[D] \in QueueOf(C)
  <2> HIDE DEF h
  <2> QED BY <1>5
<1> QED BY <1>6, HandledByFold

-----------------------------------------------------------------------------
(* The state keeps its type, and the steps that wait to be applied have one. *)
Windups(u) == 0..AtLeastOne(Windup[u]) \union {None}
StrokeType(u, s) ==
  /\ s.windup \in Windups(u) /\ s.reload \in BOOLEAN
  /\ s.target \in Enemies(u) \union {None}

SpellType(s) == s.cast \in Abilities \union {Unset} /\ s.start \in BOOLEAN

BattleInv ==
  /\ TypeOK
  /\ DOMAIN actions = Units /\ shooters \subseteq Attackers
  /\ \A v \in Units : taken[v] \in Nat
  /\ \A u \in Casters : caster[u].stock \in Int
  /\ \A u \in Attackers : StrokeType(u, strokes[u])
  /\ \A u \in Casters : SpellType(spells[u])
  /\ Between => /\ \A u \in Attackers : trigger[u] = None
                /\ \A u \in Casters : spells[u].cast = Unset

(* The actions of a unit carry its commands. *)
LEMMA ActionsAre ==
  ASSUME NEW u \in Units
  PROVE  Actions[u] = ActionsOn(Commands[u])
BY DEF Actions, ActionsOn

(* The actions that units and players queue. *)
LEMMA QueuedActions ==
  ASSUME NEW C, NEW c \in C
  PROVE  /\ Done \in ActionsOn(C) /\ Front(c) \in ActionsOn(C) /\ Back(c) \in ActionsOn(C)
         /\ Replace(<< >>) \in ActionsOn(C) /\ Replace(<<c>>) \in ActionsOn(C)
<1>1. << >> \in Seq(C) /\ <<c>> \in Seq(C)
  BY EmptySeq
<1> QED BY <1>1 DEF Done, Front, Back, Replace, ActionsOn

(* The commands of a unit, by their kinds. *)
LEMMA OrdersAre ==
  ASSUME NEW u \in Units
  PROVE  /\ AttackCommands[u] \subseteq Commands[u]
         /\ \A c \in Commands[u] : c.kind = "attack" => c \in AttackCommands[u]
         /\ \A c \in Commands[u] : c.kind = "cast" =>
              c.ability \in Abilities /\ c.target \in Enemies(u) \union {None}
         /\ \A c \in AttackCommands[u] : /\ c.kind = "attack"
              /\ c.target \in Enemies(u) \union {None}
              /\ c.move \in BOOLEAN /\ c.init \in BOOLEAN /\ c.forced \in BOOLEAN
         /\ \A t \in Enemies(u) \union {None} : \A m, i, f \in BOOLEAN :
              AttackCommand(t, m, i, f) \in AttackCommands[u]
         /\ \A t \in Enemies(u) \union {None} : \A a \in Abilities :
              CastCommand(a, t) \in Commands[u]
<1> DEFINE E == Enemies(u) \union {None}
           A == [kind : {"attack"}, target : E, move : BOOLEAN, init : BOOLEAN, forced : BOOLEAN]
           B == [kind : {"cast"}, ability : Abilities, target : E]
<1>1. AttackCommands[u] = A /\ Commands[u] = A \union B
  BY DEF AttackCommands, Commands
<1> HIDE DEF E
<1>2. \A c \in B : c.kind = "cast" /\ c.ability \in Abilities /\ c.target \in E
  OBVIOUS
<1>3. \A c \in A : c.kind = "attack" /\ c.target \in E
                   /\ c.move \in BOOLEAN /\ c.init \in BOOLEAN /\ c.forced \in BOOLEAN
  OBVIOUS
<1>4. \A t \in E : \A m, i, f \in BOOLEAN : AttackCommand(t, m, i, f) \in A
  BY DEF AttackCommand
<1>5. \A t \in E : \A a \in Abilities : CastCommand(a, t) \in B
  BY DEF CastCommand
<1> HIDE DEF A, B
<1> QED BY <1>1, <1>2, <1>3, <1>4, <1>5 DEF E

(* The steps of the attack system. *)
LEMMA StrokesTyped ==
  ASSUME NEW u \in Attackers, NEW scans, NEW v \in Enemies(u) \union {None}, NEW arrived,
         attack[u] \in [windup : 0..AtLeastOne(Windup[u]), rest : 0..Reload[u]],
         order[u] \in AttackCommands[u]
  PROVE  LET s == AttackSteps(u, scans, v, arrived)
         IN /\ StrokeType(u, s) /\ s.strike \in Enemies(u) \union {None}
            /\ s.acts \in Seq(ActionsOn(Commands[u]))
<1> DEFINE s == AttackSteps(u, scans, v, arrived)
           alive == {w \in Units : Lives(w)}
           close == {w \in Enemies(u) : Dist(u, w) <= Reach[u]}
           w == attack[u].windup
           top == AtLeastOne(Windup[u])
           E == Enemies(u) \union {None}
           A == ActionsOn(Commands[u])
<1>0. u \in Units
  BY BattleAssumption
<1>1. /\ w \in 0..top /\ Windup[u] \in Nat /\ top \in Nat /\ top >= 1 /\ Windup[u] <= top
      /\ order[u].target \in E /\ None \in E /\ {0, 1, None} \subseteq Windups(u)
      /\ \A n \in 0..top : n \in Windups(u)
  <2>1. Windup[u] \in Nat
    BY AttackAssumption
  <2>2. top \in Nat /\ top >= 1 /\ Windup[u] <= top
    BY <2>1 DEF AtLeastOne
  <2>3. order[u].target \in E
    BY <1>0, OrdersAre
  <2> QED BY <2>1, <2>2, <2>3 DEF Windups
<1>2. AttackCommand(v, TRUE, TRUE, FALSE) \in Commands[u]
  BY <1>0, OrdersAre
<1>3. /\ << >> \in Seq(A) /\ <<Done>> \in Seq(A)
      /\ <<Front(AttackCommand(v, TRUE, TRUE, FALSE))>> \in Seq(A)
  <2>1. Done \in A /\ Front(AttackCommand(v, TRUE, TRUE, FALSE)) \in A
    BY <1>2, QueuedActions
  <2> HIDE DEF A
  <2>2. \A a \in A : <<a>> \in Seq(A)
    OBVIOUS
  <2>3. PICK f \in A : f = Front(AttackCommand(v, TRUE, TRUE, FALSE))
    BY <2>1
  <2>4. << >> \in Seq(A) /\ <<Done>> \in Seq(A) /\ <<f>> \in Seq(A)
    BY <2>1, <2>2
  <2> QED BY <2>3, <2>4
<1> HIDE DEF A, E, top, w
<1>4. CASE s = Nothing
  BY <1>1, <1>3, <1>4 DEF Nothing, StrokeType, E, A
<1>5. CASE s = Idle(u, scans, v)
  <2> DEFINE looks == scans \/ ~ order[u].init
             acts == IF looks /\ v # None
                     THEN <<Front(AttackCommand(v, TRUE, TRUE, FALSE))>> ELSE << >>
  <2>1. s = [Nothing EXCEPT !.init = ~ order[u].init, !.acts = acts]
    BY <1>5 DEF Idle
  <2>2. acts \in Seq(A)
    BY <1>3
  <2> HIDE DEF acts, s
  <2>3. s.windup = None /\ s.reload = FALSE /\ s.target = None /\ s.strike = None /\ s.acts = acts
    BY <2>1 DEF Nothing
  <2> QED BY <1>1, <2>2, <2>3 DEF StrokeType, A, E, s
<1>6. CASE s = Lost(u, v, arrived)
  <2> DEFINE acts == IF order[u].move /\ ~ arrived THEN << >> ELSE <<Done>>
  <2>1. \/ s = [[Nothing EXCEPT !.init = ~ order[u].init] EXCEPT !.target = v, !.windup = 0]
        \/ s = [[Nothing EXCEPT !.init = ~ order[u].init] EXCEPT !.acts = acts]
    BY <1>6 DEF Lost
  <2>2. acts \in Seq(A)
    BY <1>3
  <2> HIDE DEF acts, s
  <2>3. /\ s.reload = FALSE /\ s.strike = None /\ s.target \in {v, None}
        /\ s.windup \in {None, 0} /\ s.acts \in {acts, << >>}
    BY <2>1 DEF Nothing
  <2> QED BY <1>1, <1>3, <2>2, <2>3 DEF StrokeType, A, E, s
<1>7. CASE s = WindingUp(u)
  <2>1. CASE w >= Windup[u]
    <3>1. s = [Nothing EXCEPT !.strike = order[u].target, !.windup = 0, !.reload = TRUE]
      BY <1>7, <2>1 DEF WindingUp, w
    <3> HIDE DEF s
    <3>2. /\ s.windup = 0 /\ s.reload = TRUE /\ s.strike = order[u].target /\ s.target = None
          /\ s.acts = << >>
      BY <3>1 DEF Nothing
    <3> QED BY <1>1, <1>3, <3>2 DEF StrokeType, A, E, s
  <2>2. CASE ~ (w >= Windup[u])
    <3>1. s = [Nothing EXCEPT !.windup = w + 1]
      BY <1>7, <2>2 DEF WindingUp, w
    <3> HIDE DEF s
    <3>2. /\ s.windup = w + 1 /\ s.reload = FALSE /\ s.strike = None /\ s.target = None
          /\ s.acts = << >>
      BY <3>1 DEF Nothing
    <3>3. w + 1 \in 0..top
      BY <1>1, <2>2
    <3> QED BY <1>1, <1>3, <3>2, <3>3 DEF StrokeType, A, E, s
  <2> QED BY <2>1, <2>2
<1>8. CASE s = Approach(u, close, scans, v)
  <2>1. s.windup = None /\ s.reload = FALSE /\ s.target \in {v, None} /\ s.strike = None /\ s.acts = << >>
    <3> HIDE DEF close, s
    <3> QED BY <1>8 DEF Approach, Nothing
  <2> QED BY <1>1, <1>3, <2>1 DEF StrokeType, A, E
<1>9. CASE s = Ready(u)
  <2>1. s.windup \in {None, 1} /\ s.reload = FALSE /\ s.target = None /\ s.strike = None /\ s.acts = << >>
    <3> HIDE DEF s
    <3> QED BY <1>9 DEF Ready, Nothing
  <2> QED BY <1>1, <1>3, <2>1 DEF StrokeType, A, E
<1>10. \/ s = Nothing \/ s = Idle(u, scans, v) \/ s = Lost(u, v, arrived) \/ s = WindingUp(u)
       \/ s = Approach(u, close, scans, v) \/ s = Ready(u)
  BY DEF AttackSteps, Running
<1> QED BY <1>4, <1>5, <1>6, <1>7, <1>8, <1>9, <1>10 DEF A, E

(* The steps of the cast system. *)
LEMMA SpellsTyped ==
  ASSUME NEW u \in Casters, NEW funded, current[u] \in Commands[u] \union {NoOp}
  PROVE  LET s == CastSteps(u, funded)
         IN SpellType(s) /\ s.acts \in Seq(ActionsOn(Commands[u]))
<1> DEFINE s == CastSteps(u, funded)
           c == current[u]
           inRange == c.target # None /\ Dist(u, c.target) <= CastRange
           ok == CanCast(u, c.ability, funded)
           near == c.ability \notin Targeted \/ inRange
           elapsed == Elapsed(u, c.ability)
           acts == (IF ok THEN << >> ELSE <<Done>>) \o (IF elapsed THEN <<Done>> ELSE << >>)
           A == ActionsOn(Commands[u])
<1>0. u \in Units
  BY BattleAssumption
<1>1. Done \in A
  <2>1. AttackCommand(None, TRUE, TRUE, FALSE) \in Commands[u]
    BY <1>0, OrdersAre
  <2> QED BY <2>1, QueuedActions
<1> HIDE DEF A
<1>2. << >> \in Seq(A) /\ <<Done>> \in Seq(A)
  BY <1>1
<1>3. CASE ~ Runs(u, "cast")
  <2>1. s = NoCast
    BY <1>3 DEF CastSteps
  <2> QED BY <1>2, <2>1 DEF NoCast, SpellType, A
<1>4. CASE Runs(u, "cast")
  <2>1. s = [cast |-> IF elapsed THEN c.ability ELSE Unset,
             start |-> ok /\ near /\ caster[u].wind = Unset, acts |-> acts]
    BY <1>4 DEF CastSteps, Cast
  <2>2. c.ability \in Abilities
    BY <1>0, <1>4, OrdersAre DEF Runs
  <2>3. acts \in Seq(A)
    BY <1>2, ConcatProperties
  <2> HIDE DEF acts, near, ok, elapsed, s
  <2>4. s.cast \in {c.ability, Unset} /\ s.start \in BOOLEAN /\ s.acts = acts
    BY <2>1 DEF ok, near
  <2> QED BY <2>2, <2>3, <2>4 DEF SpellType, A, s
<1> QED BY <1>3, <1>4

-----------------------------------------------------------------------------
(* The larger and the smaller of two integers. *)
LEMMA MaxOfTwo ==
  ASSUME NEW a \in Int, NEW b \in Int
  PROVE  Max({a, b}) = IF a >= b THEN a ELSE b
<1> DEFINE m == IF a >= b THEN a ELSE b
<1>1. m \in {a, b} /\ \A y \in {a, b} : m >= y
  OBVIOUS
<1>2. \A x \in {a, b} : (\A y \in {a, b} : x >= y) => x = m
  OBVIOUS
<1> HIDE DEF m
<1>3. Max({a, b}) = m
  BY <1>1, <1>2 DEF Max
<1> QED BY <1>3 DEF m

LEMMA MinOfTwo ==
  ASSUME NEW a \in Int, NEW b \in Int
  PROVE  Min({a, b}) = IF a <= b THEN a ELSE b
<1> DEFINE m == IF a <= b THEN a ELSE b
<1>1. m \in {a, b} /\ \A y \in {a, b} : m <= y
  OBVIOUS
<1>2. \A x \in {a, b} : (\A y \in {a, b} : x <= y) => x = m
  OBVIOUS
<1> HIDE DEF m
<1>3. Min({a, b}) = m
  BY <1>1, <1>2 DEF Min
<1> QED BY <1>3 DEF m

(* Clamping between nothing and the maximum. *)
LEMMA ValidatedIs ==
  ASSUME NEW v \in Units, NEW n \in Int
  PROVE  /\ Validated(v, n) \in 0..HitPoints[v]
         /\ Validated(v, n) = IF n < 0 THEN 0 ELSE IF n > HitPoints[v] THEN HitPoints[v] ELSE n
<1>1. HitPoints[v] \in Nat
  BY BattleAssumption
<1>2. Min({n, HitPoints[v]}) = IF n <= HitPoints[v] THEN n ELSE HitPoints[v]
  BY <1>1, MinOfTwo
<1>3. Max({0, Min({n, HitPoints[v]})}) =
        IF 0 >= Min({n, HitPoints[v]}) THEN 0 ELSE Min({n, HitPoints[v]})
  BY <1>1, <1>2, MaxOfTwo
<1> QED BY <1>1, <1>2, <1>3 DEF Validated

(* The finite sets that are summed over, and the naturals that are summed.  *)
LEMMA Finite == IsFiniteSet(Attackers) /\ IsFiniteSet(Casters) /\ IsFiniteSet(Pairs)
<1>1. IsFiniteSet(Units \X Units)
  BY BattleAssumption, FS_Product
<1>2. Pairs \subseteq Units \X Units
  BY DEF Pairs
<1> QED BY <1>1, <1>2, BattleAssumption, FS_Subset

LEMMA StruckNat ==
  ASSUME NEW v, NEW by \in SUBSET Attackers, NEW targets
  PROVE  Struck(v, by, targets) \in Nat
<1> DEFINE f == [u \in by |-> IF targets[u] = v THEN Damage[u] ELSE 0]
<1>1. f \in [by -> Nat]
  BY BattleAssumption
<1>2. IsFiniteSet(by)
  BY Finite, FS_Subset
<1> HIDE DEF f
<1>3. SumFunction(f) \in Nat
  BY <1>1, <1>2, SumNat
<1> QED BY <1>3 DEF Struck, f

LEMMA ShotNat ==
  ASSUME NEW v \in Units, shooters \subseteq Attackers,
         NEW number, \A p \in Pairs : number[p] \in Nat
  PROVE  Shot(v, number) \in Nat
<1> DEFINE f == [u \in shooters |-> IF v \in Enemies(u) THEN number[<<u, v>>] * Damage[u] ELSE 0]
<1>1. ASSUME NEW u \in shooters PROVE f[u] \in Nat
  <2>1. Damage[u] \in Nat
    BY BattleAssumption
  <2>2. CASE v \in Enemies(u)
    <3>1. <<u, v>> \in Pairs
      BY <2>2, BattleAssumption DEF Pairs
    <3>2. number[<<u, v>>] \in Nat
      BY <3>1
    <3> QED BY <2>1, <2>2, <3>2
  <2>3. CASE v \notin Enemies(u)
    BY <2>3
  <2> QED BY <2>2, <2>3
<1>2. f \in [shooters -> Nat]
  BY <1>1
<1>3. IsFiniteSet(shooters)
  BY Finite, FS_Subset
<1> HIDE DEF f
<1>4. SumFunction(f) \in Nat
  BY <1>2, <1>3, SumNat
<1> QED BY <1>4 DEF Shot, f

LEMMA SpelledNat ==
  ASSUME NEW v, NEW steps, \A u \in Casters : SpellType(steps[u])
  PROVE  Spelled(v, steps) \in Nat
<1> DEFINE f == [u \in Casters |-> IF steps[u].cast # Unset /\ current[u].target = v
                                   THEN CastDamage[steps[u].cast] ELSE 0]
<1>1. f \in [Casters -> Nat]
  BY BattleAssumption DEF SpellType
<1> HIDE DEF f
<1>2. SumFunction(f) \in Nat
  BY <1>1, Finite, SumNat
<1> QED BY <1>2 DEF Spelled, f

(* The projectiles that land are among those on their way. *)
LEMMA LandingsAre ==
  ASSUME NEW landed \in Landings, \A p \in Pairs : shots[p] \in Nat
  PROVE  \A p \in Pairs : landed[p] \in Nat /\ landed[p] <= shots[p]
<1> SUFFICES ASSUME NEW p \in Pairs PROVE landed[p] \in Nat
  BY DEF Landings
<1> DEFINE R == {shots[q] : q \in Pairs}
<1>1. PICK x \in Pairs : \A y \in Pairs : shots[x] >= shots[y]
  BY Finite, HasMaxOver
<1>2. shots[x] \in R /\ \A r \in R : shots[x] >= r
  BY <1>1
<1>3. Max(R) \in R
  <2> HIDE DEF R
  <2> QED BY <1>2 DEF Max
<1>4. Max(R) \in Nat
  BY <1>3
<1> QED BY <1>4 DEF Landings

-----------------------------------------------------------------------------
(* The invariant of types holds at the start, and every action keeps it. *)
LEMMA BattleInvInit == Init => BattleInv
<1> SUFFICES ASSUME Init PROVE BattleInv
  OBVIOUS
<1> USE DEF Init
<1>1. ASSUME NEW u \in Attackers
      PROVE  /\ attack[u] \in [windup : 0..AtLeastOne(Windup[u]), rest : 0..Reload[u]]
             /\ order[u] \in AttackCommands[u] /\ trigger[u] = None
             /\ since[u] \in 0..Spacing(u) /\ StrokeType(u, strokes[u])
  <2>1. u \in Units /\ Windup[u] \in Nat /\ Reload[u] \in Nat
    BY BattleAssumption, AttackAssumption
  <2>2. /\ AtLeastOne(Windup[u]) \in Nat /\ Spacing(u) \in Nat
    BY <2>1 DEF AtLeastOne, Spacing
  <2>3. /\ attack[u] = [windup |-> 0, rest |-> 0] /\ since[u] = Spacing(u)
        /\ order[u] = AttackCommand(None, FALSE, FALSE, FALSE)
        /\ trigger[u] = None /\ strokes[u] = Nothing
    <3>1. attack[u] \in [windup : {0}, rest : {0}]
      BY DEF AttackInit
    <3> QED BY <3>1 DEF AttackInit
  <2>4. order[u] \in AttackCommands[u]
    BY <2>1, <2>3, OrdersAre
  <2>5. StrokeType(u, Nothing)
    BY DEF StrokeType, Nothing, Windups
  <2>6. attack[u] \in [windup : 0..AtLeastOne(Windup[u]), rest : 0..Reload[u]]
    BY <2>1, <2>2, <2>3
  <2>7. since[u] \in 0..Spacing(u)
    BY <2>2, <2>3
  <2> QED BY <2>3, <2>4, <2>5, <2>6, <2>7
<1>2. ASSUME NEW u \in Casters
      PROVE  /\ caster[u].wind \in 0..LongestWindup \union {Unset}
             /\ \A a \in Abilities : caster[u].last[a] \in 0..Cooldown[a]
             /\ caster[u].stock <= Stock /\ caster[u].stock \in Int
             /\ begun[u] \in 0..LongestWindup \union {Unset}
             /\ SpellType(spells[u]) /\ spells[u].cast = Unset
  <2>1. /\ caster[u] = [wind |-> Unset, last |-> Cooldown, stock |-> Stock]
        /\ begun[u] = Unset /\ spells[u] = NoCast
    BY DEF CastInit
  <2>2. \A a \in Abilities : Cooldown[a] \in 0..Cooldown[a]
    BY CastAssumption
  <2>3. Stock \in Int /\ Stock <= Stock
    BY CastAssumption
  <2>4. SpellType(spells[u]) /\ spells[u].cast = Unset
    BY <2>1 DEF SpellType, NoCast
  <2> QED BY <2>1, <2>2, <2>3, <2>4
<1>3. ASSUME NEW u \in Units
      PROVE  /\ current[u] \in Commands[u] \union {NoOp}
             /\ queued[u] \in Seq(Commands[u]) /\ actions[u] \in Seq(Actions[u])
             /\ hp[u] \in 0..HitPoints[u] /\ u \notin gone
             /\ taken[u] \in Nat
  BY EmptySeq, BattleAssumption
<1>4. \A p \in DOMAIN dist : dist[p] \in 0..Far
  BY BattleAssumption
<1>5. \A p \in Pairs : shots[p] \in Nat
  OBVIOUS
<1>6. DOMAIN actions = Units /\ shooters \subseteq Attackers /\ pc = "idle"
  OBVIOUS
<1>7. TypeOK
  BY <1>1, <1>2, <1>3, <1>4, <1>5, <1>6 DEF TypeOK
<1> QED BY <1>1, <1>2, <1>3, <1>6, <1>7 DEF BattleInv

(* What a unit waits for after its actions are commands it may run. *)
LEMMA BattleInvBegin == BattleInv /\ BeginFrame => BattleInv'
<1> SUFFICES ASSUME BattleInv, BeginFrame PROVE BattleInv'
  OBVIOUS
<1> DEFINE handled == [u \in Units |-> AllHandled(u)]
           ending == {u \in Units \ gone : current[u] # NoOp /\ handled[u].done}
           starting == {u \in Units \ gone : /\ current[u] = NoOp \/ u \in ending
                                             /\ handled[u].queued # << >>}
           first == [u \in starting |-> Head(handled[u].queued)]
<1>1. /\ pc = "idle" /\ pc' = "commands"
      /\ current' = [u \in Units |-> CASE u \in starting -> first[u]
                                       [] u \in ending \ starting -> NoOp
                                       [] OTHER -> current[u]]
      /\ queued' = [u \in Units |-> CASE u \in gone -> queued[u]
                                      [] u \in starting -> Tail(handled[u].queued)
                                      [] OTHER -> handled[u].queued]
      /\ actions' = [u \in Units |-> IF u \in gone THEN actions[u] ELSE << >>]
      /\ attack' = [u \in Attackers |->
                      IF u \in cleaned' THEN [attack[u] EXCEPT !.windup = 0] ELSE attack[u]]
      /\ order' = [u \in Attackers |->
                     IF u \in starting /\ first[u].kind = "attack" THEN first[u] ELSE order[u]]
      /\ gone' = gone \union Dying
      /\ begun' = [u \in Casters |-> IF u \in ending THEN Unset ELSE begun[u]]
      /\ UNCHANGED <<trigger, caster, hp, dist, shooters, shots, strokes, spells, since, taken>>
  BY DEF BeginFrame, CleanedUp
<1>2. TypeOK /\ Between
  BY <1>1 DEF BattleInv, Between
<1>3. ASSUME NEW u \in Units
      PROVE  /\ handled[u].queued \in Seq(Commands[u])
             /\ u \in starting => first[u] \in Commands[u] /\ Tail(handled[u].queued) \in Seq(Commands[u])
  <2>1. queued[u] \in Seq(Commands[u]) /\ actions[u] \in Seq(ActionsOn(Commands[u]))
    BY <1>2, ActionsAre DEF TypeOK
  <2>2. AllHandled(u) \in QueueOf(Commands[u])
    BY <2>1, AllHandledType
  <2>3. handled[u].queued \in Seq(Commands[u])
    BY <2>2 DEF QueueOf
  <2>4. ASSUME u \in starting
        PROVE  first[u] \in Commands[u] /\ Tail(handled[u].queued) \in Seq(Commands[u])
    <3>1. handled[u].queued # << >> /\ first[u] = Head(handled[u].queued)
      BY <2>4
    <3> HIDE DEF first, handled
    <3> QED BY <2>3, <3>1, HeadTailProperties
  <2> QED BY <2>3, <2>4
<1> HIDE DEF handled, ending, starting, first
<1>4. ASSUME NEW u \in Units
      PROVE  /\ current'[u] \in Commands[u] \union {NoOp}
             /\ queued'[u] \in Seq(Commands[u]) /\ actions'[u] \in Seq(Actions[u])
             /\ hp'[u] \in 0..HitPoints[u] /\ (u \in gone' => hp'[u] = 0)
             /\ taken'[u] \in Nat
  <2>1. /\ current[u] \in Commands[u] \union {NoOp}
        /\ queued[u] \in Seq(Commands[u]) /\ actions[u] \in Seq(Actions[u])
        /\ hp[u] \in 0..HitPoints[u] /\ (u \in gone => hp[u] = 0) /\ taken[u] \in Nat
    BY <1>2 DEF TypeOK, BattleInv
  <2>2. current'[u] \in Commands[u] \union {NoOp}
    BY <1>1, <1>3, <2>1
  <2>3. queued'[u] \in Seq(Commands[u])
    BY <1>1, <1>3, <2>1
  <2>4. actions'[u] \in Seq(Actions[u])
    BY <1>1, <2>1, EmptySeq
  <2>5. u \in gone' => hp'[u] = 0
    BY <1>1, <2>1 DEF Dying
  <2> QED BY <1>1, <2>1, <2>2, <2>3, <2>4, <2>5
<1>5. ASSUME NEW u \in Attackers
      PROVE  /\ attack'[u] \in [windup : 0..AtLeastOne(Windup[u]), rest : 0..Reload[u]]
             /\ order'[u] \in AttackCommands[u]
  <2>1. /\ attack[u] \in [windup : 0..AtLeastOne(Windup[u]), rest : 0..Reload[u]]
        /\ order[u] \in AttackCommands[u] /\ u \in Units
    BY <1>2, BattleAssumption DEF TypeOK
  <2>2. 0 \in 0..AtLeastOne(Windup[u])
    BY AttackAssumption DEF AtLeastOne
  <2>3. attack'[u] \in [windup : 0..AtLeastOne(Windup[u]), rest : 0..Reload[u]]
    BY <1>1, <2>1, <2>2
  <2>4. order'[u] \in AttackCommands[u]
    <3>1. CASE u \in starting /\ first[u].kind = "attack"
      BY <1>1, <1>3, <2>1, <3>1, OrdersAre
    <3>2. CASE ~ (u \in starting /\ first[u].kind = "attack")
      BY <1>1, <2>1, <3>2
    <3> QED BY <3>1, <3>2
  <2> QED BY <2>3, <2>4
<1>6. TypeOK'
  BY <1>1, <1>2, <1>4, <1>5 DEF TypeOK
<1>7. DOMAIN actions' = Units
  BY <1>1
<1> QED BY <1>1, <1>4, <1>6, <1>7 DEF BattleInv, Between

(* The steps the systems leave, and the actions they queue, have their type. *)
LEMMA BattleInvCommands == BattleInv /\ RunCommands => BattleInv'
<1> SUFFICES ASSUME BattleInv, RunCommands PROVE BattleInv'
  OBVIOUS
<1> DEFINE finds == [u \in Attackers |-> IF Findable(u) = {} THEN {None} ELSE Findable(u)]
<1>0. PICK scanning, arrived, found, funded :
        /\ \A u \in Attackers : found[u] \in finds[u]
        /\ CommandSystems(scanning, arrived, found, funded)
  BY DEF RunCommands
<1>1. /\ pc = "commands" /\ pc' = "input"
      /\ strokes' = [u \in Attackers |-> AttackSteps(u, u \in scanning, found[u], u \in arrived)]
      /\ spells' = [u \in Casters |-> CastSteps(u, funded)]
      /\ trigger' = [u \in Attackers |-> strokes'[u].strike]
      /\ actions' = [u \in Units |-> actions[u] \o Acts(u)]
      /\ since' = [u \in Attackers |-> IF strokes'[u].strike # None THEN 0 ELSE since[u]]
      /\ begun' = [u \in Casters |-> IF spells'[u].cast # Unset THEN Unset
                                     ELSE IF spells'[u].start THEN 0 ELSE begun[u]]
      /\ taken' = [v \in Units |-> IF v \in gone THEN taken[v]
                     ELSE taken[v] + Struck(v, Attackers, trigger') + Spelled(v, spells')]
      /\ UNCHANGED <<attack, order, caster, current, queued, hp, gone, dist, shooters, shots>>
  BY <1>0 DEF CommandSystems, worldVars
<1>2. TypeOK
  BY DEF BattleInv
<1>3. ASSUME NEW u \in Attackers PROVE found[u] \in Enemies(u) \union {None}
  BY <1>0 DEF Findable
<1> HIDE DEF finds
<1>4. ASSUME NEW u \in Attackers
      PROVE  /\ StrokeType(u, strokes'[u]) /\ strokes'[u].acts \in Seq(Actions[u])
             /\ trigger'[u] \in Enemies(u) \union {None} /\ since'[u] \in 0..Spacing(u)
  <2>1. /\ attack[u] \in [windup : 0..AtLeastOne(Windup[u]), rest : 0..Reload[u]]
        /\ order[u] \in AttackCommands[u] /\ u \in Units /\ since[u] \in 0..Spacing(u)
    BY <1>2, BattleAssumption DEF TypeOK
  <2> DEFINE s == AttackSteps(u, u \in scanning, found[u], u \in arrived)
  <2>2. /\ StrokeType(u, s) /\ s.strike \in Enemies(u) \union {None}
        /\ s.acts \in Seq(ActionsOn(Commands[u]))
    BY <1>3, <2>1, StrokesTyped
  <2>3. strokes'[u] = s /\ trigger'[u] = s.strike
    BY <1>1
  <2> HIDE DEF s
  <2>4. since'[u] \in 0..Spacing(u)
    <3>1. Spacing(u) \in Nat
      BY AttackAssumption DEF Spacing, AtLeastOne
    <3> QED BY <1>1, <2>1, <3>1
  <2> QED BY <2>1, <2>2, <2>3, <2>4, ActionsAre
<1>5. ASSUME NEW u \in Casters
      PROVE  /\ SpellType(spells'[u]) /\ spells'[u].acts \in Seq(Actions[u])
             /\ begun'[u] \in 0..LongestWindup \union {Unset}
  <2>1. u \in Units /\ current[u] \in Commands[u] \union {NoOp}
        /\ begun[u] \in 0..LongestWindup \union {Unset} /\ LongestWindup \in Nat
    BY <1>2, BattleAssumption, CastAssumption DEF TypeOK
  <2> DEFINE s == CastSteps(u, funded)
  <2>2. SpellType(s) /\ s.acts \in Seq(ActionsOn(Commands[u]))
    BY <2>1, SpellsTyped
  <2>3. spells'[u] = s
    BY <1>1
  <2> HIDE DEF s
  <2> QED BY <1>1, <2>1, <2>2, <2>3, ActionsAre
<1>6. ASSUME NEW u \in Units
      PROVE  actions'[u] \in Seq(Actions[u]) /\ taken'[u] \in Nat
  <2>1. actions[u] \in Seq(Actions[u]) /\ taken[u] \in Nat
    BY <1>2 DEF TypeOK, BattleInv
  <2>2. Acts(u) \in Seq(Actions[u])
    <3>1. << >> \in Seq(Actions[u])
      BY EmptySeq
    <3>2. (IF u \in Attackers THEN strokes'[u].acts ELSE << >>) \in Seq(Actions[u])
      BY <1>4, <3>1
    <3>3. (IF u \in Casters THEN spells'[u].acts ELSE << >>) \in Seq(Actions[u])
      BY <1>5, <3>1
    <3> QED BY <3>2, <3>3, ConcatProperties DEF Acts
  <2>3. actions'[u] \in Seq(Actions[u])
    <3>1. actions'[u] = actions[u] \o Acts(u)
      BY <1>1
    <3> QED BY <2>1, <2>2, <3>1, ConcatProperties
  <2>4. Struck(u, Attackers, trigger') \in Nat /\ Spelled(u, spells') \in Nat
    BY <1>5, StruckNat, SpelledNat
  <2> QED BY <1>1, <2>1, <2>3, <2>4
<1>7. TypeOK'
  BY <1>1, <1>2, <1>4, <1>5, <1>6 DEF TypeOK
<1>8. DOMAIN actions' = Units
  BY <1>1
<1>9. shooters' \subseteq Attackers /\ (\A u \in Casters : caster'[u].stock \in Int) /\ ~ Between'
  BY <1>1 DEF BattleInv, Between
<1> QED BY <1>4, <1>5, <1>6, <1>7, <1>8, <1>9 DEF BattleInv

-----------------------------------------------------------------------------
(* So have the actions a player queues. *)
LEMMA BattleInvOrder == BattleInv /\ (\E u \in Units : Order(u)) => BattleInv'
<1> SUFFICES ASSUME BattleInv, NEW o \in Units, Order(o) PROVE BattleInv'
  OBVIOUS
<1>1. /\ pc = "input" /\ pc' = "ordered"
      /\ UNCHANGED <<attack, order, trigger, caster, current, queued, hp, gone, dist, shooters,
                     shots, strokes, spells, since, begun, taken>>
  BY DEF Order, attackVars, worldVars
<1>2. TypeOK
  BY DEF BattleInv
<1> DEFINE A == Actions[o]
<1>3. PICK acts \in Seq(A) : actions' = [actions EXCEPT ![o] = @ \o acts]
  <2>0. PICK funded \in BOOLEAN : \E acts \in
          { <<Replace(<< >>), Done>> } \union
          UNION {IF c.kind = "cast" THEN CastOrders(o, c, funded)
                 ELSE { <<Replace(<<c>>), Done>>, <<Back(c)>> } : c \in Orders[o]} :
          actions' = [actions EXCEPT ![o] = @ \o acts]
    BY DEF Order
  <2>1. PICK acts \in
          { <<Replace(<< >>), Done>> } \union
          UNION {IF c.kind = "cast" THEN CastOrders(o, c, funded)
                 ELSE { <<Replace(<<c>>), Done>>, <<Back(c)>> } : c \in Orders[o]} :
          actions' = [actions EXCEPT ![o] = @ \o acts]
    BY <2>0
  <2>2. \A a, b \in A : <<a>> \in Seq(A) /\ <<a, b>> \in Seq(A)
    <3> HIDE DEF A
    <3> QED OBVIOUS
  <2>3. AttackCommand(None, TRUE, TRUE, FALSE) \in Commands[o]
    BY OrdersAre
  <2>4. Done \in A /\ Replace(<< >>) \in A
    BY <2>3, ActionsAre, QueuedActions
  <2>5. ASSUME NEW c \in Commands[o]
        PROVE  <<Replace(<<c>>), Done>> \in Seq(A) /\ <<Back(c)>> \in Seq(A)
    <3>1. Back(c) \in A /\ Replace(<<c>>) \in A
      BY ActionsAre, QueuedActions
    <3>2. PICK a, b \in A : a = Replace(<<c>>) /\ b = Back(c)
      BY <3>1
    <3>3. <<a, Done>> \in Seq(A) /\ <<b>> \in Seq(A)
      BY <2>2, <2>4
    <3> QED BY <3>2, <3>3
  <2>6. CASE acts = <<Replace(<< >>), Done>>
    <3>1. PICK a \in A : a = Replace(<< >>)
      BY <2>4
    <3>2. <<a, Done>> \in Seq(A)
      BY <2>2, <2>4
    <3>3. acts \in Seq(A)
      BY <2>6, <3>1, <3>2
    <3> QED BY <2>1, <3>3
  <2>7. CASE acts # <<Replace(<< >>), Done>>
    <3>1. PICK c \in Orders[o] :
            acts \in IF c.kind = "cast" THEN CastOrders(o, c, funded)
                     ELSE { <<Replace(<<c>>), Done>>, <<Back(c)>> }
      BY <2>1, <2>7
    <3>2. c \in AttackCommands[o] \/ \E v \in Enemies(o) \union {None} : c = CastCommand(c.ability, v)
      BY BattleAssumption
    <3>3. c \in Commands[o] /\ acts \in { <<Replace(<<c>>), Done>>, <<Back(c)>> }
      <4>1. CASE c \in AttackCommands[o]
        <5>1. c.kind = "attack" /\ c \in Commands[o]
          BY <4>1, OrdersAre
        <5> QED BY <3>1, <5>1
      <4>2. CASE \E v \in Enemies(o) \union {None} : c = CastCommand(c.ability, v)
        <5>1. PICK v \in Enemies(o) \union {None} : c = CastCommand(c.ability, v)
          BY <4>2
        <5>2. c.kind = "cast"
          BY <5>1 DEF CastCommand
        <5>3. CanCast(o, c.ability, funded) /\ acts \in { <<Back(c)>>, <<Replace(<<c>>), Done>> }
          BY <3>1, <5>2 DEF CastOrders
        <5>4. c \in Commands[o]
          BY <5>1, <5>3, OrdersAre DEF CanCast
        <5> QED BY <5>3, <5>4
      <4> QED BY <3>2, <4>1, <4>2
    <3>4. acts \in Seq(A)
      BY <2>5, <3>3
    <3> QED BY <2>1, <3>4
  <2> QED BY <2>6, <2>7
<1>4. ASSUME NEW u \in Units PROVE actions'[u] \in Seq(Actions[u])
  <2>1. actions[u] \in Seq(Actions[u]) /\ DOMAIN actions = Units
    BY <1>2 DEF TypeOK, BattleInv
  <2>2. CASE u = o
    <3>1. actions'[u] = actions[u] \o acts
      BY <1>3, <2>1, <2>2
    <3> QED BY <1>3, <2>1, <2>2, <3>1, ConcatProperties
  <2>3. CASE u # o
    BY <1>3, <2>1, <2>3
  <2> QED BY <2>2, <2>3
<1>5. TypeOK'
  BY <1>1, <1>2, <1>4 DEF TypeOK
<1>6. DOMAIN actions' = Units
  BY <1>3 DEF BattleInv
<1> QED BY <1>1, <1>5, <1>6 DEF BattleInv, Between

(* Applying the steps: the values are clamped, aged, or taken from a step. *)
LEMMA BattleInvEnd == BattleInv /\ EndFrame => BattleInv'
<1> SUFFICES ASSUME BattleInv, NEW init \in [Attackers -> BOOLEAN], NEW landed \in Landings,
                    order' = [u \in Attackers |-> Ordered(u, strokes[u], init[u])],
                    hp' = [v \in Units |-> IF v \in gone THEN hp[v]
                                           ELSE Validated(v, hp[v] - Hurt(v, landed))],
                    shots' = [p \in Pairs |-> shots[p] - landed[p]
                      + (IF p[1] \in shooters /\ trigger[p[1]] = p[2] THEN 1 ELSE 0)],
                    EndFrame
             PROVE  BattleInv'
  BY DEF EndFrame
<1>1. /\ pc' = "idle"
      /\ attack' = [u \in Attackers |-> Attacked(u, strokes[u])]
      /\ caster' = [u \in Casters |-> Casted(u, spells[u])]
      /\ trigger' = [u \in Attackers |-> None] /\ dist' \in Moved
      /\ strokes' = [u \in Attackers |-> Nothing] /\ spells' = [u \in Casters |-> NoCast]
      /\ since' = [u \in Attackers |-> Age(since[u], Spacing(u))]
      /\ begun' = [u \in Casters |-> IF begun[u] = Unset THEN Unset ELSE Age(begun[u], LongestWindup)]
      /\ UNCHANGED <<current, queued, actions, gone, shooters, taken>>
  BY DEF EndFrame, queueVars
<1>2. TypeOK /\ shooters \subseteq Attackers /\ \A p \in Pairs : shots[p] \in Nat
  BY DEF BattleInv, TypeOK
<1>3. \A p \in Pairs : landed[p] \in Nat /\ landed[p] <= shots[p]
  BY <1>2, LandingsAre
<1>4. ASSUME NEW v \in Units PROVE Hurt(v, landed) \in Nat
  BY <1>2, <1>3, StruckNat, ShotNat, SpelledNat DEF Hurt, BattleInv
<1>5. ASSUME NEW v \in Units PROVE hp'[v] \in 0..HitPoints[v] /\ (v \in gone' => hp'[v] = 0)
  <2>1. hp[v] \in 0..HitPoints[v] /\ (v \in gone => hp[v] = 0)
    BY <1>2 DEF TypeOK
  <2>2. Validated(v, hp[v] - Hurt(v, landed)) \in 0..HitPoints[v]
    BY <1>4, <2>1, ValidatedIs
  <2> QED BY <1>1, <2>1, <2>2
<1>6. \A p \in Pairs : shots'[p] \in Nat
  BY <1>2, <1>3
<1>7. ASSUME NEW u \in Attackers
      PROVE  /\ attack'[u] \in [windup : 0..AtLeastOne(Windup[u]), rest : 0..Reload[u]]
             /\ order'[u] \in AttackCommands[u] /\ trigger'[u] = None
             /\ since'[u] \in 0..Spacing(u) /\ StrokeType(u, strokes'[u])
  <2>1. /\ attack[u] \in [windup : 0..AtLeastOne(Windup[u]), rest : 0..Reload[u]]
        /\ order[u] \in AttackCommands[u] /\ u \in Units /\ since[u] \in 0..Spacing(u)
        /\ Reload[u] \in Nat /\ Windup[u] \in Nat
    BY <1>2, BattleAssumption, AttackAssumption DEF TypeOK
  <2>2. StrokeType(u, strokes[u])
    BY DEF BattleInv
  <2>3. Spacing(u) \in Nat /\ AtLeastOne(Windup[u]) \in Nat
    BY <2>1 DEF Spacing, AtLeastOne
  <2>4. since'[u] \in 0..Spacing(u)
    BY <1>1, <2>1, <2>3 DEF Age
  <2>5. attack'[u] \in [windup : 0..AtLeastOne(Windup[u]), rest : 0..Reload[u]]
    <3> DEFINE w == IF strokes[u].windup = None THEN attack[u].windup ELSE strokes[u].windup
               r == Age(IF strokes[u].reload THEN 0 ELSE attack[u].rest, Reload[u])
    <3>1. w \in 0..AtLeastOne(Windup[u])
      BY <2>1, <2>2 DEF StrokeType, Windups
    <3>2. r \in 0..Reload[u]
      BY <2>1 DEF Age
    <3>3. attack'[u] = [windup |-> w, rest |-> r]
      BY <1>1 DEF Attacked
    <3> QED BY <3>1, <3>2, <3>3
  <2>6. order'[u] \in AttackCommands[u]
    <3>1. /\ order[u].target \in Enemies(u) \union {None}
          /\ order[u].move \in BOOLEAN /\ order[u].forced \in BOOLEAN /\ init[u] \in BOOLEAN
          /\ strokes[u].target \in Enemies(u) \union {None}
      BY <2>1, <2>2, OrdersAre DEF StrokeType
    <3>2. order'[u] = Ordered(u, strokes[u], init[u])
      OBVIOUS
    <3> QED BY <2>1, <3>1, <3>2, OrdersAre DEF Ordered
  <2>7. StrokeType(u, strokes'[u]) /\ trigger'[u] = None
    BY <1>1 DEF StrokeType, Nothing, Windups
  <2> QED BY <2>4, <2>5, <2>6, <2>7
<1>8. ASSUME NEW u \in Casters
      PROVE  /\ caster'[u].wind \in 0..LongestWindup \union {Unset}
             /\ \A a \in Abilities : caster'[u].last[a] \in 0..Cooldown[a]
             /\ caster'[u].stock <= Stock /\ caster'[u].stock \in Int
             /\ begun'[u] \in 0..LongestWindup \union {Unset}
             /\ SpellType(spells'[u]) /\ spells'[u].cast = Unset
  <2> DEFINE s == spells[u]
             last == [a \in Abilities |->
                        Age(IF a = s.cast THEN 0 ELSE caster[u].last[a], Cooldown[a])]
  <2>1. /\ caster[u].wind \in 0..LongestWindup \union {Unset}
        /\ \A a \in Abilities : caster[u].last[a] \in 0..Cooldown[a]
        /\ caster[u].stock <= Stock /\ caster[u].stock \in Int
        /\ begun[u] \in 0..LongestWindup \union {Unset}
        /\ SpellType(s)
    BY <1>2 DEF TypeOK, BattleInv
  <2>2. /\ LongestWindup \in Nat /\ Stock \in Nat
        /\ \A a \in Abilities : Cooldown[a] \in Nat /\ Cost[a] \in Nat
    BY CastAssumption
  <2>3. /\ caster'[u].wind = IF s.cast # Unset \/ (caster[u].wind = Unset /\ ~ s.start) THEN Unset
                             ELSE Age(IF s.start THEN 0 ELSE caster[u].wind, LongestWindup)
        /\ caster'[u].last = last
        /\ caster'[u].stock = IF s.cast = Unset THEN caster[u].stock
                              ELSE caster[u].stock - Cost[s.cast]
    BY <1>1 DEF Casted
  <2>4. \A a \in Abilities : last[a] \in 0..Cooldown[a]
    BY <2>1, <2>2 DEF Age
  <2> HIDE DEF last
  <2>5. caster'[u].wind \in 0..LongestWindup \union {Unset}
    BY <2>1, <2>2, <2>3 DEF Age
  <2>6. caster'[u].stock <= Stock /\ caster'[u].stock \in Int
    BY <2>1, <2>2, <2>3 DEF SpellType
  <2>7. begun'[u] \in 0..LongestWindup \union {Unset}
    BY <1>1, <2>1, <2>2 DEF Age
  <2>8. SpellType(spells'[u]) /\ spells'[u].cast = Unset
    BY <1>1 DEF SpellType, NoCast
  <2> QED BY <2>3, <2>4, <2>5, <2>6, <2>7, <2>8
<1>9. \A p \in DOMAIN dist' : dist'[p] \in 0..Far
  BY <1>1 DEF Moved
<1>10. ASSUME NEW u \in Units
       PROVE  /\ current'[u] \in Commands[u] \union {NoOp}
              /\ queued'[u] \in Seq(Commands[u]) /\ actions'[u] \in Seq(Actions[u])
              /\ taken'[u] \in Nat
  BY <1>1, <1>2 DEF TypeOK, BattleInv
<1>11. TypeOK'
  BY <1>1, <1>5, <1>6, <1>7, <1>8, <1>9, <1>10 DEF TypeOK
<1> QED BY <1>1, <1>2, <1>7, <1>8, <1>10, <1>11 DEF BattleInv

(* TypeOK: the data of units, of their commands and of what is on its way   *)
(* keep their shape; who is destroyed has no hit points left, and what is   *)
(* ordered, aimed at and struck is an enemy.                                *)
THEOREM BattleInvHolds == Spec => []BattleInv
<1>1. BattleInv /\ [Next]_vars => BattleInv'
  <2> SUFFICES ASSUME BattleInv, [Next]_vars PROVE BattleInv'
    OBVIOUS
  <2>1. CASE UNCHANGED vars
    <3>1. UNCHANGED <<pc, attack, order, trigger, caster, current, queued, actions, hp, gone, dist,
                      shooters, shots, strokes, spells, since, begun, taken>>
      BY <2>1 DEF vars, attackVars, queueVars, worldVars
    <3> QED BY <3>1 DEF BattleInv, TypeOK, Between
  <2> QED BY <2>1, BattleInvBegin, BattleInvCommands, BattleInvOrder, BattleInvEnd DEF Next, FrameStep
<1> QED BY <1>1, BattleInvInit, PTL DEF Spec

THEOREM TypeCorrect == Spec => []TypeOK
<1>1. BattleInv => TypeOK
  BY DEF BattleInv
<1> QED BY <1>1, BattleInvHolds, PTL

-----------------------------------------------------------------------------
(* Who shoots and who strikes at once are all who strike. *)
LEMMA StruckSplit ==
  ASSUME NEW v, NEW targets, shooters \subseteq Attackers
  PROVE  Struck(v, Attackers, targets)
           = Struck(v, shooters, targets) + Struck(v, Attackers \ shooters, targets)
<1> DEFINE hit(u) == IF targets[u] = v THEN Damage[u] ELSE 0
           rest == Attackers \ shooters
           all == [u \in Attackers |-> hit(u)]
           shot == [u \in shooters |-> hit(u)]
           struck == [u \in rest |-> hit(u)]
           left == [u \in Attackers |-> IF u \in shooters THEN hit(u) ELSE 0]
           right == [u \in Attackers |-> IF u \in rest THEN hit(u) ELSE 0]
<1>1. \A u \in Attackers : hit(u) \in Int
  BY BattleAssumption
<1> HIDE DEF hit
<1>2. /\ all \in [Attackers -> Int] /\ left \in [Attackers -> Int] /\ right \in [Attackers -> Int]
      /\ shot \in [shooters -> Int] /\ struck \in [rest -> Int]
  BY <1>1
<1>3. \A u \in Attackers : all[u] = left[u] + right[u]
  BY <1>1
<1>4. /\ \A u \in shooters : shot[u] = left[u]
      /\ \A u \in Attackers \ shooters : left[u] = 0
      /\ \A u \in rest : struck[u] = right[u]
      /\ \A u \in Attackers \ rest : right[u] = 0
      /\ rest \subseteq Attackers
  OBVIOUS
<1>5. /\ Struck(v, Attackers, targets) = SumFunction(all)
      /\ Struck(v, shooters, targets) = SumFunction(shot)
      /\ Struck(v, rest, targets) = SumFunction(struck)
  BY DEF Struck, hit
<1> HIDE DEF all, shot, struck, left, right, rest
<1>6. SumFunction(all) = SumFunction(left) + SumFunction(right)
  BY <1>2, <1>3, Finite, SumPlus
<1>7. SumFunction(left) = SumFunction(shot)
  BY <1>2, <1>4, Finite, SumOver
<1>8. SumFunction(right) = SumFunction(struck)
  BY <1>2, <1>4, Finite, SumOver
<1> QED BY <1>5, <1>6, <1>7, <1>8 DEF rest

(* The damage on its way after projectiles have landed and been shot. *)
LEMMA ShotMoves ==
  ASSUME NEW v \in Units, shooters \subseteq Attackers,
         NEW before, NEW landed, NEW after, NEW targets,
         \A p \in Pairs : before[p] \in Nat /\ landed[p] \in Nat,
         \A p \in Pairs : after[p] = before[p] - landed[p]
                            + (IF p[1] \in shooters /\ targets[p[1]] = p[2] THEN 1 ELSE 0),
         \A u \in Attackers : targets[u] \in Enemies(u) \union {None}
  PROVE  Shot(v, after) = Shot(v, before) - Shot(v, landed) + Struck(v, shooters, targets)
<1> DEFINE carried(u, n) == IF v \in Enemies(u) THEN n[<<u, v>>] * Damage[u] ELSE 0
           hit(u) == IF targets[u] = v THEN Damage[u] ELSE 0
           a == [u \in shooters |-> carried(u, after)]
           b == [u \in shooters |-> carried(u, before)]
           l == [u \in shooters |-> carried(u, landed)]
           s == [u \in shooters |-> hit(u)]
           t == [u \in shooters |-> carried(u, after) + carried(u, landed)]
<1>1. ASSUME NEW u \in shooters
      PROVE  /\ carried(u, after) \in Int /\ carried(u, before) \in Int
             /\ carried(u, landed) \in Int /\ hit(u) \in Int
             /\ carried(u, after) + carried(u, landed) = carried(u, before) + hit(u)
  <2>1. Damage[u] \in Nat /\ targets[u] \in Enemies(u) \union {None} /\ v # None /\ u \in Units
    BY BattleAssumption
  <2>2. CASE v \in Enemies(u)
    <3> DEFINE p == <<u, v>>
    <3>1. p \in Pairs /\ p[1] = u /\ p[2] = v
      BY <2>1, <2>2 DEF Pairs
    <3>2. /\ before[p] \in Nat /\ landed[p] \in Nat
          /\ after[p] = before[p] - landed[p] + (IF targets[u] = v THEN 1 ELSE 0)
      BY <3>1
    <3>3. /\ carried(u, after) = after[p] * Damage[u]
          /\ carried(u, before) = before[p] * Damage[u]
          /\ carried(u, landed) = landed[p] * Damage[u]
      BY <2>2
    <3> HIDE DEF p, carried
    <3>4. \A x, y, d \in Int : /\ (x - y) * d + y * d = x * d
                               /\ (x - y + 1) * d + y * d = x * d + d
      OBVIOUS
    <3>0. PICK x, y, d \in Int : x = before[p] /\ y = landed[p] /\ d = Damage[u]
      BY <2>1, <3>2
    <3>5. CASE targets[u] = v
      <4>1. after[p] = x - y + 1 /\ hit(u) = d
        BY <3>0, <3>2, <3>5 DEF hit
      <4>2. (x - y + 1) * d + y * d = x * d + d
        BY <3>4
      <4> QED BY <3>0, <3>3, <4>1, <4>2
    <3>6. CASE targets[u] # v
      <4>1. after[p] = x - y /\ hit(u) = 0
        BY <3>0, <3>2, <3>6 DEF hit
      <4>2. (x - y) * d + y * d = x * d
        BY <3>4
      <4> QED BY <3>0, <3>3, <4>1, <4>2
    <3> QED BY <3>5, <3>6
  <2>3. CASE v \notin Enemies(u)
    BY <2>1, <2>3
  <2> QED BY <2>2, <2>3
<1> HIDE DEF carried, hit
<1>2. /\ a \in [shooters -> Int] /\ b \in [shooters -> Int] /\ l \in [shooters -> Int]
      /\ s \in [shooters -> Int] /\ t \in [shooters -> Int]
      /\ \A u \in shooters : t[u] = a[u] + l[u] /\ t[u] = b[u] + s[u]
  BY <1>1
<1>3. IsFiniteSet(shooters)
  BY Finite, FS_Subset
<1>4. /\ Shot(v, after) = SumFunction(a) /\ Shot(v, before) = SumFunction(b)
      /\ Shot(v, landed) = SumFunction(l) /\ Struck(v, shooters, targets) = SumFunction(s)
  BY DEF Shot, Struck, carried, hit
<1> HIDE DEF a, b, l, s, t
<1>5. SumFunction(t) = SumFunction(a) + SumFunction(l)
  BY <1>2, <1>3, SumPlus
<1>6. SumFunction(t) = SumFunction(b) + SumFunction(s)
  BY <1>2, <1>3, SumPlus
<1>7. /\ SumFunction(a) \in Int /\ SumFunction(b) \in Int
      /\ SumFunction(l) \in Int /\ SumFunction(s) \in Int
  BY <1>2, <1>3, SumInt
<1> QED BY <1>4, <1>5, <1>6, <1>7

(* Where nobody strikes, or casts, nothing is taken. *)
LEMMA StruckNone ==
  ASSUME NEW v \in Units, NEW targets, \A u \in Attackers : targets[u] = None
  PROVE  Struck(v, Attackers, targets) = 0
<1> DEFINE f == [u \in Attackers |-> IF targets[u] = v THEN Damage[u] ELSE 0]
<1>1. f \in [Attackers -> Int] /\ \A u \in Attackers : f[u] = 0
  BY BattleAssumption
<1> HIDE DEF f
<1>2. SumFunction(f) = 0
  BY <1>1, Finite, SumZero
<1> QED BY <1>2 DEF Struck, f

LEMMA SpelledNone ==
  ASSUME NEW v, NEW steps, \A u \in Casters : steps[u].cast = Unset
  PROVE  Spelled(v, steps) = 0
<1> DEFINE f == [u \in Casters |-> IF steps[u].cast # Unset /\ current[u].target = v
                                   THEN CastDamage[steps[u].cast] ELSE 0]
<1>1. f \in [Casters -> Int] /\ \A u \in Casters : f[u] = 0
  OBVIOUS
<1> HIDE DEF f
<1>2. SumFunction(f) = 0
  BY <1>1, Finite, SumZero
<1> QED BY <1>2 DEF Spelled, f

(* DamageDealt, whatever the phase: what the steps of the frame will do is  *)
(* not done yet.                                                            *)
Arrived(v) == taken[v] - Shot(v, shots) - Struck(v, Attackers, trigger) - Spelled(v, spells)
DamageKept == \A v \in Units \ gone : hp[v] = Max({0, HitPoints[v] - Arrived(v)})

LEMMA ArrivedNumbers ==
  ASSUME BattleInv, NEW v \in Units
  PROVE  /\ Arrived(v) \in Int /\ taken[v] \in Nat
         /\ Shot(v, shots) \in Nat /\ Struck(v, Attackers, trigger) \in Nat
         /\ Spelled(v, spells) \in Nat
         /\ Between => Struck(v, Attackers, trigger) = 0 /\ Spelled(v, spells) = 0
<1>1. /\ shooters \subseteq Attackers /\ \A p \in Pairs : shots[p] \in Nat
      /\ taken[v] \in Nat /\ \A u \in Casters : SpellType(spells[u])
  BY DEF BattleInv, TypeOK
<1>2. Shot(v, shots) \in Nat /\ Struck(v, Attackers, trigger) \in Nat /\ Spelled(v, spells) \in Nat
  BY <1>1, ShotNat, StruckNat, SpelledNat
<1>3. Arrived(v) \in Int
  BY <1>1, <1>2 DEF Arrived
<1>4. Between => Struck(v, Attackers, trigger) = 0 /\ Spelled(v, spells) = 0
  BY StruckNone, SpelledNone DEF BattleInv
<1> QED BY <1>1, <1>2, <1>3, <1>4

-----------------------------------------------------------------------------
-----------------------------------------------------------------------------
(* Nothing is sent at the start. *)
LEMMA DamageKeptInit == Init /\ BattleInv => DamageKept
<1> SUFFICES ASSUME Init, BattleInv, NEW v \in Units PROVE hp[v] = Max({0, HitPoints[v] - Arrived(v)})
  BY DEF DamageKept
<1> USE DEF Init
<1>1. Between /\ HitPoints[v] \in Nat /\ hp[v] = HitPoints[v] /\ taken[v] = 0
  BY BattleAssumption DEF Between
<1>2. Shot(v, shots) = 0
  <2> DEFINE f == [u \in shooters |-> IF v \in Enemies(u) THEN shots[<<u, v>>] * Damage[u] ELSE 0]
  <2>1. ASSUME NEW u \in shooters PROVE f[u] = 0
    <3>1. u \in Attackers /\ Damage[u] \in Nat /\ u \in Units
      BY BattleAssumption
    <3>2. CASE v \in Enemies(u)
      <4>1. <<u, v>> \in Pairs
        BY <3>1, <3>2 DEF Pairs
      <4>2. shots[<<u, v>>] = 0
        BY <4>1
      <4> QED BY <3>1, <3>2, <4>2
    <3> QED BY <3>2
  <2>2. f \in [shooters -> Int]
    BY <2>1
  <2>3. IsFiniteSet(shooters)
    BY Finite, FS_Subset
  <2> HIDE DEF f
  <2>4. SumFunction(f) = 0
    BY <2>1, <2>2, <2>3, SumZero
  <2> QED BY <2>4 DEF Shot, f
<1>3. Arrived(v) = 0
  BY <1>1, <1>2, ArrivedNumbers DEF Arrived
<1> QED BY <1>1, <1>3, MaxOfTwo

(* No step of the last frame is left when the queues change. *)
LEMMA DamageKeptBegin == DamageKept /\ BattleInv /\ BattleInv' /\ BeginFrame => DamageKept'
<1> SUFFICES ASSUME DamageKept, BattleInv, BattleInv', BeginFrame, NEW v \in Units \ gone'
             PROVE  hp'[v] = Max({0, HitPoints[v] - Arrived(v)'})
  BY DEF DamageKept
<1>1. /\ UNCHANGED <<hp, taken, shooters, shots>> /\ Between /\ Between' /\ v \notin gone
  BY DEF BeginFrame, Between
<1>2. Shot(v, shots)' = Shot(v, shots)
  BY <1>1 DEF Shot
<1>3. /\ Struck(v, Attackers, trigger) = 0 /\ Spelled(v, spells) = 0
  BY <1>1, ArrivedNumbers
<1>4. /\ Struck(v, Attackers, trigger)' = 0 /\ Spelled(v, spells)' = 0
  <2>1. \A u \in Attackers : trigger'[u] = None
    BY <1>1 DEF BattleInv
  <2>2. \A u \in Casters : spells'[u].cast = Unset
    BY <1>1 DEF BattleInv
  <2>3. Spelled(v, spells)' = 0
    <3> DEFINE f == [u \in Casters |-> IF spells'[u].cast # Unset /\ current'[u].target = v
                                       THEN CastDamage[spells'[u].cast] ELSE 0]
    <3>1. f \in [Casters -> Int] /\ \A u \in Casters : f[u] = 0
      BY <2>2
    <3> HIDE DEF f
    <3>2. SumFunction(f) = 0
      BY <3>1, Finite, SumZero
    <3> QED BY <3>2 DEF Spelled, f
  <2> QED BY <2>1, <2>3, StruckNone DEF Struck
<1>5. Arrived(v)' = Arrived(v)
  BY <1>1, <1>2, <1>3, <1>4 DEF Arrived
<1> QED BY <1>1, <1>5 DEF DamageKept

(* What is sent is not done yet. *)
LEMMA DamageKeptCommands == DamageKept /\ BattleInv /\ BattleInv' /\ RunCommands => DamageKept'
<1> SUFFICES ASSUME DamageKept, BattleInv, BattleInv', RunCommands, NEW v \in Units \ gone'
             PROVE  hp'[v] = Max({0, HitPoints[v] - Arrived(v)'})
  BY DEF DamageKept
<1>1. /\ UNCHANGED <<hp, gone, shooters, shots, current>> /\ Between /\ v \notin gone
      /\ taken'[v] = taken[v] + Struck(v, Attackers, trigger') + Spelled(v, spells')
  BY DEF RunCommands, CommandSystems, worldVars, Between
<1>2. /\ Shot(v, shots)' = Shot(v, shots)
      /\ Struck(v, Attackers, trigger)' = Struck(v, Attackers, trigger')
      /\ Spelled(v, spells)' = Spelled(v, spells')
  BY <1>1 DEF Shot, Struck, Spelled
<1>3. /\ Struck(v, Attackers, trigger) = 0 /\ Spelled(v, spells) = 0
      /\ taken[v] \in Nat /\ Shot(v, shots) \in Nat
  BY <1>1, ArrivedNumbers
<1>4. Struck(v, Attackers, trigger') \in Nat /\ Spelled(v, spells') \in Nat
  <2>1. \A u \in Casters : SpellType(spells'[u])
    BY DEF BattleInv, SpellType
  <2> QED BY <2>1, StruckNat, SpelledNat
<1>5. Arrived(v)' = Arrived(v)
  <2> DEFINE n == Struck(v, Attackers, trigger')
             m == Spelled(v, spells')
  <2>1. Arrived(v)' = taken'[v] - Shot(v, shots) - n - m
    BY <1>2 DEF Arrived
  <2>2. Arrived(v) = taken[v] - Shot(v, shots)
    BY <1>3 DEF Arrived
  <2> HIDE DEF n, m
  <2>3. n \in Nat /\ m \in Nat /\ taken'[v] = taken[v] + n + m
    BY <1>1, <1>4 DEF n, m
  <2> QED BY <1>3, <2>1, <2>2, <2>3
<1> QED BY <1>1, <1>5 DEF DamageKept

(* What hurts has arrived, what is shot is on its way. *)
LEMMA DamageKeptEnd == DamageKept /\ BattleInv /\ BattleInv' /\ EndFrame => DamageKept'
<1> SUFFICES ASSUME DamageKept, BattleInv, BattleInv', EndFrame, NEW landed \in Landings,
                    hp' = [u \in Units |-> IF u \in gone THEN hp[u]
                                           ELSE Validated(u, hp[u] - Hurt(u, landed))],
                    shots' = [p \in Pairs |-> shots[p] - landed[p]
                      + (IF p[1] \in shooters /\ trigger[p[1]] = p[2] THEN 1 ELSE 0)],
                    NEW v \in Units \ gone'
             PROVE  hp'[v] = Max({0, HitPoints[v] - Arrived(v)'})
  BY DEF DamageKept, EndFrame
<1>1. /\ UNCHANGED <<gone, shooters, taken>> /\ v \notin gone /\ Between'
  BY DEF EndFrame, Between
<1>2. /\ shooters \subseteq Attackers /\ \A p \in Pairs : shots[p] \in Nat
      /\ \A u \in Attackers : trigger[u] \in Enemies(u) \union {None}
  BY DEF BattleInv, TypeOK
<1>3. \A p \in Pairs : landed[p] \in Nat
  BY <1>2, LandingsAre
<1> DEFINE arrived == Arrived(v)
           later == Arrived(v)'
           hurt == Hurt(v, landed)
           struck == Struck(v, Attackers \ shooters, trigger)
           shooting == Struck(v, shooters, trigger)
           land == Shot(v, landed)
           after == Shot(v, shots')
<1>4. /\ struck \in Nat /\ shooting \in Nat /\ land \in Nat
      /\ after = Shot(v, shots) - land + shooting
      /\ Struck(v, Attackers, trigger) = shooting + struck
  <2>1. struck \in Nat /\ shooting \in Nat
    BY <1>2, StruckNat
  <2>2. land \in Nat
    BY <1>2, <1>3, ShotNat
  <2>3. Struck(v, Attackers, trigger) = shooting + struck
    BY <1>2, StruckSplit
  <2>4. \A p \in Pairs : shots'[p] = shots[p] - landed[p]
                      + (IF p[1] \in shooters /\ trigger[p[1]] = p[2] THEN 1 ELSE 0)
    OBVIOUS
  <2>5. after = Shot(v, shots) - land + shooting
    <3>1. \A p \in Pairs : shots[p] \in Nat /\ landed[p] \in Nat
      BY <1>2, <1>3
    <3> QED BY <1>2, <2>4, <3>1, ShotMoves
  <2> QED BY <2>1, <2>2, <2>3, <2>5
<1>5. hurt = struck + land + Spelled(v, spells)
  BY DEF Hurt
<1>6. later = taken[v] - after
  <2>1. /\ Struck(v, Attackers, trigger)' = 0 /\ Spelled(v, spells)' = 0
        /\ Shot(v, shots)' = after /\ taken'[v] = taken[v]
    <3>1. \A u \in Attackers : trigger'[u] = None
      BY <1>1 DEF BattleInv
    <3>2. \A u \in Casters : spells'[u].cast = Unset
      BY <1>1 DEF BattleInv
    <3>3. Spelled(v, spells)' = Spelled(v, spells')
      BY DEF Spelled, EndFrame, queueVars
    <3> QED BY <1>1, <3>1, <3>2, <3>3, StruckNone, SpelledNone DEF Struck, Shot
  <2>2. after \in Int /\ taken[v] \in Nat
    BY <1>4, ArrivedNumbers
  <2>3. later = taken'[v] - Shot(v, shots)' - Struck(v, Attackers, trigger)' - Spelled(v, spells)'
    BY DEF Arrived
  <2> HIDE DEF after, later
  <2> QED BY <2>1, <2>2, <2>3
<1>7. later = arrived + hurt /\ hurt \in Nat /\ arrived \in Int
  <2>1. arrived = taken[v] - Shot(v, shots) - Struck(v, Attackers, trigger) - Spelled(v, spells)
    BY DEF Arrived
  <2>2. taken[v] \in Nat /\ Shot(v, shots) \in Nat /\ Spelled(v, spells) \in Nat /\ arrived \in Int
    BY ArrivedNumbers
  <2> HIDE DEF arrived, later, hurt, struck, shooting, land, after
  <2> QED BY <1>4, <1>5, <1>6, <2>1, <2>2
<1>8. /\ hp[v] = Max({0, HitPoints[v] - arrived}) /\ hp[v] \in 0..HitPoints[v]
      /\ hp'[v] = Validated(v, hp[v] - hurt) /\ HitPoints[v] \in Nat
  BY <1>1, BattleAssumption DEF DamageKept, BattleInv, TypeOK
<1> HIDE DEF arrived, later, hurt
<1>9. /\ Max({0, HitPoints[v] - arrived}) = IF 0 >= HitPoints[v] - arrived THEN 0 ELSE HitPoints[v] - arrived
      /\ Max({0, HitPoints[v] - later}) = IF 0 >= HitPoints[v] - later THEN 0 ELSE HitPoints[v] - later
  <2>1. PICK x, y \in Int : x = HitPoints[v] - arrived /\ y = HitPoints[v] - later
    BY <1>7, <1>8
  <2>2. /\ Max({0, x}) = IF 0 >= x THEN 0 ELSE x
        /\ Max({0, y}) = IF 0 >= y THEN 0 ELSE y
    BY MaxOfTwo
  <2> QED BY <2>1, <2>2
<1>10. hp'[v] = Max({0, HitPoints[v] - later})
  <2>1. hp[v] - hurt \in Int
    BY <1>7, <1>8
  <2>2. Validated(v, hp[v] - hurt) =
          IF hp[v] - hurt < 0 THEN 0
          ELSE IF hp[v] - hurt > HitPoints[v] THEN HitPoints[v] ELSE hp[v] - hurt
    BY <2>1, ValidatedIs
  <2> QED BY <1>7, <1>8, <1>9, <2>2
<1> QED BY <1>10 DEF later

LEMMA DamageKeptOrder == DamageKept /\ (\E u \in Units : Order(u)) => DamageKept'
<1> SUFFICES ASSUME DamageKept, NEW o \in Units, Order(o) PROVE DamageKept'
  OBVIOUS
<1>1. UNCHANGED <<hp, gone, taken, shooters, shots, trigger, spells, current>>
  BY DEF Order, worldVars, attackVars
<1> QED BY <1>1 DEF DamageKept, Arrived, Shot, Struck, Spelled

(* DamageDealt: a unit loses the damage of each strike and each ability     *)
(* once, between the frame that sends it and the arrival of the projectile. *)
THEOREM DamageDealtHolds == Spec => []DamageDealt
<1>1. DamageKept /\ BattleInv /\ BattleInv' /\ [Next]_vars => DamageKept'
  <2> SUFFICES ASSUME DamageKept, BattleInv, BattleInv', [Next]_vars PROVE DamageKept'
    OBVIOUS
  <2>1. CASE UNCHANGED vars
    <3>1. UNCHANGED <<hp, gone, taken, shooters, shots, trigger, spells, current>>
      BY <2>1 DEF vars, attackVars, queueVars, worldVars
    <3> QED BY <3>1 DEF DamageKept, Arrived, Shot, Struck, Spelled
  <2> QED BY <2>1, DamageKeptBegin, DamageKeptCommands, DamageKeptOrder, DamageKeptEnd
          DEF Next, FrameStep
<1>2. DamageKept /\ BattleInv => DamageDealt
  <2> SUFFICES ASSUME DamageKept, BattleInv, pc = "idle", NEW v \in Units \ gone
               PROVE  hp[v] = Max({0, HitPoints[v] - (taken[v] - Shot(v, shots))})
    BY DEF DamageDealt
  <2>1. Arrived(v) = taken[v] - Shot(v, shots)
    BY ArrivedNumbers DEF Arrived, Between
  <2> QED BY <2>1 DEF DamageKept
<1> QED BY <1>1, <1>2, DamageKeptInit, BattleInvHolds, PTL DEF Spec
=============================================================================
