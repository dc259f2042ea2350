----------------------------- MODULE Attacking -----------------------------
(***************************************************************************)
(* The attack command (AttackCommandSystem.hh, AttackCommand.hh, Attack.hh *)
(* and Attack.cc): how units look for targets, approach them, wind their   *)
(* attack up, strike, and reload.  The systems only read the world and     *)
(* leave steps, which the end of the frame applies: Idle and Running give  *)
(* what they leave for one unit, and the frame is put together in Battle.  *)
(*                                                                         *)
(* Reload time stamps are kept as ages, that stop at the reload time.      *)
(* Healers, masses and flocks are left out, and units have the component   *)
(* of an attack command from the start, as those that look for targets     *)
(* when idle need.                                                         *)
(***************************************************************************)
EXTENDS QueueActions, Stamps

CONSTANTS Attackers,  \* the units with an Attack
          None,       \* no entity, no command, no step
          Windup,     \* Windup[u]: windup_time of u's attack
          Reload,     \* Reload[u]: its reload_time
          Reach       \* Reach[u]: its range, in steps of distance

ASSUME AttackAssumption ==
  /\ None \notin Attackers \union Nat
  /\ \A f \in {Windup, Reload, Reach} : f \in [Attackers -> Nat]

VARIABLES attack,  \* attack[u]: the windup of u, and its age since the reload
          order,   \* order[u]: the AttackCommand component of u
          trigger  \* trigger[u]: the target of AttackTrigger, or None

attackVars == <<attack, order, trigger>>

AttackCommand(target, moves, init, forced) ==
  [kind |-> "attack", target |-> target, move |-> moves, init |-> init, forced |-> forced]

(* The game begins with reloads to wait for.                                *)
AttackInit ==
  /\ attack \in [Attackers -> [windup : {0}, rest : {0}]]
  /\ order = [u \in Attackers |-> AttackCommand(None, FALSE, FALSE, FALSE)]
  /\ trigger = [u \in Attackers |-> None]

-----------------------------------------------------------------------------
(* What the systems leave for one unit: the steps on its Attack and on its  *)
(* AttackCommand, the target struck, and the actions queued.                *)
Nothing == [windup |-> None, reload |-> FALSE, target |-> None, init |-> FALSE,
            strike |-> None, acts |-> << >>]

HasReloaded(u) == attack[u].rest >= Reload[u]

(* The system of idle units, when it finds v, or None. *)
Idle(u, scans, v) ==
  LET looks == scans \/ ~ order[u].init
  IN [Nothing EXCEPT !.init = ~ order[u].init,
                     !.acts = IF looks /\ v # None THEN <<Front(AttackCommand(v, TRUE, TRUE, FALSE))>>
                              ELSE << >>]

(* Altered Lost: the windup goes on for the new target. *)
LostWoundUp(u, v, arrived) ==
  LET found == [Nothing EXCEPT !.init = ~ order[u].init]
  IN IF v # None THEN [found EXCEPT !.target = v]
     ELSE [found EXCEPT !.acts = IF order[u].move /\ ~ arrived THEN << >> ELSE <<Done>>]

(* The attack system without a target that lives, when it finds v, or None. *)
(* Attacks that are not for healing always look again.                      *)
Lost(u, v, arrived) ==
  LET found == [Nothing EXCEPT !.init = ~ order[u].init]
  IN IF v # None THEN [found EXCEPT !.target = v, !.windup = 0]
     ELSE [found EXCEPT !.acts = IF order[u].move /\ ~ arrived THEN << >> ELSE <<Done>>]

(* Altered WindingUp: the strike is not followed by a reload. *)
WindingUpNoReload(u) ==
  IF attack[u].windup >= Windup[u]
  THEN [Nothing EXCEPT !.strike = order[u].target, !.windup = 0]
  ELSE [Nothing EXCEPT !.windup = attack[u].windup + 1]

(* A windup that has begun goes on, whatever the range, to the strike. *)
WindingUp(u) ==
  IF attack[u].windup >= Windup[u]
  THEN [Nothing EXCEPT !.strike = order[u].target, !.windup = 0, !.reload = TRUE]
  ELSE [Nothing EXCEPT !.windup = attack[u].windup + 1]

(* Out of range: the unit moves on, and takes a target in range instead if *)
(* it was not told which to attack.                                        *)
Approach(u, close, scans, v) ==
  [Nothing EXCEPT !.target = IF scans /\ ~ order[u].forced /\ v \in close THEN v
                             ELSE None]

(* In range, and no windup yet: it begins once the attack has reloaded. *)
Ready(u) == [Nothing EXCEPT !.windup = IF HasReloaded(u) THEN 1 ELSE None]

(* Altered Running: the range is tested before the windup. *)
RunningInRange(u, alive, close, scans, v, arrived) ==
  IF order[u].target \notin alive THEN Lost(u, v, arrived)
  ELSE IF order[u].target \notin close THEN Approach(u, close, scans, v)
  ELSE IF attack[u].windup > 0 THEN WindingUp(u)
  ELSE Ready(u)

(* The attack system on a unit that runs the command, where the units of    *)
(* alive have hit points and those of close are in range.                   *)
Running(u, alive, close, scans, v, arrived) ==
  IF order[u].target \notin alive THEN Lost(u, v, arrived)
  ELSE IF attack[u].windup > 0 THEN WindingUp(u)
  ELSE IF order[u].target \notin close THEN Approach(u, close, scans, v)
  ELSE Ready(u)

(* The clean up of an attack that ends. *)
CleanedUp(u) == [attack[u] EXCEPT !.windup = 0]

-----------------------------------------------------------------------------
(* The steps of the end of the frame, and one more frame since the reload. *)
Attacked(u, steps) ==
  [windup |-> IF steps.windup = None THEN attack[u].windup ELSE steps.windup,
   rest |-> Age(IF steps.reload THEN 0 ELSE attack[u].rest, Reload[u])]

(* The init of a command is set, and reset by the clean up of the frame;    *)
(* which of the two is applied last depends on the thread.                  *)
Inits(u, steps, cleaned) ==
  {i \in BOOLEAN : \/ ~ i /\ cleaned
                   \/ i /\ steps.init
                   \/ i = order[u].init /\ ~ cleaned /\ ~ steps.init}

Ordered(u, steps, i) ==
  IF steps.target = None THEN AttackCommand(order[u].target, order[u].move, i, order[u].forced)
  ELSE AttackCommand(steps.target, order[u].move, i, FALSE)
=============================================================================
