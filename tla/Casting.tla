------------------------------ MODULE Casting ------------------------------
(***************************************************************************)
(* The cast command (CastCommand.hh, Caster.hh, Caster.cc, InputCast.defs) *)
(* with its windup, its cooldown and what it costs the caster.  As for     *)
(* attacks, the system reads the world and leaves steps for the end of the *)
(* frame: Cast gives them for one unit.                                    *)
(*                                                                         *)
(* Time stamps are kept as ages.  What a player pays is the business of    *)
(* the whole game: here the player can pay, or cannot.  Abilities are      *)
(* those that is_castable never forbids; the time stamp 0, at which no     *)
(* command runs yet, is left out.                                          *)
(***************************************************************************)
EXTENDS QueueActions, Stamps

CONSTANTS Casters,
          Abilities,
          Unset,       \* no windup (the time stamp 0), no step
          CastWindup,  \* CastWindup[a]: windup()
          Cooldown,    \* Cooldown[a]: reload()
          Cost,        \* Cost[a]: resource_consumption(), of one resource
          Targeted,    \* the abilities that need an entity in their range
          Stock,       \* the ResourceStock of a caster at the start
          LongestWindup  \* bound: ages of windups stop there

ASSUME CastAssumption ==
  /\ Unset \notin Nat \union Abilities /\ Targeted \subseteq Abilities /\ Stock \in Nat
  /\ \A f \in {CastWindup, Cooldown, Cost} : f \in [Abilities -> Nat]
  /\ LongestWindup \in Nat /\ \A a \in Abilities : CastWindup[a] <= LongestWindup

VARIABLES caster  \* caster[u]: since when its windup runs (or Unset), since
                  \* when each ability was cast, and its stock

CastCommand(ability, target) == [kind |-> "cast", ability |-> ability, target |-> target]

CastInit ==
  caster = [u \in Casters |-> [wind |-> Unset, last |-> Cooldown, stock |-> Stock]]

(* Altered can_cast: the cooldown is not looked at. *)
CanCastAgain(u, a, funded) == a \in Abilities /\ caster[u].stock >= Cost[a] /\ funded

(* can_cast *)
CanCast(u, a, funded) ==
  /\ a \in Abilities
  /\ caster[u].stock >= Cost[a]
  /\ funded
  /\ caster[u].last[a] >= Cooldown[a]

(* What the cast system leaves for u: the ability cast, the windup begun,   *)
(* and the actions queued.                                                  *)
NoCast == [cast |-> Unset, start |-> FALSE, acts |-> << >>]

Elapsed(u, a) == caster[u].wind # Unset /\ caster[u].wind >= CastWindup[a]

(* Altered Cast: the windup is tested in range only. *)
CastInRange(u, c, inRange, funded) ==
  LET ok == CanCast(u, c.ability, funded)
      near == c.ability \notin Targeted \/ inRange
      elapsed == near /\ Elapsed(u, c.ability)
  IN [cast    |-> IF elapsed THEN c.ability ELSE Unset,
      start   |-> ok /\ near /\ caster[u].wind = Unset,
      acts    |-> (IF ok THEN << >> ELSE <<Done>>) \o (IF elapsed THEN <<Done>> ELSE << >>)]

(* The cast system on u that runs command c.  The windup is tested last,    *)
(* whether the cast was refused, and whether the target is in range or not. *)
Cast(u, c, inRange, funded) ==
  LET ok == CanCast(u, c.ability, funded)
      near == c.ability \notin Targeted \/ inRange
      elapsed == Elapsed(u, c.ability)
  IN [cast    |-> IF elapsed THEN c.ability ELSE Unset,
      start   |-> ok /\ near /\ caster[u].wind = Unset,
      acts    |-> (IF ok THEN << >> ELSE <<Done>>) \o (IF elapsed THEN <<Done>> ELSE << >>)]

(* The steps of the end of the frame, and one more frame since each stamp. *)
Casted(u, steps) ==
  [wind  |-> IF steps.cast # Unset \/ (caster[u].wind = Unset /\ ~ steps.start) THEN Unset
             ELSE Age(IF steps.start THEN 0 ELSE caster[u].wind, LongestWindup),
   last  |-> [a \in Abilities |->
                Age(IF a = steps.cast THEN 0 ELSE caster[u].last[a], Cooldown[a])],
   stock |-> IF steps.cast = Unset THEN caster[u].stock ELSE caster[u].stock - Cost[steps.cast]]

(* handle_cast: what a player's cast queues, if it is accepted. *)
CastOrders(u, c, funded) ==
  IF CanCast(u, c.ability, funded) THEN { <<Back(c)>>, <<Replace(<<c>>), Done>> } ELSE {}
=============================================================================
