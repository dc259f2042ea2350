------------------------------ MODULE MCBattle ------------------------------
(***************************************************************************)
(* A knight, or archer, against a mage, who casts, and the mage's servant. *)
(***************************************************************************)
EXTENDS Battle, TLC

CONSTANTS knight, mage, servant, fireball

MCTeam == knight :> 1 @@ mage :> 2 @@ servant :> 2
Knight0 == knight :> 0
Knight1 == knight :> 1
Knight2 == knight :> 2
MCHitPoints == knight :> 1 @@ mage :> 1 @@ servant :> 1
Fireball1 == fireball :> 1
Fireball3 == fireball :> 3
MCOrders == knight :> {AttackCommand(None, TRUE, FALSE, FALSE)}
         @@ mage :> {CastCommand(fireball, knight)} @@ servant :> {}
=============================================================================
