SPECIFICATION Spec
CONSTANTS
  knight = knight
  mage = mage
  servant = servant
  fireball = fireball
  None = None
  Unset = Unset
  NoOp = NoOp
  Units = {knight, mage, servant}
  Attackers = {knight}
  Casters = {mage}
  Abilities = {fireball}
  Targeted = {fireball}
  Team <- MCTeam
  Windup <- Knight1
  Reload <- Knight2
  Reach <- Knight0
  HitPoints <- MCHitPoints
  Damage <- Knight1
  CastWindup <- Fireball1
  Cooldown <- Fireball3
  Cost <- Fireball1
  CastDamage <- Fireball1
  Stock = 2
  LongestWindup = 1
  CastRange = 0
  Sight = 1
  Far = 1
  Orders <- MCOrders
  MaxQueue = 1
  MaxShots = 2
INVARIANTS TypeOK DamageDealt
PROPERTIES StrikesSpaced StrikesAimed CastsSound WindupsEnd CastsEnd
